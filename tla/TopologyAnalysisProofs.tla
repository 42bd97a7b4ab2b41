----------------------- MODULE TopologyAnalysisProofs -----------------------
(***************************************************************************)
(* Snapping comes to rest and leaves no sliver at a corner, for rings of   *)
(* any number of whole corners among parcels with sides along the axes,    *)
(* any tolerances, and however often suggestions are applied; and what a   *)
(* report on rectangles can be relied on for.                              *)
(***************************************************************************)
EXTENDS TopologyAnalysis, FiniteSetTheorems, WellFoundedInduction, TLAPS

-----------------------------------------------------------------------------
(* Distances *)

\* The squared distance is a natural number, zero for equal points only.
LEMMA DistanceIsDefinite ==
    ASSUME NEW p \in Point, NEW q \in Point
    PROVE  /\ SquaredDistance(p, q) \in Nat
           /\ SquaredDistance(p, p) = 0
           /\ SquaredDistance(p, q) = 0 => p = q
<1>. DEFINE x == p[1] - q[1]  y == p[2] - q[2]
<1>1. /\ p = <<p[1], p[2]>> /\ p[1] \in Int /\ p[2] \in Int
      /\ q = <<q[1], q[2]>> /\ q[1] \in Int /\ q[2] \in Int
  BY DEF Point
<1>2. x \in Int /\ y \in Int
  BY <1>1
<1>3. \A n \in Int : n * n \in Nat /\ (n * n = 0 => n = 0)
  OBVIOUS
<1>4. x * x \in Nat /\ y * y \in Nat
  BY <1>2, <1>3
<1>5. SquaredDistance(p, q) = x * x + y * y
  BY DEF SquaredDistance
<1>6. SquaredDistance(p, q) \in Nat
  BY <1>4, <1>5
<1>7. SquaredDistance(p, p) = 0
  BY <1>1 DEF SquaredDistance
<1>8. ASSUME SquaredDistance(p, q) = 0  PROVE p = q
  <2>1. x * x = 0 /\ y * y = 0
    BY <1>4, <1>5, <1>8
  <2>2. x = 0 /\ y = 0
    BY <2>1, <1>2, <1>3
  <2>3. p[1] = q[1] /\ p[2] = q[2]
    BY <2>2, <1>1
  <2>. QED  BY <2>3, <1>1
<1>. QED  BY <1>6, <1>7, <1>8

\* Two moves of at most s and t end within twice the larger of the two.
LEMMA TwoMoves ==
    ASSUME NEW p \in Point, NEW q \in Point, NEW r \in Point,
           NEW s \in Nat, NEW t \in Nat, s <= t \/ t <= s,
           Within(p, q, s), Within(q, r, t)
    PROVE  Within(p, r, 2 * Higher(s, t))
<1>. DEFINE a == p[1] - q[1]  b == p[2] - q[2]
            c == q[1] - r[1]  d == q[2] - r[2]
            m == Higher(s, t)
<1>1. a \in Int /\ b \in Int /\ c \in Int /\ d \in Int
  BY DEF Point
<1>2. a * a + b * b <= s * s /\ c * c + d * d <= t * t
  BY DEF Within, SquaredDistance
<1>3. m \in Nat /\ s <= m /\ t <= m
  BY DEF Higher
<1>4. \A k \in Nat, n \in Nat : k <= n => k * k <= n * n
  OBVIOUS
<1>5. s * s <= m * m /\ t * t <= m * m
  BY <1>3, <1>4
<1>6. p[1] - r[1] = a + c /\ p[2] - r[2] = b + d
  BY DEF Point
<1>7. \A n \in Int, k \in Int : (n + k) * (n + k) <= 2 * (n * n) + 2 * (k * k)
  <2>1. \A n \in Int, k \in Int : (n - k) * (n - k) >= 0
    OBVIOUS
  <2>2. \A n \in Int, k \in Int :
           (n + k) * (n + k) + (n - k) * (n - k) = 2 * (n * n) + 2 * (k * k)
    OBVIOUS
  <2>3. \A n \in Int, k \in Int : (n + k) * (n + k) \in Int /\ (n - k) * (n - k) \in Int
                                  /\ n * n \in Int /\ k * k \in Int
    OBVIOUS
  <2>. QED  BY <2>1, <2>2, <2>3
<1>8. /\ (a + c) * (a + c) <= 2 * (a * a) + 2 * (c * c)
      /\ (b + d) * (b + d) <= 2 * (b * b) + 2 * (d * d)
  BY <1>1, <1>7
<1>9. /\ a * a \in Int /\ b * b \in Int /\ c * c \in Int /\ d * d \in Int
      /\ (a + c) * (a + c) \in Int /\ (b + d) * (b + d) \in Int
      /\ s * s \in Int /\ t * t \in Int /\ m * m \in Int
  BY <1>1, <1>3
<1>10. (a + c) * (a + c) + (b + d) * (b + d) <= 4 * (m * m)
  BY <1>2, <1>5, <1>8, <1>9
<1>11. (2 * m) * (2 * m) = 4 * (m * m)
  BY <1>3
<1>12. SquaredDistance(p, r) = (a + c) * (a + c) + (b + d) * (b + d)
  BY <1>6 DEF SquaredDistance
<1>. QED  BY <1>10, <1>11, <1>12 DEF Within

-----------------------------------------------------------------------------
(* The nearest point *)

\* A set of natural numbers has a least element.
LEMMA LeastNumber ==
    ASSUME NEW S, S \subseteq Nat, S # {}
    PROVE  \E n \in S : \A m \in S : n <= m
<1>1. \E n \in S : \A m \in S : <<m, n>> \notin OpToRel(<, Nat)
  BY NatLessThanWellFounded, WFMin
<1>2. \A m \in Nat, n \in Nat : <<m, n>> \notin OpToRel(<, Nat) => n <= m
  BY DEF OpToRel
<1>. QED  BY <1>1, <1>2

\* Of some places there is a first.
LEMMA FirstPlace ==
    ASSUME NEW S, S \subseteq Nat \X Nat, S # {}
    PROVE  \E first \in S : \A at \in S : NotAfter(first, at)
<1>. DEFINE Rows == {at[1] : at \in S}
<1>1. Rows \subseteq Nat /\ Rows # {}
  OBVIOUS
<1>2. PICK row \in Rows : \A n \in Rows : row <= n
  <2>. HIDE DEF Rows
  <2>. QED  BY <1>1, LeastNumber
<1>. DEFINE InRow  == {at \in S : at[1] = row}
            Across == {at[2] : at \in InRow}
<1>3. Across \subseteq Nat /\ Across # {}
  OBVIOUS
<1>4. PICK place \in Across : \A n \in Across : place <= n
  <2>. HIDE DEF Across
  <2>. QED  BY <1>3, LeastNumber
<1>5. PICK first \in InRow : first[2] = place
  OBVIOUS
<1>6. ASSUME NEW at \in S  PROVE NotAfter(first, at)
  <2>1. row <= at[1] /\ row \in Nat /\ at[1] \in Nat
    BY <1>1, <1>2
  <2>2. CASE at[1] = row
    <3>1. place <= at[2]
      BY <1>4, <2>2
    <3>. QED  BY <1>5, <2>2, <3>1 DEF NotAfter
  <2>3. CASE at[1] # row
    BY <1>5, <2>1, <2>3 DEF NotAfter
  <2>. QED  BY <2>2, <2>3
<1>. QED  BY <1>5, <1>6

\* FirstNearest picks one of the points; none is nearer, and the equally near
\* ones come later.
LEMMA FirstNearestIsFirst ==
    ASSUME NEW p \in Point, NEW S, S \subseteq Nat \X Nat, S # {}, NEW points \in [S -> Point]
    PROVE  \E i \in S :
              /\ FirstNearest(p, points) = points[i]
              /\ \A j \in S :
                    /\ SquaredDistance(p, points[i]) <= SquaredDistance(p, points[j])
                    /\ SquaredDistance(p, points[i]) = SquaredDistance(p, points[j])
                          => NotAfter(i, j)
<1>. DEFINE d(i) == SquaredDistance(p, points[i])
            Distances == {d(i) : i \in S}
            Best(i) == \A j \in S : d(i) <= d(j) /\ (d(i) = d(j) => NotAfter(i, j))
<1>1. \A i \in S : d(i) \in Nat
  BY DistanceIsDefinite
<1>2. Distances \subseteq Nat /\ Distances # {}
  BY <1>1
<1>3. PICK least \in Distances : \A m \in Distances : least <= m
  <2>. HIDE DEF Distances
  <2>. QED  BY <1>2, LeastNumber
<1>. DEFINE Nearest == {i \in S : d(i) = least}
<1>4. Nearest \subseteq Nat \X Nat /\ Nearest # {}
  OBVIOUS
<1>5. PICK first \in Nearest : \A m \in Nearest : NotAfter(first, m)
  <2>. HIDE DEF Nearest
  <2>. QED  BY <1>4, FirstPlace
<1>6. first \in S /\ Best(first)
  <2>1. \A j \in S : d(first) <= d(j)
    BY <1>3, <1>5
  <2>2. \A j \in S : d(first) = d(j) => NotAfter(first, j)
    BY <1>5
  <2>. QED  BY <2>1, <2>2, <1>5
<1>7. PICK i \in S : Best(i) /\ FirstNearest(p, points) = points[i]
  <2>. HIDE DEF d
  <2>1. FirstNearest(p, points) = points[CHOOSE i \in S : Best(i)]
    BY DEF FirstNearest, d
  <2>. HIDE DEF Best
  <2>. QED  BY <2>1, <1>6
<1>. QED  BY <1>7

\* So none is nearer than that.
LEMMA FirstNearestIsNearest ==
    ASSUME NEW p \in Point, NEW S, S \subseteq Nat \X Nat, S # {}, NEW points \in [S -> Point]
    PROVE  /\ \E i \in S : FirstNearest(p, points) = points[i]
           /\ \A j \in S :
                 SquaredDistance(p, FirstNearest(p, points)) <= SquaredDistance(p, points[j])
BY FirstNearestIsFirst

-----------------------------------------------------------------------------
(* One snap *)

Segment == Point \X Point

\* The foot on a segment is a point, and its own foot.
LEMMA FootStays ==
    ASSUME NEW p \in Point, NEW s \in Segment
    PROVE  /\ Projection(p, s) \in Point
           /\ Projection(Projection(p, s), s) = Projection(p, s)
<1>1. \A v \in Int, a \in Int, b \in Int :
         Clamped(v, a, b) \in Int /\ Clamped(Clamped(v, a, b), a, b) = Clamped(v, a, b)
  BY DEF Clamped, Higher, Lower
<1>2. /\ p[1] \in Int /\ p[2] \in Int
      /\ s[1][1] \in Int /\ s[1][2] \in Int /\ s[2][1] \in Int /\ s[2][2] \in Int
  BY DEF Point, Segment
<1>3. Projection(p, s) \in Point
  BY <1>1, <1>2 DEF Projection, Point
<1>4. Projection(Projection(p, s), s) = Projection(p, s)
  BY <1>1, <1>2 DEF Projection
<1>. QED  BY <1>3, <1>4

OnVertex(p, vertices) == \E i \in DOMAIN vertices : p = vertices[i]

OnEdge(p, segments) == \E i \in DOMAIN segments : p = Projection(p, segments[i])

\* Where a snap leads to, and what no snap moves.
LEMMA OneSnap ==
    ASSUME NEW p \in Point, NEW t \in Nat,
           NEW V, V \subseteq Nat \X Nat, V # {}, NEW vertices \in [V -> Point],
           NEW E, E \subseteq Nat \X Nat, E # {}, NEW segments \in [E -> Segment],
           NEW q, q = SnapTarget(p, vertices, segments, t)
    PROVE  /\ q \in Point
           /\ Within(p, q, t)
           /\ q = p \/ OnVertex(q, vertices) \/ OnEdge(q, segments)
           /\ OnVertex(p, vertices) => q = p
           /\ OnEdge(p, segments) => q = p \/ OnVertex(q, vertices)
<1>. DEFINE vertex == FirstNearest(p, vertices)
            feet   == Feet(p, segments)
            foot   == FirstNearest(p, feet)
<1>1. PICK i \in V : vertex = vertices[i]
  BY FirstNearestIsNearest
<1>2. vertex \in Point /\ OnVertex(vertex, vertices)
  BY <1>1 DEF OnVertex
<1>3. feet \in [E -> Point]
  BY FootStays DEF Feet
<1>. HIDE DEF feet
<1>4. PICK k \in E : foot = Projection(p, segments[k])
  <2>1. PICK k \in E : foot = feet[k]
    BY <1>3, FirstNearestIsNearest
  <2>. QED  BY <2>1 DEF Feet, feet
<1>5. foot \in Point /\ OnEdge(foot, segments)
  BY <1>4, FootStays DEF OnEdge
<1>6. \/ Within(p, vertex, t) /\ q = vertex
      \/ ~Within(p, vertex, t) /\ Within(p, foot, t) /\ q = foot
      \/ ~Within(p, vertex, t) /\ q = p
  BY DEF SnapTarget, feet
<1>7. Within(p, p, t)
  <2>1. t * t \in Nat
    OBVIOUS
  <2>. QED  BY <2>1, DistanceIsDefinite DEF Within
<1>8. ASSUME OnVertex(p, vertices)  PROVE q = p
  <2>1. SquaredDistance(p, vertex) <= SquaredDistance(p, p)
    BY <1>8, FirstNearestIsNearest DEF OnVertex
  <2>2. SquaredDistance(p, vertex) = 0
    BY <2>1, <1>2, DistanceIsDefinite
  <2>3. vertex = p
    BY <2>2, <1>2, DistanceIsDefinite
  <2>. QED  BY <2>3, <1>6, <1>7
<1>9. ASSUME OnEdge(p, segments)  PROVE q = p \/ OnVertex(q, vertices)
  <2>1. PICK j \in E : p = Projection(p, segments[j])
    BY <1>9 DEF OnEdge
  <2>2. feet[j] = p
    BY <2>1 DEF Feet, feet
  <2>3. SquaredDistance(p, foot) <= SquaredDistance(p, feet[j])
    BY <2>1, <1>3, FirstNearestIsNearest
  <2>4. SquaredDistance(p, foot) = 0
    BY <2>2, <2>3, <1>5, DistanceIsDefinite
  <2>5. foot = p
    BY <2>4, <1>5, DistanceIsDefinite
  <2>. QED  BY <2>5, <1>2, <1>6
<1>. QED  BY <1>2, <1>5, <1>6, <1>7, <1>8, <1>9

-----------------------------------------------------------------------------
(* What is snapped to *)

\* Some rows, none of them empty, of entries in S.
RowsOf(parts, S) ==
    /\ DOMAIN parts \subseteq Nat /\ DOMAIN parts # {}
    /\ \A r \in DOMAIN parts : DOMAIN parts[r] \subseteq Nat /\ DOMAIN parts[r] # {}
    /\ \A r \in DOMAIN parts : \A i \in DOMAIN parts[r] : parts[r][i] \in S

\* The entries of a sequence of sequences, by their places.
LEMMA EntriesInTurn ==
    ASSUME NEW S, NEW parts, RowsOf(parts, S)
    PROVE  /\ Places(parts) \subseteq Nat \X Nat /\ Places(parts) # {}
           /\ InTurn(parts) \in [Places(parts) -> S]
           /\ \A at \in Places(parts) :
                 /\ at[1] \in DOMAIN parts /\ at[2] \in DOMAIN parts[at[1]]
                 /\ InTurn(parts)[at] = parts[at[1]][at[2]]
           /\ \A r \in DOMAIN parts : \A i \in DOMAIN parts[r] :
                 <<r, i>> \in Places(parts) /\ InTurn(parts)[<<r, i>>] = parts[r][i]
<1>1. \A at : at \in Places(parts) <=>
         \E r \in DOMAIN parts : \E i \in DOMAIN parts[r] : at = <<r, i>>
  BY DEF Places
<1>2. \A at \in Places(parts) : at[1] \in DOMAIN parts /\ at[2] \in DOMAIN parts[at[1]]
  BY <1>1
<1>3. Places(parts) \subseteq Nat \X Nat
  BY <1>1 DEF RowsOf
<1>4. \A r \in DOMAIN parts : \A i \in DOMAIN parts[r] : <<r, i>> \in Places(parts)
  BY <1>1
<1>5. Places(parts) # {}
  BY <1>4 DEF RowsOf
<1>6. \A at \in Places(parts) : InTurn(parts)[at] = parts[at[1]][at[2]]
  BY DEF InTurn
<1>7. InTurn(parts) \in [Places(parts) -> S]
  BY <1>2 DEF InTurn, RowsOf
<1>8. \A r \in DOMAIN parts : \A i \in DOMAIN parts[r] : InTurn(parts)[<<r, i>>] = parts[r][i]
  BY <1>4, <1>6
<1>. QED  BY <1>2, <1>3, <1>4, <1>5, <1>6, <1>7, <1>8

\* The sides of a ring, and the corners they start at.
LEMMA RingHasSides ==
    ASSUME NEW ring \in Ring
    PROVE  /\ DOMAIN ring = 1 .. Len(ring) /\ Len(ring) \in Nat /\ Len(ring) >= 3
           /\ \A i \in DOMAIN ring : ring[i] \in Point
           /\ DOMAIN Sides(ring) = DOMAIN ring
           /\ \A i \in DOMAIN ring : Sides(ring)[i] \in Segment /\ Sides(ring)[i][1] = ring[i]
<1>1. /\ DOMAIN ring = 1 .. Len(ring) /\ Len(ring) \in Nat /\ Len(ring) >= 3
      /\ \A i \in DOMAIN ring : ring[i] \in Point
  BY DEF Ring
<1>. DEFINE n == Len(ring)
<1>2. \A i \in 1 .. n : (i % n) + 1 \in 1 .. n
  <2>1. n \in Nat /\ n > 0
    BY <1>1
  <2>. HIDE DEF n
  <2>2. \A i \in Nat : i % n \in 0 .. n - 1
    BY <2>1
  <2>. QED  BY <2>1, <2>2
<1>3. Sides(ring) = [i \in DOMAIN ring |-> <<ring[i], ring[(i % n) + 1]>>]
  BY DEF Sides
<1>. HIDE DEF n
<1>4. \A i \in DOMAIN ring : <<ring[i], ring[(i % n) + 1]>> \in Segment
  BY <1>1, <1>2 DEF Segment, n
<1>. QED  BY <1>1, <1>3, <1>4

SnapVertices == InTurn(References)

SnapSegments == InTurn([r \in DOMAIN References |-> Sides(References[r])])

\* What is snapped to: the corners and the sides of the parcels, at the same
\* places, the proposal's own parcel's first.
LEMMA SnapTargetsExist ==
    ASSUME neighbours \in Neighbourhoods
    PROVE  LET S == Places(References) IN
           /\ S \subseteq Nat \X Nat /\ S # {}
           /\ SnapVertices \in [S -> Point] /\ SnapSegments \in [S -> Segment]
           /\ \A at \in S : /\ at[1] \in DOMAIN References /\ at[2] \in DOMAIN References[at[1]]
                            /\ SnapVertices[at] = References[at[1]][at[2]]
                            /\ SnapSegments[at] = Sides(References[at[1]])[at[2]]
           /\ \A r \in DOMAIN References : \A i \in DOMAIN References[r] : <<r, i>> \in S
           /\ \A r \in DOMAIN References : References[r] \in Ring
           /\ 1 \in DOMAIN References /\ References[1] = Base
<1>1. References \in Seq(Ring) /\ 1 \in DOMAIN References /\ References[1] = Base
  BY AnalysisAssumption DEF References
<1>2. /\ DOMAIN References \subseteq Nat
      /\ \A r \in DOMAIN References : References[r] \in Ring
  BY <1>1
<1>. DEFINE sides == [r \in DOMAIN References |-> Sides(References[r])]
<1>3. \A r \in DOMAIN References :
         /\ DOMAIN References[r] \subseteq Nat /\ 1 \in DOMAIN References[r]
         /\ \A i \in DOMAIN References[r] : References[r][i] \in Point
         /\ DOMAIN sides[r] = DOMAIN References[r]
         /\ \A i \in DOMAIN sides[r] : sides[r][i] \in Segment
  <2>. SUFFICES ASSUME NEW r \in DOMAIN References
                PROVE  /\ DOMAIN References[r] \subseteq Nat /\ 1 \in DOMAIN References[r]
                       /\ \A i \in DOMAIN References[r] : References[r][i] \in Point
                       /\ DOMAIN sides[r] = DOMAIN References[r]
                       /\ \A i \in DOMAIN sides[r] : sides[r][i] \in Segment
    OBVIOUS
  <2>. DEFINE ring == References[r]
  <2>1. ring \in Ring /\ sides[r] = Sides(ring)
    BY <1>2
  <2>. HIDE DEF ring, sides
  <2>. QED  BY <2>1, RingHasSides DEF ring
<1>4. DOMAIN sides = DOMAIN References /\ \A r \in DOMAIN sides : sides[r] = Sides(References[r])
  OBVIOUS
<1>5. Places(sides) = Places(References)
  <2>1. {{r} \X DOMAIN sides[r] : r \in DOMAIN sides}
           = {{r} \X DOMAIN References[r] : r \in DOMAIN References}
    BY <1>3, <1>4
  <2>. QED  BY <2>1 DEF Places
<1>6. SnapSegments = InTurn(sides)
  BY DEF SnapSegments
<1>. HIDE DEF sides
<1>7. /\ Places(References) \subseteq Nat \X Nat /\ Places(References) # {}
      /\ SnapVertices \in [Places(References) -> Point]
      /\ \A at \in Places(References) :
            /\ at[1] \in DOMAIN References /\ at[2] \in DOMAIN References[at[1]]
            /\ SnapVertices[at] = References[at[1]][at[2]]
      /\ \A r \in DOMAIN References : \A i \in DOMAIN References[r] :
            <<r, i>> \in Places(References)
  <2>1. RowsOf(References, Point)
    BY <1>1, <1>2, <1>3 DEF RowsOf
  <2>2. SnapVertices = InTurn(References)
    BY DEF SnapVertices
  <2>. HIDE DEF References
  <2>. QED  BY <2>1, <2>2, EntriesInTurn
<1>8. /\ SnapSegments \in [Places(sides) -> Segment]
      /\ \A at \in Places(sides) : SnapSegments[at] = sides[at[1]][at[2]]
  <2>1. RowsOf(sides, Segment)
    BY <1>1, <1>2, <1>3, <1>4 DEF RowsOf
  <2>. QED  BY <1>6, <2>1, EntriesInTurn
<1>9. \A at \in Places(References) : SnapSegments[at] = Sides(References[at[1]])[at[2]]
  BY <1>4, <1>5, <1>7, <1>8
<1>. QED  BY <1>1, <1>2, <1>5, <1>7, <1>8, <1>9

-----------------------------------------------------------------------------
(* A corner over many snaps *)

\* Where a corner drawn at d may be after n moves: nowhere else, on the outline
\* of a parcel, at a vertex, and how far away.
Settling(d, p, n, vertices, segments) ==
    \/ n = 0 /\ p = d
    \/ /\ n = 1
       /\ OnVertex(p, vertices) \/ OnEdge(p, segments)
       /\ \E t \in Tolerances : Within(d, p, t)
    \/ /\ n = 2
       /\ OnVertex(p, vertices)
       /\ \E t \in Tolerances : Within(d, p, 2 * t)

\* Another snap, with any tolerance, keeps a corner there: each move leads
\* farther down the list, and from its end no move leads anywhere.
LEMMA SnapKeepsSettling ==
    ASSUME NEW d \in Point, NEW p \in Point, NEW n, NEW t \in Tolerances,
           NEW V, V \subseteq Nat \X Nat, V # {}, NEW vertices \in [V -> Point],
           NEW E, E \subseteq Nat \X Nat, E # {}, NEW segments \in [E -> Segment],
           NEW q, q = SnapTarget(p, vertices, segments, t),
           Settling(d, p, n, vertices, segments)
    PROVE  Settling(d, q, IF q = p THEN n ELSE n + 1, vertices, segments)
<1>1. t \in Nat /\ Tolerances \subseteq Nat
  BY AnalysisAssumption
<1>2. /\ q \in Point /\ Within(p, q, t)
      /\ q = p \/ OnVertex(q, vertices) \/ OnEdge(q, segments)
      /\ OnVertex(p, vertices) => q = p
      /\ OnEdge(p, segments) => q = p \/ OnVertex(q, vertices)
  BY <1>1, OneSnap
<1>3. SUFFICES ASSUME q # p  PROVE Settling(d, q, n + 1, vertices, segments)
  OBVIOUS
<1>4. CASE n = 0 /\ p = d
  BY <1>2, <1>3, <1>4 DEF Settling
<1>5. CASE /\ n = 1
           /\ OnVertex(p, vertices) \/ OnEdge(p, segments)
           /\ \E s \in Tolerances : Within(d, p, s)
  <2>1. PICK s \in Tolerances : Within(d, p, s)
    BY <1>5
  <2>2. s \in Nat
    BY <1>1
  <2>3. Within(d, q, 2 * Higher(s, t))
    BY <1>1, <1>2, <2>1, <2>2, TwoMoves
  <2>4. Higher(s, t) \in Tolerances
    BY DEF Higher
  <2>5. OnVertex(q, vertices)
    BY <1>2, <1>3, <1>5
  <2>. QED  BY <1>5, <2>3, <2>4, <2>5 DEF Settling
<1>6. CASE n = 2 /\ OnVertex(p, vertices)
  BY <1>2, <1>3, <1>6
<1>. QED  BY <1>4, <1>5, <1>6 DEF Settling

\* A settling corner is as CornersSettle wants it.
LEMMA SettlingIsNear ==
    ASSUME NEW d \in Point, NEW p \in Point, NEW n, NEW vertices, NEW segments,
           Settling(d, p, n, vertices, segments)
    PROVE  n <= 2 /\ \E t \in Tolerances : Within(d, p, 2 * t)
<1>1. Tolerances \subseteq Nat /\ Tolerances # {}
  BY AnalysisAssumption
<1>2. \A t \in Nat : t * t \in Nat /\ (2 * t) * (2 * t) \in Nat /\ t * t <= (2 * t) * (2 * t)
  OBVIOUS
<1>3. CASE n = 0 /\ p = d
  <2>1. PICK t \in Tolerances : TRUE
    BY <1>1
  <2>2. SquaredDistance(d, p) = 0
    BY <1>3, DistanceIsDefinite
  <2>3. Within(d, p, 2 * t)
    BY <1>1, <1>2, <2>2 DEF Within
  <2>. QED  BY <1>3, <2>3
<1>4. CASE n = 1 /\ \E t \in Tolerances : Within(d, p, t)
  <2>1. PICK t \in Tolerances : Within(d, p, t)
    BY <1>4
  <2>2. SquaredDistance(d, p) \in Nat
    BY DistanceIsDefinite
  <2>3. t * t \in Nat /\ (2 * t) * (2 * t) \in Nat /\ t * t <= (2 * t) * (2 * t)
    BY <1>1, <1>2
  <2>4. Within(d, p, 2 * t)
    BY <2>1, <2>2, <2>3 DEF Within
  <2>. QED  BY <1>4, <2>4
<1>5. CASE n = 2 /\ \E t \in Tolerances : Within(d, p, 2 * t)
  BY <1>5
<1>. QED  BY <1>3, <1>4, <1>5 DEF Settling

-----------------------------------------------------------------------------
(* Snapping settles *)

\* The shapes the argument needs.
Shaped ==
    /\ neighbours \in Neighbourhoods
    /\ drawn \in Ring /\ proposal \in Ring
    /\ DOMAIN proposal = DOMAIN drawn /\ DOMAIN moves = DOMAIN drawn

\* A suggestion is the snapped proposal, and only a suggestion has findings.
SuggestionIsSnap ==
    /\ suggestion # NoRing =>
          tolerance \in Tolerances /\ suggestion = SnapToReferences(proposal, tolerance)
    /\ findings # {} => suggestion # NoRing

\* Every corner of the proposal in hand is where its moves have left it.
EveryCornerSettling ==
    \A i \in DOMAIN drawn : Settling(drawn[i], proposal[i], moves[i], SnapVertices, SnapSegments)

SettlingInvariant == Shaped /\ SuggestionIsSnap /\ EveryCornerSettling

\* The snapped ring is a ring, each corner snapped by itself.
LEMMA SnapByCorner ==
    ASSUME NEW ring \in Ring, NEW t \in Tolerances, neighbours \in Neighbourhoods
    PROVE  /\ SnapToReferences(ring, t) \in Ring
           /\ DOMAIN SnapToReferences(ring, t) = DOMAIN ring
           /\ \A i \in DOMAIN ring : SnapToReferences(ring, t)[i]
                                   = SnapTarget(ring[i], SnapVertices, SnapSegments, t)
<1>. DEFINE snapped == SnapToReferences(ring, t)
<1>1. snapped = [i \in DOMAIN ring |-> SnapTarget(ring[i], SnapVertices, SnapSegments, t)]
  BY DEF SnapToReferences, SnapVertices, SnapSegments
<1>2. t \in Nat
  BY AnalysisAssumption
<1>3. \A i \in DOMAIN ring : SnapTarget(ring[i], SnapVertices, SnapSegments, t) \in Point
  <2>. TAKE i \in DOMAIN ring
  <2>1. ring[i] \in Point
    BY RingHasSides
  <2>. QED  BY <2>1, <1>2, SnapTargetsExist, OneSnap
<1>4. DOMAIN ring = 1 .. Len(ring) /\ Len(ring) \in Nat /\ Len(ring) >= 3
  BY RingHasSides
<1>5. snapped \in Ring
  <2>. DEFINE n == Len(ring)
  <2>1. snapped \in [1 .. n -> Point]
    BY <1>1, <1>3, <1>4
  <2>. HIDE DEF n, snapped
  <2>2. n \in Nat /\ n >= 3
    BY <1>4 DEF n
  <2>3. snapped \in Seq(Point) /\ Len(snapped) = n
    BY <2>1, <2>2
  <2>. QED  BY <2>2, <2>3 DEF Ring
<1>. QED  BY <1>1, <1>5

\* At first nothing has moved.
LEMMA SettlingInitially == Init => SettlingInvariant
<1>. SUFFICES ASSUME Init  PROVE SettlingInvariant
  OBVIOUS
<1>1. neighbours \in Neighbourhoods /\ drawn \in Ring /\ proposal = drawn
  BY AnalysisAssumption DEF Init
<1>2. Shaped
  BY <1>1 DEF Init, Shaped
<1>3. SuggestionIsSnap
  BY DEF Init, SuggestionIsSnap
<1>4. EveryCornerSettling
  BY <1>1 DEF Init, EveryCornerSettling, Settling
<1>. QED  BY <1>2, <1>3, <1>4 DEF SettlingInvariant

\* Detecting moves no corner yet; applying moves them all by one snap.
LEMMA SettlingPreserved == SettlingInvariant /\ [Next]_vars => SettlingInvariant'
<1>. SUFFICES ASSUME SettlingInvariant, [Next]_vars  PROVE SettlingInvariant'
  OBVIOUS
<1>. USE DEF SettlingInvariant
<1>1. neighbours' = neighbours /\ drawn' = drawn
  BY DEF Next, Detect, Apply, vars
<1>2. References' = References
  BY <1>1 DEF References
<1>3. SnapVertices' = SnapVertices /\ SnapSegments' = SnapSegments
  BY <1>2 DEF SnapVertices, SnapSegments
<1>4. ASSUME NEW t \in Tolerances, Detect(t)  PROVE SettlingInvariant'
  <2>1. UNCHANGED <<proposal, moves>>
    BY <1>4 DEF Detect
  <2>2. Shaped'
    BY <1>1, <2>1 DEF Shaped
  <2>3. SuggestionIsSnap'
    <3>1. suggestion' = SnapToReferences(proposal, t)
      BY <1>4 DEF Detect
    <3>2. SnapToReferences(proposal, t)' = SnapToReferences(proposal, t)
      BY <1>2, <2>1 DEF SnapToReferences
    <3>3. suggestion' \in Ring
      BY <3>1, SnapByCorner DEF Shaped
    <3>4. suggestion' # NoRing
      <4>1. Len(suggestion') # 0
        BY <3>3, RingHasSides
      <4>. QED  BY <4>1 DEF NoRing
    <3>5. tolerance' = t
      BY <1>4 DEF Detect
    <3>. QED  BY <3>1, <3>2, <3>4, <3>5 DEF SuggestionIsSnap
  <2>4. EveryCornerSettling'
    BY <1>1, <1>3, <2>1 DEF EveryCornerSettling
  <2>. QED  BY <2>2, <2>3, <2>4
<1>5. ASSUME Apply  PROVE SettlingInvariant'
  <2>1. PICK t \in Tolerances : suggestion = SnapToReferences(proposal, t)
    BY <1>5 DEF Apply, SuggestionIsSnap
  <2>2. /\ suggestion \in Ring /\ DOMAIN suggestion = DOMAIN drawn
        /\ \A i \in DOMAIN drawn : suggestion[i]
                                = SnapTarget(proposal[i], SnapVertices, SnapSegments, t)
    BY <2>1, SnapByCorner DEF Shaped
  <2>3. /\ proposal' = suggestion
        /\ DOMAIN moves' = DOMAIN drawn
        /\ \A i \in DOMAIN drawn :
              moves'[i] = IF suggestion[i] = proposal[i] THEN moves[i] ELSE moves[i] + 1
    BY <1>5 DEF Apply, Shaped
  <2>4. Shaped'
    BY <1>1, <2>2, <2>3 DEF Shaped
  <2>5. SuggestionIsSnap'
    BY <1>5 DEF Apply, SuggestionIsSnap
  <2>6. EveryCornerSettling'
    <3>. SUFFICES ASSUME NEW i \in DOMAIN drawn
                  PROVE  Settling(drawn[i], suggestion[i], moves'[i], SnapVertices, SnapSegments)
      BY <1>1, <1>3, <2>3 DEF EveryCornerSettling
    <3>1. drawn[i] \in Point /\ proposal[i] \in Point
      BY RingHasSides DEF Shaped
    <3>2. Settling(drawn[i], proposal[i], moves[i], SnapVertices, SnapSegments)
      BY DEF EveryCornerSettling
    <3>3. Settling(drawn[i], suggestion[i],
                   IF suggestion[i] = proposal[i] THEN moves[i] ELSE moves[i] + 1,
                   SnapVertices, SnapSegments)
      <4>. DEFINE S == Places(References)
      <4>1. /\ S \subseteq Nat \X Nat /\ S # {}
            /\ SnapVertices \in [S -> Point] /\ SnapSegments \in [S -> Segment]
        BY SnapTargetsExist DEF Shaped
      <4>. HIDE DEF S
      <4>2. suggestion[i] = SnapTarget(proposal[i], SnapVertices, SnapSegments, t)
        BY <2>2
      <4>. QED  BY <3>1, <3>2, <4>1, <4>2, SnapKeepsSettling
    <3>. QED  BY <2>3, <3>3
  <2>. QED  BY <2>4, <2>5, <2>6
<1>6. CASE UNCHANGED vars
  <2>1. Shaped'
    BY <1>6 DEF Shaped, vars
  <2>2. SuggestionIsSnap'
    BY <1>2, <1>6 DEF SuggestionIsSnap, SnapToReferences, vars
  <2>3. EveryCornerSettling'
    BY <1>1, <1>3, <1>6 DEF EveryCornerSettling, vars
  <2>. QED  BY <2>1, <2>2, <2>3
<1>. QED  BY <1>4, <1>5, <1>6 DEF Next

\* However often suggestions are applied and with whatever tolerances, no corner
\* moves more than twice or farther than twice the largest tolerance, whatever
\* ring was drawn between whatever parcels, as long as corners are whole points
\* and the parcels' sides run along the axes (SnapToReferences,
\* nearestSnapTarget, ApplyConflictSuggestion).
THEOREM SnappingSettles == Spec => []CornersSettle
<1>1. SettlingInvariant => CornersSettle
  <2>. SUFFICES ASSUME SettlingInvariant, NEW i \in DOMAIN moves
                PROVE  moves[i] <= 2 /\ \E t \in Tolerances : Within(drawn[i], proposal[i], 2 * t)
    BY DEF CornersSettle
  <2>1. i \in DOMAIN drawn /\ i \in DOMAIN proposal /\ drawn \in Ring /\ proposal \in Ring
    BY DEF SettlingInvariant, Shaped
  <2>2. drawn[i] \in Point /\ proposal[i] \in Point
    BY <2>1, RingHasSides
  <2>3. Settling(drawn[i], proposal[i], moves[i], SnapVertices, SnapSegments)
    BY <2>1 DEF SettlingInvariant, EveryCornerSettling
  <2>. QED  BY <2>2, <2>3, SettlingIsNear
<1>. QED  BY <1>1, SettlingInitially, SettlingPreserved, PTL DEF Spec

-----------------------------------------------------------------------------
(* Outlines *)

\* Clamping leads into an interval, and nothing in it is nearer.
LEMMA ClampIsNearest ==
    ASSUME NEW v \in Int, NEW a \in Int, NEW b \in Int, a <= b
    PROVE  /\ Clamped(v, a, b) \in a .. b /\ Clamped(v, b, a) = Clamped(v, a, b)
           /\ \A x \in a .. b :
                 (v - Clamped(v, a, b)) * (v - Clamped(v, a, b)) <= (v - x) * (v - x)
<1>1. Clamped(v, a, b) = IF v < a THEN a ELSE IF v > b THEN b ELSE v
  BY DEF Clamped, Higher, Lower
<1>2. Clamped(v, b, a) = Clamped(v, a, b)
  BY <1>1 DEF Clamped, Higher, Lower
<1>3. ASSUME NEW x \in a .. b
      PROVE  (v - Clamped(v, a, b)) * (v - Clamped(v, a, b)) <= (v - x) * (v - x)
  <2>1. \A m, n \in Nat : m <= n => m * m <= n * n
    OBVIOUS
  <2>2. \A m \in Int : m * m = (-m) * (-m) /\ m * m \in Nat
    OBVIOUS
  <2>3. CASE v < a
    <3>1. a - v \in Nat /\ x - v \in Nat /\ a - v <= x - v
      BY <2>3
    <3>2. (a - v) * (a - v) <= (x - v) * (x - v)
      BY <2>1, <3>1
    <3>3. v - a = -(a - v) /\ v - x = -(x - v)
      BY <3>1
    <3>. QED  BY <1>1, <2>2, <2>3, <3>1, <3>2, <3>3
  <2>4. CASE v > b
    <3>1. v - b \in Nat /\ v - x \in Nat /\ v - b <= v - x
      BY <2>4
    <3>. QED  BY <1>1, <2>1, <2>4, <3>1
  <2>5. CASE a <= v /\ v <= b
    <3>1. v - Clamped(v, a, b) = 0
      BY <1>1, <2>5
    <3>. QED  BY <2>2, <3>1
  <2>. QED  BY <2>3, <2>4, <2>5
<1>. QED  BY <1>1, <1>2, <1>3

\* The foot on a side is on it, and no point of the side is nearer; and the
\* side begins on it.
LEMMA FootOfSide ==
    ASSUME NEW s \in Segment, NEW p \in Point
    PROVE  /\ OnSide(s) \subseteq Point
           /\ s[1] \in OnSide(s)
           /\ Projection(p, s) \in OnSide(s)
           /\ \A o \in OnSide(s) :
                 SquaredDistance(p, Projection(p, s)) <= SquaredDistance(p, o)
<1>. DEFINE west  == Lower(s[1][1], s[2][1])  east  == Higher(s[1][1], s[2][1])
            south == Lower(s[1][2], s[2][2])  north == Higher(s[1][2], s[2][2])
            cx == Clamped(p[1], west, east)
            cy == Clamped(p[2], south, north)
<1>1. /\ p[1] \in Int /\ p[2] \in Int
      /\ s[1][1] \in Int /\ s[1][2] \in Int /\ s[2][1] \in Int /\ s[2][2] \in Int
      /\ s[1] = <<s[1][1], s[1][2]>>
  BY DEF Point, Segment
<1>2. /\ west \in Int /\ east \in Int /\ west <= east
      /\ south \in Int /\ north \in Int /\ south <= north
      /\ s[1][1] \in west .. east /\ s[1][2] \in south .. north
  BY <1>1 DEF Lower, Higher
<1>3. OnSide(s) = (west .. east) \X (south .. north)
  BY DEF OnSide
<1>4. \A v \in Int, a \in Int, b \in Int :
         Clamped(v, a, b) = Clamped(v, Lower(a, b), Higher(a, b))
  BY DEF Clamped, Lower, Higher
<1>5. Projection(p, s) = <<cx, cy>>
  BY <1>1, <1>4 DEF Projection
<1>. HIDE DEF west, east, south, north
<1>6. /\ cx \in west .. east
      /\ \A u \in west .. east : (p[1] - cx) * (p[1] - cx) <= (p[1] - u) * (p[1] - u)
  BY <1>1, <1>2, ClampIsNearest
<1>7. /\ cy \in south .. north
      /\ \A u \in south .. north : (p[2] - cy) * (p[2] - cy) <= (p[2] - u) * (p[2] - u)
  BY <1>1, <1>2, ClampIsNearest
<1>. HIDE DEF cx, cy
<1>8. ASSUME NEW o \in OnSide(s)
      PROVE  SquaredDistance(p, Projection(p, s)) <= SquaredDistance(p, o)
  <2>1. PICK u \in west .. east, v \in south .. north : o = <<u, v>>
    BY <1>3
  <2>2. /\ SquaredDistance(p, o) = (p[1] - u) * (p[1] - u) + (p[2] - v) * (p[2] - v)
        /\ SquaredDistance(p, Projection(p, s))
             = (p[1] - cx) * (p[1] - cx) + (p[2] - cy) * (p[2] - cy)
    BY <1>5, <2>1 DEF SquaredDistance
  <2>3. /\ (p[1] - cx) * (p[1] - cx) <= (p[1] - u) * (p[1] - u)
        /\ (p[2] - cy) * (p[2] - cy) <= (p[2] - v) * (p[2] - v)
    BY <1>6, <1>7
  <2>4. /\ (p[1] - cx) * (p[1] - cx) \in Int /\ (p[1] - u) * (p[1] - u) \in Int
        /\ (p[2] - cy) * (p[2] - cy) \in Int /\ (p[2] - v) * (p[2] - v) \in Int
    <3>1. \A m \in Int : m * m \in Int
      OBVIOUS
    <3>2. p[1] - cx \in Int /\ p[1] - u \in Int /\ p[2] - cy \in Int /\ p[2] - v \in Int
      BY <1>1, <1>6, <1>7
    <3>. QED  BY <3>1, <3>2
  <2>. QED  BY <2>2, <2>3, <2>4
<1>9. OnSide(s) \subseteq Point
  BY <1>2, <1>3 DEF Point
<1>10. s[1] \in OnSide(s)
  BY <1>1, <1>2, <1>3
<1>11. Projection(p, s) \in OnSide(s)
  BY <1>3, <1>5, <1>6, <1>7
<1>. QED  BY <1>8, <1>9, <1>10, <1>11

-----------------------------------------------------------------------------
(* The order of what is snapped to *)

\* The vertices snapped to are the corners of the parcels, and the first row
\* of places is the proposal's own parcel's.
LEMMA VerticesInOrder ==
    ASSUME neighbours \in Neighbourhoods
    PROVE  LET S == Places(References) IN
           /\ \A at \in S : /\ SnapVertices[at] \in Vertices
                            /\ at[1] \in Nat \ {0}
                            /\ at[1] = 1 => SnapVertices[at] \in CornersOf(Base)
           /\ \A v \in Vertices : \E at \in S : SnapVertices[at] = v
           /\ \A v \in CornersOf(Base) : \E at \in S : SnapVertices[at] = v /\ at[1] = 1
<1>1. /\ \A at \in Places(References) :
            /\ at[1] \in DOMAIN References /\ at[2] \in DOMAIN References[at[1]]
            /\ SnapVertices[at] = References[at[1]][at[2]]
      /\ \A r \in DOMAIN References : \A i \in DOMAIN References[r] :
            <<r, i>> \in Places(References)
      /\ 1 \in DOMAIN References /\ References[1] = Base
  BY SnapTargetsExist
<1>2. \A at \in Places(References) : at[1] \in Nat \ {0}
  <2>1. References \in Seq(Ring)
    BY AnalysisAssumption DEF References
  <2>. QED  BY <1>1, <2>1
<1>3. \A v : v \in Vertices <=>
         \E r \in DOMAIN References : \E i \in DOMAIN References[r] : v = References[r][i]
  BY DEF Vertices, CornersOf
<1>4. \A v : v \in CornersOf(Base) <=> \E i \in DOMAIN References[1] : v = References[1][i]
  BY <1>1 DEF CornersOf
<1>5. \A r \in DOMAIN References : \A i \in DOMAIN References[r] :
         /\ <<r, i>> \in Places(References) /\ <<r, i>>[1] = r
         /\ SnapVertices[<<r, i>>] = References[r][i]
  BY <1>1
<1>6. ASSUME NEW at \in Places(References)
      PROVE  SnapVertices[at] \in Vertices /\ (at[1] = 1 => SnapVertices[at] \in CornersOf(Base))
  BY <1>1, <1>3, <1>4
<1>7. ASSUME NEW v \in Vertices  PROVE \E at \in Places(References) : SnapVertices[at] = v
  <2>1. PICK r \in DOMAIN References : \E i \in DOMAIN References[r] : v = References[r][i]
    BY <1>3
  <2>2. PICK i \in DOMAIN References[r] : v = References[r][i]
    BY <2>1
  <2>3. <<r, i>> \in Places(References) /\ SnapVertices[<<r, i>>] = v
    BY <1>5, <2>2
  <2>. QED  BY <2>3
<1>8. ASSUME NEW v \in CornersOf(Base)
      PROVE  \E at \in Places(References) : SnapVertices[at] = v /\ at[1] = 1
  <2>1. PICK i \in DOMAIN References[1] : v = References[1][i]
    BY <1>4
  <2>. QED  BY <1>1, <1>5, <2>1
<1>. QED  BY <1>2, <1>6, <1>7, <1>8

\* Corners and feet are on the outline of a parcel, and one of the feet is as
\* near as any point of an outline.
LEMMA FeetReachOutlines ==
    ASSUME neighbours \in Neighbourhoods, NEW p \in Point
    PROVE  LET S == Places(References) IN
           /\ Outlines \subseteq Point
           /\ \A at \in S : SnapVertices[at] \in Outlines
           /\ \A at \in S : Projection(p, SnapSegments[at]) \in Outlines
           /\ \A o \in Outlines : \E at \in S :
                 SquaredDistance(p, Projection(p, SnapSegments[at])) <= SquaredDistance(p, o)
<1>1. \A o : o \in Outlines <=>
         \E r \in DOMAIN References : \E i \in DOMAIN References[r] :
            o \in OnSide(Sides(References[r])[i])
  BY DEF Outlines, Outline
<1>2. ASSUME NEW r \in DOMAIN References, NEW i \in DOMAIN References[r]
      PROVE  LET s == Sides(References[r])[i] IN
             /\ s \in Segment /\ s[1] = References[r][i]
             /\ <<r, i>> \in Places(References) /\ SnapSegments[<<r, i>>] = s
  <2>1. References[r] \in Ring /\ <<r, i>> \in Places(References)
    BY SnapTargetsExist
  <2>2. SnapSegments[<<r, i>>] = Sides(References[<<r, i>>[1]])[<<r, i>>[2]]
    BY <2>1, SnapTargetsExist
  <2>. QED  BY <2>1, <2>2, RingHasSides
<1>3. ASSUME NEW r \in DOMAIN References, NEW i \in DOMAIN References[r]
      PROVE  LET s == Sides(References[r])[i] IN
             /\ OnSide(s) \subseteq Point
             /\ References[r][i] \in OnSide(s) /\ Projection(p, s) \in OnSide(s)
             /\ \A o \in OnSide(s) :
                   SquaredDistance(p, Projection(p, s)) <= SquaredDistance(p, o)
  BY <1>2, FootOfSide
<1>4. ASSUME NEW at \in Places(References)
      PROVE  SnapVertices[at] \in Outlines /\ Projection(p, SnapSegments[at]) \in Outlines
  <2>1. /\ at[1] \in DOMAIN References /\ at[2] \in DOMAIN References[at[1]]
        /\ SnapVertices[at] = References[at[1]][at[2]]
        /\ SnapSegments[at] = Sides(References[at[1]])[at[2]]
    BY SnapTargetsExist
  <2>. QED  BY <1>1, <1>3, <2>1
<1>5. Outlines \subseteq Point
  BY <1>1, <1>3
<1>6. ASSUME NEW o \in Outlines
      PROVE  \E at \in Places(References) :
                SquaredDistance(p, Projection(p, SnapSegments[at])) <= SquaredDistance(p, o)
  <2>1. PICK r \in DOMAIN References : \E i \in DOMAIN References[r] :
          o \in OnSide(Sides(References[r])[i])
    BY <1>1
  <2>2. PICK i \in DOMAIN References[r] : o \in OnSide(Sides(References[r])[i])
    BY <2>1
  <2>. QED  BY <1>2, <1>3, <2>2
<1>. QED  BY <1>4, <1>5, <1>6

-----------------------------------------------------------------------------
(* No sliver is left *)

\* Where one corner is snapped to.
LEMMA CornerIsSnapped ==
    ASSUME neighbours \in Neighbourhoods, NEW p \in Point, NEW t \in Nat,
           NEW q, q = SnapTarget(p, SnapVertices, SnapSegments, t)
    PROVE  LET nearest == NearestOf(p, Vertices)
               own     == nearest \cap CornersOf(Base)
           IN  /\ q \in Outlines \/ \A o \in Outlines : ~Within(q, o, t)
               /\ (\E v \in nearest : Within(p, v, t)) =>
                     q \in (IF own # {} THEN own ELSE nearest)
<1>. DEFINE nearest == NearestOf(p, Vertices)
            own     == nearest \cap CornersOf(Base)
            S       == Places(References)
            vertex  == FirstNearest(p, SnapVertices)
            feet    == Feet(p, SnapSegments)
            foot    == FirstNearest(p, feet)
<1>1. /\ S \subseteq Nat \X Nat /\ S # {}
      /\ SnapVertices \in [S -> Point] /\ SnapSegments \in [S -> Segment]
  BY SnapTargetsExist
<1>2. /\ \A at \in S : /\ SnapVertices[at] \in Vertices /\ at[1] \in Nat \ {0}
                       /\ at[1] = 1 => SnapVertices[at] \in CornersOf(Base)
      /\ \A v \in Vertices : \E at \in S : SnapVertices[at] = v
      /\ \A v \in CornersOf(Base) : \E at \in S : SnapVertices[at] = v /\ at[1] = 1
  BY VerticesInOrder
<1>3. /\ Outlines \subseteq Point
      /\ \A at \in S : SnapVertices[at] \in Outlines
      /\ \A at \in S : Projection(p, SnapSegments[at]) \in Outlines
      /\ \A o \in Outlines : \E at \in S :
            SquaredDistance(p, Projection(p, SnapSegments[at])) <= SquaredDistance(p, o)
  BY FeetReachOutlines
<1>. HIDE DEF S
<1>4. PICK first \in S :
        /\ vertex = SnapVertices[first]
        /\ \A j \in S :
              /\ SquaredDistance(p, vertex) <= SquaredDistance(p, SnapVertices[j])
              /\ SquaredDistance(p, vertex) = SquaredDistance(p, SnapVertices[j])
                    => NotAfter(first, j)
  BY <1>1, FirstNearestIsFirst
<1>5. vertex \in Vertices /\ \A w \in Vertices : SquaredDistance(p, vertex) <= SquaredDistance(p, w)
  BY <1>2, <1>4
<1>6. vertex \in Point /\ vertex \in Outlines
  BY <1>3, <1>4
<1>7. foot \in Outlines /\ \A o \in Outlines : SquaredDistance(p, foot) <= SquaredDistance(p, o)
  <2>1. \A at \in S : feet[at] = Projection(p, SnapSegments[at])
    BY <1>1 DEF Feet
  <2>2. feet \in [S -> Point]
    BY <1>1, <1>3 DEF Feet
  <2>. HIDE DEF feet
  <2>3. /\ \E k \in S : foot = feet[k]
        /\ \A k \in S : SquaredDistance(p, foot) <= SquaredDistance(p, feet[k])
    BY <1>1, <2>2, FirstNearestIsNearest
  <2>4. foot \in Outlines
    BY <1>3, <2>1, <2>3
  <2>5. ASSUME NEW o \in Outlines  PROVE SquaredDistance(p, foot) <= SquaredDistance(p, o)
    <3>1. PICK k \in S : SquaredDistance(p, feet[k]) <= SquaredDistance(p, o)
      BY <1>3, <2>1
    <3>2. SquaredDistance(p, foot) <= SquaredDistance(p, feet[k])
      BY <2>3
    <3>3. foot \in Point /\ o \in Point /\ feet[k] \in Point
      BY <1>3, <2>2, <2>4
    <3>4. /\ SquaredDistance(p, foot) \in Nat /\ SquaredDistance(p, o) \in Nat
          /\ SquaredDistance(p, feet[k]) \in Nat
      BY <3>3, DistanceIsDefinite
    <3>. QED  BY <3>1, <3>2, <3>4
  <2>. QED  BY <2>4, <2>5
<1>8. /\ Within(p, vertex, t) => q = vertex
      /\ ~Within(p, vertex, t) /\ Within(p, foot, t) => q = foot
      /\ ~Within(p, vertex, t) /\ ~Within(p, foot, t) => q = p
  BY DEF SnapTarget
<1>. HIDE DEF vertex, foot
<1>9. q \in Outlines \/ \A o \in Outlines : ~Within(q, o, t)
  <2>1. CASE Within(p, vertex, t) \/ Within(p, foot, t)
    BY <1>6, <1>7, <1>8, <2>1
  <2>2. CASE ~Within(p, vertex, t) /\ ~Within(p, foot, t)
    <3>. SUFFICES ASSUME NEW o \in Outlines  PROVE ~Within(p, o, t)
      BY <1>8, <2>2
    <3>1. foot \in Point /\ o \in Point
      BY <1>3, <1>7
    <3>2. SquaredDistance(p, foot) \in Nat /\ SquaredDistance(p, o) \in Nat /\ t * t \in Nat
      BY <3>1, DistanceIsDefinite
    <3>3. SquaredDistance(p, foot) <= SquaredDistance(p, o)
      BY <1>7
    <3>. QED  BY <2>2, <3>2, <3>3 DEF Within
  <2>. QED  BY <2>1, <2>2
<1>10. \A v : v \in nearest <=>
          v \in Vertices /\ \A w \in Vertices : SquaredDistance(p, v) <= SquaredDistance(p, w)
  BY DEF NearestOf
<1>11. vertex \in nearest
  BY <1>5, <1>10
<1>. HIDE DEF nearest
<1>12. ASSUME NEW v \in nearest
       PROVE  SquaredDistance(p, v) = SquaredDistance(p, vertex)
  <2>1. v \in Point
    BY <1>2, <1>3, <1>10
  <2>2. SquaredDistance(p, v) \in Nat /\ SquaredDistance(p, vertex) \in Nat
    BY <1>6, <2>1, DistanceIsDefinite
  <2>3. SquaredDistance(p, v) <= SquaredDistance(p, vertex)
    BY <1>5, <1>10
  <2>4. SquaredDistance(p, vertex) <= SquaredDistance(p, v)
    BY <1>5, <1>10
  <2>. QED  BY <2>2, <2>3, <2>4
<1>13. ASSUME \E v \in nearest : Within(p, v, t)  PROVE q = vertex
  BY <1>8, <1>12, <1>13 DEF Within
<1>14. own # {} => vertex \in own
  <2>. SUFFICES ASSUME NEW v \in own  PROVE vertex \in CornersOf(Base)
    BY <1>11
  <2>1. PICK k \in S : SnapVertices[k] = v /\ k[1] = 1
    BY <1>2
  <2>2. NotAfter(first, k)
    BY <1>4, <1>12, <2>1
  <2>3. first[1] \in Nat \ {0}
    BY <1>2
  <2>4. first[1] = 1
    BY <2>1, <2>2, <2>3 DEF NotAfter
  <2>. QED  BY <1>2, <1>4, <2>4
<1>. QED  BY <1>9, <1>11, <1>13, <1>14 DEF nearest

\* A corner of a suggestion is on the outline of a parcel or farther than the
\* tolerance from all of them, and one near a vertex is on the nearest, the
\* parcel's own before a neighbour's, whatever the rings, as long as corners
\* are whole points and the parcels' sides run along the axes
\* (SnapToReferences, nearestSnapTarget).
THEOREM SnappingLeavesNoSliver == Spec => []NoSliverAtCorners
<1>1. SettlingInvariant => NoSliverAtCorners
  <2>1. CASE suggestion = NoRing
    BY <2>1 DEF NoSliverAtCorners, NoRing
  <2>2. ASSUME SettlingInvariant, suggestion # NoRing  PROVE NoSliverAtCorners
    <3>1. tolerance \in Tolerances /\ suggestion = SnapToReferences(proposal, tolerance)
      BY <2>2 DEF SettlingInvariant, SuggestionIsSnap
    <3>2. neighbours \in Neighbourhoods /\ proposal \in Ring /\ tolerance \in Nat
      BY <2>2, <3>1, AnalysisAssumption DEF SettlingInvariant, Shaped
    <3>3. /\ DOMAIN suggestion = DOMAIN proposal
          /\ \A i \in DOMAIN proposal : suggestion[i]
                                  = SnapTarget(proposal[i], SnapVertices, SnapSegments, tolerance)
      BY <3>1, <3>2, SnapByCorner
    <3>4. \A i \in DOMAIN proposal : proposal[i] \in Point
      BY <3>2, RingHasSides
    <3>. QED  BY <3>2, <3>3, <3>4, CornerIsSnapped DEF NoSliverAtCorners
  <2>. QED  BY <2>1, <2>2
<1>. QED  BY <1>1, SettlingInitially, SettlingPreserved, PTL DEF Spec

-----------------------------------------------------------------------------
(* The distance of two rectangles *)

Gap(a, b, c, d) == Higher(0, Higher(c - b, a - d))

LeastDistance(g, a, b, c, d) ==
    /\ g \in Nat
    /\ \A x \in a .. b, y \in c .. d : g * g <= (x - y) * (x - y)
    /\ \E x \in a .. b, y \in c .. d : g * g = (x - y) * (x - y)

\* The gap between two intervals is the least distance of their points.
LEMMA GapIsLeastDistance ==
    ASSUME NEW a \in Int, NEW b \in Int, NEW c \in Int, NEW d \in Int, a < b, c < d
    PROVE  LeastDistance(Gap(a, b, c, d), a, b, c, d)
<1>. DEFINE g == Gap(a, b, c, d)
<1>1. g = IF c > b THEN c - b ELSE IF a > d THEN a - d ELSE 0
  BY DEF Gap, Higher
<1>2. g \in Nat
  BY <1>1
<1>3. \A m, n \in Nat : m <= n => m * m <= n * n
  OBVIOUS
<1>4. \A m \in Int : m * m = (-m) * (-m) /\ m * m \in Nat
  OBVIOUS
<1>5. ASSUME NEW x \in a .. b, NEW y \in c .. d  PROVE g * g <= (x - y) * (x - y)
  <2>1. CASE c > b
    <3>1. y - x \in Nat /\ g <= y - x /\ y - x = -(x - y)
      BY <1>1, <2>1
    <3>. QED  BY <1>2, <1>3, <1>4, <3>1
  <2>2. CASE ~(c > b) /\ a > d
    <3>1. x - y \in Nat /\ g <= x - y
      BY <1>1, <2>2
    <3>. QED  BY <1>2, <1>3, <3>1
  <2>3. CASE ~(c > b) /\ ~(a > d)
    <3>1. g = 0 /\ x - y \in Int
      BY <1>1, <2>3
    <3>. QED  BY <1>4, <3>1
  <2>. QED  BY <2>1, <2>2, <2>3
<1>6. \E x \in a .. b, y \in c .. d : g * g = (x - y) * (x - y)
  <2>1. CASE c > b
    <3>1. b \in a .. b /\ c \in c .. d /\ g = -(b - c)
      BY <1>1, <2>1
    <3>. QED  BY <1>4, <3>1
  <2>2. CASE ~(c > b) /\ a > d
    <3>1. a \in a .. b /\ d \in c .. d /\ g = a - d
      BY <1>1, <2>2
    <3>. QED  BY <3>1
  <2>3. CASE ~(c > b) /\ ~(a > d)
    <3>. DEFINE z == Higher(a, c)
    <3>1. z \in a .. b /\ z \in c .. d /\ g = 0
      BY <1>1, <2>3 DEF Higher
    <3>2. z - z = 0
      BY <3>1
    <3>. QED  BY <3>1, <3>2
  <2>. QED  BY <2>1, <2>2, <2>3
<1>. QED  BY <1>2, <1>5, <1>6 DEF LeastDistance

\* Two rectangles are within a distance if two of their points are.
LEMMA SeparationIsDistance ==
    ASSUME NEW one \in Ring, IsRectangle(one), NEW other \in Ring, IsRectangle(other),
           NEW t \in Nat
    PROVE  Separation(one, other) <= t * t
              <=> \E p \in Ground(one), q \in Ground(other) : Within(p, q, t)
<1>. DEFINE a == one[1][1]    b == one[3][1]    c == other[1][1]  d == other[3][1]
            e == one[1][2]    f == one[3][2]    g == other[1][2]  h == other[3][2]
            x == Gap(a, b, c, d)
            y == Gap(e, f, g, h)
<1>1. /\ a \in Int /\ b \in Int /\ c \in Int /\ d \in Int
      /\ e \in Int /\ f \in Int /\ g \in Int /\ h \in Int
  <2>1. 1 \in DOMAIN one /\ 3 \in DOMAIN one /\ 1 \in DOMAIN other /\ 3 \in DOMAIN other
    BY RingHasSides DEF IsRectangle
  <2>2. one[1] \in Point /\ one[3] \in Point /\ other[1] \in Point /\ other[3] \in Point
    BY <2>1, RingHasSides
  <2>. QED  BY <2>2 DEF Point
<1>2. a < b /\ c < d /\ e < f /\ g < h
  BY DEF IsRectangle
<1>3. Separation(one, other) = x * x + y * y
  BY DEF Separation, Gap
<1>4. Ground(one) = (a .. b) \X (e .. f) /\ Ground(other) = (c .. d) \X (g .. h)
  BY DEF Ground
<1>. HIDE DEF a, b, c, d, e, f, g, h
<1>5. /\ x \in Nat
      /\ \A u \in a .. b, v \in c .. d : x * x <= (u - v) * (u - v)
      /\ \E u \in a .. b, v \in c .. d : x * x = (u - v) * (u - v)
  <2>1. LeastDistance(x, a, b, c, d)
    BY <1>1, <1>2, GapIsLeastDistance
  <2>. QED  BY <2>1 DEF LeastDistance
<1>6. /\ y \in Nat
      /\ \A u \in e .. f, v \in g .. h : y * y <= (u - v) * (u - v)
      /\ \E u \in e .. f, v \in g .. h : y * y = (u - v) * (u - v)
  <2>1. LeastDistance(y, e, f, g, h)
    BY <1>1, <1>2, GapIsLeastDistance
  <2>. QED  BY <2>1 DEF LeastDistance
<1>. HIDE DEF x, y
<1>7. \A m \in Int : m * m \in Int
  OBVIOUS
<1>8. t * t \in Int /\ x * x \in Int /\ y * y \in Int
  BY <1>5, <1>6, <1>7
<1>9. ASSUME NEW p \in Ground(one), NEW q \in Ground(other), Within(p, q, t)
      PROVE  Separation(one, other) <= t * t
  <2>1. p[1] \in a .. b /\ p[2] \in e .. f /\ q[1] \in c .. d /\ q[2] \in g .. h
    BY <1>4
  <2>2. /\ x * x <= (p[1] - q[1]) * (p[1] - q[1])
        /\ y * y <= (p[2] - q[2]) * (p[2] - q[2])
    BY <1>5, <1>6, <2>1
  <2>3. /\ (p[1] - q[1]) * (p[1] - q[1]) \in Int
        /\ (p[2] - q[2]) * (p[2] - q[2]) \in Int
    <3>1. p[1] - q[1] \in Int /\ p[2] - q[2] \in Int
      BY <1>1, <2>1
    <3>. QED  BY <1>7, <3>1
  <2>4. (p[1] - q[1]) * (p[1] - q[1]) + (p[2] - q[2]) * (p[2] - q[2]) <= t * t
    BY <1>9 DEF Within, SquaredDistance
  <2>. QED  BY <1>3, <1>8, <2>2, <2>3, <2>4
<1>10. ASSUME Separation(one, other) <= t * t
       PROVE  \E p \in Ground(one), q \in Ground(other) : Within(p, q, t)
  <2>1. PICK u \in a .. b, v \in c .. d : x * x = (u - v) * (u - v)
    BY <1>5
  <2>2. PICK m \in e .. f, n \in g .. h : y * y = (m - n) * (m - n)
    BY <1>6
  <2>3. SquaredDistance(<<u, m>>, <<v, n>>) = x * x + y * y
    BY <2>1, <2>2 DEF SquaredDistance
  <2>4. Within(<<u, m>>, <<v, n>>, t)
    BY <1>3, <1>10, <2>3 DEF Within
  <2>5. <<u, m>> \in Ground(one) /\ <<v, n>> \in Ground(other)
    BY <1>4
  <2>. QED  BY <2>4, <2>5
<1>. QED  BY <1>9, <1>10

-----------------------------------------------------------------------------
(* Findings *)

AllFindings(base, candidate, others, t) ==
    UNION {FindingsFor(n, base, candidate, others[n], t) : n \in DOMAIN others}

\* What is found is about the neighbour it names.
LEMMA FindingsByKind ==
    ASSUME NEW base, NEW candidate, NEW others, NEW t,
           NEW f \in AllFindings(base, candidate, others, t)
    PROVE  LET n == f.parcel
               near(ring) == Separation(ring, others[n]) <= t * t
               shared == SharedBorder(candidate, others[n])
           IN  /\ n \in DOMAIN others
               /\ f.kind = "overlap" =>
                     /\ f.evidence = Overlap(candidate, others[n])
                     /\ f.magnitude = Cardinality(Overlap(candidate, others[n]))
                     /\ ExceedsAreaThreshold(f.magnitude, t)
               /\ f.kind = "gap" => f.evidence = Border(candidate) /\ near(base) /\ ~near(candidate)
               /\ f.kind = "dangling_edge" =>
                     f.evidence = shared /\ near(candidate) /\ BorderLength(shared) <= t
<1>1. PICK n \in DOMAIN others : f \in FindingsFor(n, base, candidate, others[n], t)
  BY DEF AllFindings
<1>. QED  BY <1>1 DEF FindingsFor, Finding

\* Of the findings with the same key the first is kept.
LEMMA FirstIsKept ==
    ASSUME NEW base, NEW candidate, NEW others \in Seq(Ring), NEW t,
           NEW f \in AllFindings(base, candidate, others, t)
    PROVE  \E g \in DetectTopology(base, candidate, others, t) :
              /\ g \in AllFindings(base, candidate, others, t)
              /\ SameFinding(f, g) /\ g.parcel <= f.parcel
              /\ \A h \in AllFindings(base, candidate, others, t) :
                    SameFinding(g, h) => g.parcel <= h.parcel
<1>. DEFINE all == AllFindings(base, candidate, others, t)
            Same == {h \in all : SameFinding(f, h)}
            parcels == {h.parcel : h \in Same}
<1>1. parcels \subseteq Nat
  <2>1. \A h \in all : h.parcel \in DOMAIN others
    BY FindingsByKind
  <2>2. DOMAIN others \subseteq Nat
    OBVIOUS
  <2>. QED  BY <2>1, <2>2
<1>2. f \in Same
  BY DEF SameFinding
<1>3. PICK first \in parcels : \A n \in parcels : first <= n
  <2>1. parcels # {}
    BY <1>2
  <2>. HIDE DEF parcels
  <2>. QED  BY <1>1, <2>1, LeastNumber
<1>4. PICK g \in Same : g.parcel = first
  OBVIOUS
<1>5. \A h \in all : SameFinding(g, h) => g.parcel <= h.parcel
  <2>1. \A h \in all : SameFinding(g, h) => h \in Same
    BY <1>4 DEF SameFinding
  <2>. QED  BY <1>3, <1>4, <2>1
<1>6. g.parcel <= f.parcel
  BY <1>2, <1>3, <1>4
<1>7. DetectTopology(base, candidate, others, t)
         = {h \in all : \A k \in all : SameFinding(h, k) => h.parcel <= k.parcel}
  BY DEF DetectTopology, AllFindings
<1>8. g \in DetectTopology(base, candidate, others, t)
  BY <1>4, <1>5, <1>7
<1>. QED  BY <1>4, <1>5, <1>6, <1>8

\* The findings are those about the suggestion, if all are rectangles.
FindingsAreOfSuggestion ==
    suggestion # NoRing /\ Examined(suggestion) =>
        findings = DetectTopology(Base, suggestion, neighbours, tolerance)

LEMMA FindingsKept == FindingsAreOfSuggestion /\ [Next]_vars => FindingsAreOfSuggestion'
<1>. SUFFICES ASSUME FindingsAreOfSuggestion, [Next]_vars  PROVE FindingsAreOfSuggestion'
  OBVIOUS
<1>1. ASSUME NEW t \in Tolerances, Detect(t)  PROVE FindingsAreOfSuggestion'
  <2>1. Examined(suggestion)' <=> Examined(suggestion')
    BY <1>1 DEF Detect, Examined, References
  <2>. QED  BY <1>1, <2>1 DEF Detect, FindingsAreOfSuggestion
<1>2. CASE Apply
  BY <1>2 DEF Apply, FindingsAreOfSuggestion
<1>3. CASE UNCHANGED vars
  BY <1>3 DEF FindingsAreOfSuggestion, vars, Examined, References
<1>. QED  BY <1>1, <1>2, <1>3 DEF Next

\* Near, by the distance detection measures.
LEMMA NearBySeparation ==
    ASSUME neighbours \in Neighbourhoods, tolerance \in Tolerances,
           NEW ring \in Ring, IsRectangle(ring), NEW n \in DOMAIN neighbours,
           IsRectangle(neighbours[n])
    PROVE  Near(ring, n) <=> Separation(ring, neighbours[n]) <= tolerance * tolerance
<1>1. neighbours[n] \in Ring /\ tolerance \in Nat
  BY AnalysisAssumption
<1>. QED  BY <1>1, SeparationIsDistance DEF Near

\* What is examined are rectangles.
LEMMA ExaminedAreRectangles ==
    ASSUME neighbours \in Neighbourhoods, Examined(suggestion)
    PROVE  /\ IsRectangle(suggestion) /\ IsRectangle(Base)
           /\ \A n \in DOMAIN neighbours : IsRectangle(neighbours[n])
<1>1. neighbours \in Seq(Ring)
  BY AnalysisAssumption
<1>2. 1 \in DOMAIN References /\ References[1] = Base
  BY <1>1, AnalysisAssumption DEF References
<1>3. \A n \in DOMAIN neighbours : n + 1 \in DOMAIN References /\ References[n + 1] = neighbours[n]
  BY <1>1, AnalysisAssumption DEF References
<1>. QED  BY <1>2, <1>3 DEF Examined

\* What is known of the findings once a suggestion of rectangles is there.
Detected ==
    /\ neighbours \in Seq(Ring) /\ tolerance \in Nat
    /\ \A m \in DOMAIN neighbours :
          /\ Near(Base, m) <=> Separation(Base, neighbours[m]) <= tolerance * tolerance
          /\ Near(suggestion, m) <=> Separation(suggestion, neighbours[m]) <= tolerance * tolerance
    /\ findings = DetectTopology(Base, suggestion, neighbours, tolerance)

Found == AllFindings(Base, suggestion, neighbours, tolerance)

\* Every finding is kept, or one of an earlier neighbour that looks the same;
\* what is kept is the first of its looks.
LEMMA KeptFindings ==
    ASSUME Detected
    PROVE  /\ findings \subseteq Found
           /\ \A g \in findings, h \in Found : SameFinding(g, h) => g.parcel <= h.parcel
           /\ \A f \in Found : \E g \in findings : SameFinding(f, g) /\ g.parcel <= f.parcel
           /\ \A n \in DOMAIN neighbours :
                 FindingsFor(n, Base, suggestion, neighbours[n], tolerance) \subseteq Found
<1>1. findings = {f \in Found : \A g \in Found : SameFinding(f, g) => f.parcel <= g.parcel}
  BY DEF Detected, DetectTopology, Found, AllFindings
<1>2. ASSUME NEW f \in Found
      PROVE  \E g \in findings : SameFinding(f, g) /\ g.parcel <= f.parcel
  BY FirstIsKept DEF Detected, Found
<1>3. \A n \in DOMAIN neighbours :
         FindingsFor(n, Base, suggestion, neighbours[n], tolerance) \subseteq Found
  BY DEF Found, AllFindings
<1>. QED  BY <1>1, <1>2, <1>3

\* A finding is about the neighbour it names.
LEMMA KindsOfFindings ==
    ASSUME Detected, NEW f \in Found
    PROVE  /\ f.parcel \in DOMAIN neighbours /\ f.parcel \in Nat
           /\ f.kind = "overlap" =>
                 /\ f.evidence = Overlap(suggestion, neighbours[f.parcel])
                 /\ f.magnitude = Cardinality(Overlap(suggestion, neighbours[f.parcel]))
                 /\ ExceedsAreaThreshold(f.magnitude, tolerance)
           /\ f.kind = "gap" => f.evidence = Border(suggestion) /\ f.parcel \in LostContact
           /\ f.kind = "dangling_edge" => f.evidence = Touch(f.parcel) /\ f.parcel \in TooShort
<1>1. f.parcel \in DOMAIN neighbours /\ f.parcel \in Nat
  BY FindingsByKind DEF Detected, Found
<1>. QED  BY <1>1, FindingsByKind DEF Detected, Found, LostContact, TooShort, Touch

\* Overlaps of neighbours apart from each other have geometries of their own.
LEMMA OverlapsAreNamed ==
    ASSUME Detected, Disjoint, NEW n \in DOMAIN neighbours
    PROVE  ExceedsAreaThreshold(Cardinality(Overlap(suggestion, neighbours[n])), tolerance)
              <=> \E f \in findings : /\ f.kind = "overlap" /\ f.parcel = n
                                      /\ f.magnitude = Cardinality(Overlap(suggestion, neighbours[n]))
<1>. DEFINE area  == Overlap(suggestion, neighbours[n])
            found == Finding("overlap", area, Cardinality(area), n)
<1>1. ASSUME ExceedsAreaThreshold(Cardinality(area), tolerance)
      PROVE  \E f \in findings : f.kind = "overlap" /\ f.parcel = n /\ f.magnitude = Cardinality(area)
  <2>1. found \in Found
    BY <1>1, KeptFindings DEF FindingsFor
  <2>2. PICK g \in findings : g \in Found /\ SameFinding(found, g)
    BY <2>1, KeptFindings
  <2>3. g.kind = "overlap" /\ g.evidence = area
    BY <2>2 DEF SameFinding, Finding
  <2>4. /\ g.parcel \in DOMAIN neighbours
        /\ area = Overlap(suggestion, neighbours[g.parcel])
        /\ g.magnitude = Cardinality(Overlap(suggestion, neighbours[g.parcel]))
    BY <2>2, <2>3, KindsOfFindings
  <2>5. area # {}
    <3>1. \A k \in Nat : k * k >= 0 /\ k * k \in Int
      OBVIOUS
    <3>2. tolerance * tolerance >= 0 /\ tolerance * tolerance \in Int
      BY <3>1 DEF Detected
    <3>3. ASSUME area = {}  PROVE FALSE
      <4>1. Cardinality(area) = 0
        BY <3>3, FS_EmptySet, Zenon
      <4>. QED  BY <1>1, <3>2, <4>1 DEF ExceedsAreaThreshold
    <3>. QED  BY <3>3
  <2>6. area \subseteq Overlap(neighbours[n], neighbours[g.parcel])
    BY <2>4 DEF Overlap
  <2>7. g.parcel = n
    BY <2>4, <2>5, <2>6 DEF Disjoint
  <2>. QED  BY <2>3, <2>4, <2>7
<1>2. ASSUME NEW f \in findings, f.kind = "overlap", f.parcel = n, f.magnitude = Cardinality(area)
      PROVE  ExceedsAreaThreshold(Cardinality(area), tolerance)
  <2>1. f \in Found
    BY KeptFindings
  <2>. QED  BY <1>2, <2>1, KindsOfFindings
<1>. QED  BY <1>1, <1>2

\* All lost contacts look the same: the first is named and no other.
LEMMA FirstLostContactIsNamed ==
    ASSUME Detected
    PROVE  Named("gap") = FirstOf(LostContact)
<1>. DEFINE found(m) == Finding("gap", Border(suggestion), Separation(suggestion, neighbours[m]), m)
<1>1. \A m \in LostContact : found(m) \in Found
  BY KeptFindings DEF LostContact, Detected, FindingsFor
<1>2. \A m : found(m).kind = "gap" /\ found(m).evidence = Border(suggestion) /\ found(m).parcel = m
  BY DEF Finding
<1>3. \A m \in LostContact : m \in Nat
  BY DEF LostContact, Detected
<1>. HIDE DEF found
<1>4. ASSUME NEW g \in findings, g.kind = "gap"  PROVE g.parcel \in FirstOf(LostContact)
  <2>1. g \in Found
    BY KeptFindings
  <2>2. g.evidence = Border(suggestion) /\ g.parcel \in LostContact
    BY <1>4, <2>1, KindsOfFindings
  <2>3. ASSUME NEW m \in LostContact  PROVE g.parcel <= m
    <3>1. SameFinding(g, found(m))
      BY <1>2, <1>4, <2>2 DEF SameFinding
    <3>. QED  BY <1>1, <1>2, <3>1, KeptFindings
  <2>. QED  BY <2>2, <2>3 DEF FirstOf
<1>5. ASSUME NEW n \in FirstOf(LostContact)  PROVE \E g \in findings : g.kind = "gap" /\ g.parcel = n
  <2>1. n \in LostContact /\ \A m \in LostContact : n <= m
    BY DEF FirstOf
  <2>2. PICK g \in findings : SameFinding(found(n), g) /\ g.parcel <= n
    BY <1>1, <1>2, <2>1, KeptFindings
  <2>3. g.kind = "gap"
    BY <1>2, <2>2 DEF SameFinding
  <2>4. g.parcel \in LostContact
    BY <2>3, <1>4 DEF FirstOf
  <2>5. g.parcel = n
    BY <1>3, <2>1, <2>2, <2>4
  <2>. QED  BY <2>3, <2>5
<1>. QED  BY <1>4, <1>5 DEF Named

\* Of contacts too short the first with each geometry is named.
LEMMA ShortContactsAreNamed ==
    ASSUME Detected
    PROVE  /\ Named("dangling_edge") \subseteq TooShort
           /\ \A n \in TooShort : \E m \in Named("dangling_edge") :
                 Touch(m) = Touch(n) /\ m <= n
           /\ \A m \in Named("dangling_edge"), n \in TooShort : Touch(m) = Touch(n) => m <= n
<1>. DEFINE found(m) == Finding("dangling_edge", Touch(m),
                                 Higher(tolerance - BorderLength(Touch(m)), 0), m)
<1>1. \A m \in TooShort : found(m) \in Found
  BY KeptFindings DEF TooShort, Detected, FindingsFor, Touch
<1>2. \A m : found(m).kind = "dangling_edge" /\ found(m).evidence = Touch(m) /\ found(m).parcel = m
  BY DEF Finding
<1>. HIDE DEF found
<1>3. ASSUME NEW g \in findings, g.kind = "dangling_edge"
      PROVE  /\ g \in Found /\ g.evidence = Touch(g.parcel) /\ g.parcel \in TooShort
  <2>1. g \in Found
    BY KeptFindings
  <2>. QED  BY <1>3, <2>1, KindsOfFindings
<1>4. Named("dangling_edge") \subseteq TooShort
  BY <1>3 DEF Named
<1>5. ASSUME NEW n \in TooShort
      PROVE  \E m \in Named("dangling_edge") : Touch(m) = Touch(n) /\ m <= n
  <2>1. PICK g \in findings : SameFinding(found(n), g) /\ g.parcel <= n
    BY <1>1, <1>2, KeptFindings
  <2>2. g.kind = "dangling_edge" /\ g.evidence = Touch(n)
    BY <1>2, <2>1 DEF SameFinding
  <2>3. g.parcel \in Named("dangling_edge") /\ Touch(g.parcel) = Touch(n)
    BY <1>3, <2>2 DEF Named
  <2>. QED  BY <2>1, <2>3
<1>6. ASSUME NEW m \in Named("dangling_edge"), NEW n \in TooShort, Touch(m) = Touch(n)
      PROVE  m <= n
  <2>1. PICK g \in findings : g.kind = "dangling_edge" /\ g.parcel = m
    BY DEF Named
  <2>2. g \in Found /\ g.evidence = Touch(n)
    BY <1>3, <1>6, <2>1
  <2>3. SameFinding(g, found(n))
    BY <1>2, <2>1, <2>2 DEF SameFinding
  <2>. QED  BY <1>1, <1>2, <2>1, <2>3, KeptFindings
<1>. QED  BY <1>4, <1>5, <1>6

\* A report on rectangles can be relied on, however many neighbours there are
\* and whatever the tolerance: of neighbours that do not overlap each other,
\* those overlapped are the ones named; the first lost contact is named; so is
\* every short contact with a point of its own and the first neighbour near by
\* that is not touched; and nothing is named without cause (DetectTopology,
\* deduplicateFindings).
THEOREM TroubleIsReported == Spec => []TroubleReported
<1>1. ASSUME SettlingInvariant, FindingsAreOfSuggestion
      PROVE  TroubleReported
  <2>. SUFFICES ASSUME suggestion # NoRing, Examined(suggestion)
                PROVE  TroubleReported
    BY DEF TroubleReported
  <2>1. /\ neighbours \in Neighbourhoods /\ neighbours \in Seq(Ring)
        /\ tolerance \in Tolerances /\ tolerance \in Nat
        /\ Base \in Ring /\ suggestion \in Ring
    BY <1>1, AnalysisAssumption, SnapByCorner DEF SettlingInvariant, Shaped, SuggestionIsSnap
  <2>2. Detected
    <3>1. /\ IsRectangle(suggestion) /\ IsRectangle(Base)
          /\ \A n \in DOMAIN neighbours : IsRectangle(neighbours[n])
      BY <2>1, ExaminedAreRectangles
    <3>2. \A m \in DOMAIN neighbours :
             /\ Near(Base, m) <=> Separation(Base, neighbours[m]) <= tolerance * tolerance
             /\ Near(suggestion, m)
                   <=> Separation(suggestion, neighbours[m]) <= tolerance * tolerance
      BY <2>1, <3>1, NearBySeparation
    <3>. QED  BY <1>1, <2>1, <3>2 DEF Detected, FindingsAreOfSuggestion
  <2>3. ASSUME Disjoint, NEW n \in DOMAIN neighbours
        PROVE  LET area == Cardinality(Cells(suggestion) \cap Cells(neighbours[n])) IN
               10000 * area > tolerance * tolerance <=>
                  \E f \in findings : f.kind = "overlap" /\ f.parcel = n /\ f.magnitude = area
    BY <2>2, <2>3, OverlapsAreNamed DEF Overlap, ExceedsAreaThreshold
  <2>4. Named("gap") = FirstOf(LostContact)
    BY <2>2, FirstLostContactIsNamed
  <2>5. /\ Named("dangling_edge") \subseteq TooShort
        /\ \A n \in TooShort : \E m \in Named("dangling_edge") : Touch(m) = Touch(n) /\ m <= n
        /\ \A m \in Named("dangling_edge"), n \in TooShort : Touch(m) = Touch(n) => m <= n
    BY <2>2, ShortContactsAreNamed
  <2>6. TooShort \subseteq DOMAIN neighbours /\ DOMAIN neighbours \subseteq Nat
    BY <2>1 DEF TooShort
  <2>7. ASSUME NEW n \in TooShort, n \notin Named("dangling_edge")
        PROVE  Touch(n) \subseteq UNION {Touch(m) : m \in DOMAIN neighbours \ {n}}
    <3>1. PICK m \in Named("dangling_edge") : Touch(m) = Touch(n)
      BY <2>5
    <3>2. m \in DOMAIN neighbours \ {n}
      BY <2>5, <2>6, <2>7
    <3>. QED  BY <3>1, <3>2
  <2>8. Named("dangling_edge") \cap Apart = FirstOf(Apart)
    <3>1. ASSUME NEW n \in Named("dangling_edge") \cap Apart  PROVE n \in FirstOf(Apart)
      BY <2>5 DEF Apart, FirstOf
    <3>2. ASSUME NEW n \in FirstOf(Apart)  PROVE n \in Named("dangling_edge")
      <4>1. n \in TooShort /\ Touch(n) = {} /\ \A k \in Apart : n <= k
        BY DEF FirstOf, Apart
      <4>2. PICK m \in Named("dangling_edge") : Touch(m) = Touch(n) /\ m <= n
        BY <2>5, <4>1
      <4>3. m \in Apart /\ m \in Nat /\ n \in Nat
        BY <2>5, <2>6, <4>1, <4>2 DEF Apart
      <4>4. m = n
        BY <4>1, <4>2, <4>3
      <4>. QED  BY <4>4
    <3>3. FirstOf(Apart) \subseteq Apart
      BY DEF FirstOf
    <3>. QED  BY <3>1, <3>2, <3>3
  <2>9. TooShort # {} => Named("dangling_edge") # {}
    BY <2>5
  <2>. QED  BY <2>3, <2>4, <2>5, <2>7, <2>8, <2>9 DEF TroubleReported
<1>2. Init => FindingsAreOfSuggestion
  BY DEF Init, FindingsAreOfSuggestion
<1>. QED  BY <1>1, <1>2, SettlingInitially, SettlingPreserved, FindingsKept, PTL DEF Spec
=============================================================================
