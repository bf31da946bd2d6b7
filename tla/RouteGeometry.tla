---------------------------- MODULE RouteGeometry ----------------------------
(***************************************************************************)
(* Where a bus is on its route: the projection onto the polyline of the    *)
(* route (services/stream-processing/app/utils/geo.py), the stops ahead    *)
(* (app/transforms/enrichment.py), and the anomaly service's distance from *)
(* the route, which has a projection of its own.                           *)
(*                                                                         *)
(* A bus drives along its line, and its readings may be beside it.  The    *)
(* world is a grid and lines are parallel to its axes, so that the foot of *)
(* a perpendicular is a point of the grid; distances across it are compared*)
(* by their squares.  Rounding is left out.                                *)
(***************************************************************************)
EXTENDS Integers, Sequences, FiniteSets, SequencesExt, FiniteSetsExt

CONSTANTS
    Width,   \* the grid: points <<x, y>>, 0 .. Width each
    MaxLine  \* bound: points of a line

ASSUME GeometryAssumption == {Width, MaxLine} \subseteq Nat

VARIABLES
    line,   \* the route's points, as the route service gives them
    stops,  \* how far along the line its stops are, in order
    at,     \* how far along the line the bus is
    gps     \* where its reading says it is

geometryVars == <<line, stops, at, gps>>

-----------------------------------------------------------------------------
Point == (0 .. Width) \X (0 .. Width)
Sides(l) == 1 .. Len(l) - 1
Between(n, a, b) == IF n < Min({a, b}) THEN Min({a, b})
                    ELSE IF n > Max({a, b}) THEN Max({a, b}) ELSE n
Apart1(a, b) == IF a < b THEN b - a ELSE a - b

\* haversine_distance along an axis, and squared.
Length(p, q) == Apart1(p[1], q[1]) + Apart1(p[2], q[2])
Square(p, q) == (p[1] - q[1]) * (p[1] - q[1]) + (p[2] - q[2]) * (p[2] - q[2])
SegLen(l, i) == Length(l[i], l[i + 1])

\* How far along the line its points are, and how long it is.
Way(l) ==
    LET way[i \in 0 .. Len(l)] ==
          IF i <= 1 THEN 0 ELSE way[i - 1] + SegLen(l, i - 1)
    IN  way
Total(l) == Way(l)[Len(l)]

\* The projection ratio, clamped to the segment.
Foot(p, a, b) == <<Between(p[1], a[1], b[1]), Between(p[2], a[2], b[2])>>
FootOn(l, i, p) == Foot(p, l[i], l[i + 1])

\* Mutant of Nearer: a later segment that is as near takes over.
Nearer_later(d, best) == best = -1 \/ d <= best

Nearer(d, best) == best = -1 \/ d < best

\* get_dist_along_route, and the same loop in calculate_route_progress: the
\* square of the least distance (-1: infinite), its place, and the length of
\* the segments passed.
Side(l, p, i, s) ==
    LET n == SegLen(l, i)
        f == FootOn(l, i, p)
        d == Square(p, f)
    IN  IF n = 0 THEN s
        ELSE IF Nearer(d, s.best)
        THEN [best |-> d, along |-> s.passed + Length(l[i], f),
              passed |-> s.passed + n]
        ELSE [s EXCEPT !.passed = @ + n]
Scan(l, p) ==
    LET after[i \in 0 .. Len(l) - 1] ==
          IF i = 0 THEN [best |-> -1, along |-> 0, passed |-> 0]
                   ELSE Side(l, p, i, after[i - 1])
    IN  after[Len(l) - 1]

DistAlong(l, p) == IF Len(l) < 2 THEN 0 ELSE Scan(l, p).along

\* calculate_route_progress; the percentage is a fraction here.
Remaining(l, p) == IF Len(l) < 2 \/ Total(l) = 0 THEN 0
                   ELSE Max({0, Total(l) - DistAlong(l, p)})

\* distance_to_route, squared.
OffRoute(l, p) ==
    IF l = <<>> THEN 0
    ELSE IF Len(l) = 1 THEN Square(p, l[1])
    ELSE Min({IF SegLen(l, i) = 0 THEN Square(p, l[i])
              ELSE Square(p, FootOn(l, i, p)) : i \in Sides(l)})

Far == (Width + 1) * (Width + 1) * 2

\* distance_to_polyline of the anomaly service, squared.
OffPolyline(l, p) ==
    IF l = <<>> THEN Far
    ELSE IF Len(l) = 1 THEN Square(p, l[1])
    ELSE Min({Far} \union
             {IF SegLen(l, i) = 0 THEN Square(p, l[i])
              ELSE Square(p, FootOn(l, i, p)) : i \in Sides(l)})

\* The point of a line at a distance from its start.
PointAt(l, n) ==
    CHOOSE p \in Point : \E i \in Sides(l) :
        LET before == Way(l)[i] IN
        /\ before <= n /\ n <= before + SegLen(l, i)
        /\ p = FootOn(l, i, p) /\ Length(l[i], p) = n - before

\* open(): the stops' places on the line, from their coordinates; and
\* process_element: those at or after the bus, with their distance from it.
StopPlace(l, n) == DistAlong(l, PointAt(l, n))

Ahead(l, s, p) ==
    SelectSeq([k \in DOMAIN s |-> StopPlace(l, s[k]) - DistAlong(l, p)],
              LAMBDA d : d >= 0)

-----------------------------------------------------------------------------
Lines == {l \in UNION {[1 .. n -> Point] : n \in 0 .. MaxLine} :
             \A i \in Sides(l) : \E x \in 1 .. 2 : l[i][x] = l[i + 1][x]}

\* A line that does not touch itself.
Simple(l) == \A m, n \in 0 .. Total(l) :
                 m # n => PointAt(l, m) # PointAt(l, n)

\* A stop at every place of a line of some length.
GeometryInit ==
    /\ line \in Lines
    /\ at = 0
    /\ stops = IF Total(line) = 0 THEN <<>>
               ELSE [k \in 1 .. Total(line) + 1 |-> k - 1]
    /\ gps \in IF Total(line) = 0 THEN Point ELSE {PointAt(line, 0)}

Drive == /\ at < Total(line) /\ at' = at + 1
         /\ gps' = PointAt(line, at + 1)
         /\ UNCHANGED <<line, stops>>

Stray == /\ gps' \in Point /\ UNCHANGED <<line, stops, at>>

GeometryNext == Drive \/ Stray

GeometrySpec == GeometryInit /\ [][GeometryNext]_geometryVars

-----------------------------------------------------------------------------
(* Properties.                                                              *)

OnLine == Total(line) > 0 /\ gps = PointAt(line, at)

\* Every variable keeps to its type, and what is left of the line is never
\* more than the line.
GeometryTypeOK ==
    /\ line \in Lines /\ at \in 0 .. Total(line) /\ gps \in Point
    /\ \A k \in DOMAIN stops : stops[k] \in 0 .. Total(line)
    /\ DistAlong(line, gps) \in 0 .. Total(line)
    /\ Remaining(line, gps) + DistAlong(line, gps) = Total(line)

\* On a line that does not touch itself the projection of a reading that lies
\* on it is where the bus is, whatever the shape of the line and however many
\* of its points coincide.
PlaceIsExact ==
    Simple(line) /\ OnLine => DistAlong(line, gps) = at

\* On any line, and for any reading, the place is the first of the nearest: a
\* bus that comes to a crossing again, or ends a circular route where it
\* began, is put where it passed before.
FirstOfNearest ==
    Total(line) > 0 =>
        LET n == DistAlong(line, gps) IN
        /\ Square(gps, PointAt(line, n)) = OffRoute(line, gps)
        /\ \A m \in 0 .. n - 1 :
              Square(gps, PointAt(line, m)) > OffRoute(line, gps)

\* On a line that does not touch itself the stops ahead are those the bus has
\* not left yet, with their way along the line, the one it stands at included.
StopsAheadAreAhead ==
    Simple(line) /\ OnLine =>
        Ahead(line, stops, gps) =
            SelectSeq([k \in DOMAIN stops |-> stops[k] - at],
                      LAMBDA d : d >= 0)

\* The stream job and the anomaly service, each with a copy of the projection,
\* agree on how far off its route a bus is, on every line that has a point.
CopiesAgree ==
    line # <<>> => OffRoute(line, gps) = OffPolyline(line, gps)

\* A bus is put at the first of the nearest points of its line, which on a
\* plain line is where it is, has the stops ahead of it that it has, and both
\* services measure the same distance from the line.
GeometryInv ==
    /\ GeometryTypeOK
    /\ PlaceIsExact
    /\ FirstOfNearest
    /\ StopsAheadAreAhead
    /\ CopiesAgree
=============================================================================
