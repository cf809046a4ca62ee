----------------------------- MODULE LineDetail -----------------------------
(***************************************************************************)
(* How much of a line is drawn at a zoom.                                  *)
(*                                                                         *)
(*   src/models/simplify.py                                                *)
(*                                                                         *)
(* A line grows a vertex at a time over a small grid, and both ways of     *)
(* thinning it are evaluated on every line reached: live, at a tolerance,  *)
(* and by the levels prepared once per line.  Distances are compared as    *)
(* fractions <<num, den>> of squares, so nothing rounds.  Boxes and long   *)
(* lines are looked at before any line is drawn.                           *)
(***************************************************************************)
EXTENDS Integers, Sequences, SequencesExt, FiniteSets, FiniteSetsExt

CONSTANTS
    Grid,        \* vertices: <<x, y>>
    MaxVertices, \* bound: vertices of a line
    MaxLong,     \* bound: length of a line that is only counted
    Tolerances,  \* the tolerance of each level, halving
    Never,       \* NEVER_KEPT
    MinPoints,   \* MIN_POINTS
    MaxInput,    \* MAX_INPUT_POINTS
    Views,       \* boxes a map may show: <<minx, miny, maxx, maxy>>
    TileSize,    \* positions per tile
    Tiles        \* tiles along an axis (2 ** zoom)

VARIABLES
    poly,        \* the line
    count,       \* the length of a long line
    span         \* a range along one axis that is snapped to tiles

vars == <<poly, count, span>>

Edges == (-TileSize)..((Tiles + 1) * TileSize)

Init == poly = <<>> /\ count = 0 /\ span = <<0, 0>>

Draw(v) ==
    /\ count = 0 /\ span = <<0, 0>> /\ Len(poly) < MaxVertices
    /\ poly' = Append(poly, v) /\ UNCHANGED <<count, span>>

Lengthen ==
    /\ poly = <<>> /\ span = <<0, 0>> /\ count < MaxLong
    /\ count' = count + 1 /\ UNCHANGED <<poly, span>>

Look(a, b) ==
    /\ poly = <<>> /\ count = 0 /\ span = <<0, 0>> /\ a <= b
    /\ span' = <<a, b>> /\ UNCHANGED <<poly, count>>

Next ==
    \/ \E v \in Grid : Draw(v)
    \/ Lengthen
    \/ \E a, b \in Edges : Look(a, b)

Spec == Init /\ [][Next]_vars

-----------------------------------------------------------------------------
(* Thinning a line *)

Levels == DOMAIN Tolerances
Square(n) == n * n
Greater(a, b) == a[1] * b[2] > b[1] * a[2]
TolOf(l) == <<Square(Tolerances[l]), 1>>

\* The square of vertex k's distance from the line through i and j.
Offset(p, i, j, k) ==
    LET dx == p[j][1] - p[i][1]
        dy == p[j][2] - p[i][2]
    IN  IF dx = 0 /\ dy = 0
        THEN <<Square(p[k][1] - p[i][1]) + Square(p[k][2] - p[i][2]), 1>>
        ELSE <<Square(dy * (p[k][1] - p[i][1]) - dx * (p[k][2] - p[i][2])),
               Square(dx) + Square(dy)>>

WorstHalfway(p, i, j) == (i + j) \div 2

\* The first of the vertices between i and j that lie farthest out.
Worst(p, i, j) ==
    CHOOSE k \in (i + 1)..(j - 1) :
        \A m \in (i + 1)..(j - 1) :
            /\ ~Greater(Offset(p, i, j, m), Offset(p, i, j, k))
            /\ m < k => Greater(Offset(p, i, j, k), Offset(p, i, j, m))

Pairs(p) == {<<i, j>> \in (1..Len(p)) \X (1..Len(p)) : i < j}

\* simplify_lonlat: the vertices kept at a tolerance.
KeptLive(p, tol) ==
    LET kept[ij \in Pairs(p)] ==
            LET at == Worst(p, ij[1], ij[2])
            IN  IF ij[2] - ij[1] >= 2 /\ Greater(Offset(p, ij[1], ij[2], at), tol)
                THEN {at} \cup kept[<<ij[1], at>>] \cup kept[<<at, ij[2]>>]
                ELSE {}
    IN  IF Len(p) < 3 THEN DOMAIN p ELSE {1, Len(p)} \cup kept[<<1, Len(p)>>]

Unclamped(d, parent) == d

\* A vertex never outlives the vertex its part of the line was split at.
Clamped(d, parent) == IF Greater(d, parent) THEN parent ELSE d

\* vertex_levels: how far out every vertex lies, in its part of the line.
Deviations(p) ==
    LET dev[ij \in Pairs(p)] ==
            LET at == Worst(p, ij[1], ij[2])
                out == Offset(p, ij[1], ij[2], at)
            IN  IF ij[2] - ij[1] < 2 \/ out[1] = 0 THEN {}
                ELSE {<<at, out>>} \cup
                     {<<s[1], Clamped(s[2], out)>> : s \in dev[<<ij[1], at>>] \cup dev[<<at, ij[2]>>]}
    IN  dev[<<1, Len(p)>>]

LowestLevel(d) == Min({l \in Levels : Greater(d, TolOf(l))} \cup {Never})

VertexLevels(p) ==
    IF Len(p) < 3 THEN [k \in DOMAIN p |-> 0]
    ELSE LET devs == Deviations(p)
         IN  [k \in DOMAIN p |->
                IF k \in {1, Len(p)} THEN 0
                ELSE IF \E s \in devs : s[1] = k
                THEN LowestLevel((CHOOSE s \in devs : s[1] = k)[2]) ELSE Never]

KeptPrepared(p, level) ==
    LET lv == VertexLevels(p) IN {k \in DOMAIN p : Len(p) < 3 \/ lv[k] <= level}

-----------------------------------------------------------------------------
(* Striding *)

\* round() of a / b, a half going to the even neighbour.
Rounded(a, b) ==
    LET q == a \div b
    IN  IF 2 * (a % b) > b \/ (2 * (a % b) = b /\ q % 2 = 1) THEN q + 1 ELSE q

StrideByFloor(n, target) ==
    IF n <= target \/ target < 2 THEN [i \in 1..n |-> i]
    ELSE [i \in 1..target |-> 1 + (i - 1) * (n \div target)]

\* _stride_to: the indices kept of n vertices.
StrideTo(n, target) ==
    IF n <= target \/ target < 2 THEN [i \in 1..n |-> i]
    ELSE [i \in 1..target |-> IF i = target THEN n
                              ELSE 1 + Rounded((i - 1) * (n - 1), target - 1)]

At(p, idx) == [i \in DOMAIN idx |-> p[idx[i]]]

WorkingSet(p) == At(p, StrideTo(Len(p), MaxInput))
FloorLine(p) == At(p, StrideTo(Len(p), Min({MinPoints, Len(p)})))

Xs(p) == {p[i][1] : i \in DOMAIN p}
Ys(p) == {p[i][2] : i \in DOMAIN p}
LineBox(p) == <<Min(Xs(p)), Min(Ys(p)), Max(Xs(p)), Max(Ys(p))>>

Intersect(a, b) == ~(a[3] < b[1] \/ a[1] > b[3] \/ a[4] < b[2] \/ a[2] > b[4])
Inside(v, b) == b[1] <= v[1] /\ v[1] <= b[3] /\ b[2] <= v[2] /\ v[2] <= b[4]

FirstInside(p, box) == Inside(p[1], box)

LineTouches(p, box) == Inside(p[1], box) \/ Intersect(LineBox(p), box)

Points(p, kept) == At(p, SetToSortSeq(kept, <))

\* A line thinned below the minimum is strided instead.
Floored(p, reduced) == IF Len(reduced) >= MinPoints THEN reduced ELSE FloorLine(p)

\* simplify_for_zoom
ForZoom(p, level, box) ==
    IF Len(p) < 3 THEN p
    ELSE IF ~LineTouches(p, box) THEN FloorLine(p)
    ELSE LET working == WorkingSet(p)
         IN  Floored(working, Points(working, KeptLive(working, TolOf(level))))

\* filter_to_level, of the line restrict_to_bbox leaves whole.
ToLevel(p, level) ==
    IF Len(p) < 3 THEN p ELSE Floored(p, Points(p, KeptPrepared(p, level)))

-----------------------------------------------------------------------------
(* Snapping a range to tiles, on one axis *)

Clip(x) == Max({0, Min({Tiles, x})})

SnapThin(a, b) == <<Clip(a \div TileSize), Clip(-((-b) \div TileSize))>>

\* snap_bbox_to_tiles: the whole tiles a range touches, at least one.
Snap(a, b) ==
    LET lo == Clip(a \div TileSize)
        hi == Clip(-((-b) \div TileSize))
    IN  IF lo # hi THEN <<lo, hi>>
        ELSE IF lo < Tiles THEN <<lo, lo + 1>> ELSE <<Tiles - 1, Tiles>>

-----------------------------------------------------------------------------
(* Properties *)

TypeOK == poly \in BoundedSeq(Grid, MaxVertices) /\ count \in 0..MaxLong /\ span \in Edges \X Edges

\* The levels prepared once for a line give, at every level, exactly the line
\* the live simplification gives (vertex_levels, filter_to_level).
PreparedIsLive ==
    \A l \in Levels : KeptPrepared(poly, l) = KeptLive(poly, TolOf(l))

\* A vertex that was dropped lies within the tolerance of the part of the line
\* drawn in its place (simplify_lonlat).
DroppedIsNear ==
    \A l \in Levels : \A k \in DOMAIN poly \ KeptLive(poly, TolOf(l)) :
        LET kept == KeptLive(poly, TolOf(l))
            i == Max({m \in kept : m < k})
            j == Min({m \in kept : m > k})
        IN  ~Greater(Offset(poly, i, j, k), TolOf(l))

\* What is drawn starts and ends where the line does, has the minimum of points
\* the line has, and a line with a vertex in view is thinned, never strided.
DrawnIsWhole ==
    \A l \in Levels, box \in Views :
        LET out == ForZoom(poly, l, box)
        IN  poly # <<>> =>
              /\ out[1] = poly[1] /\ out[Len(out)] = poly[Len(poly)]
              /\ Len(out) >= Min({MinPoints, MaxInput, Len(poly)})
              /\ Len(poly) <= MaxInput /\ (\E i \in DOMAIN poly : Inside(poly[i], box))
                    => out = ToLevel(poly, l)

\* A stride keeps both ends and repeats no vertex, however long the line.
StrideAdvances ==
    \A target \in 2..count :
        LET idx == StrideTo(count, target)
        IN  /\ Len(idx) = target /\ idx[1] = 1 /\ idx[target] = count
            /\ \A i \in 1..(target - 1) : idx[i] < idx[i + 1]

\* A snapped box is never empty and covers what the map asked for, as far as the
\* world goes (snap_bbox_to_tiles).
SnapCovers ==
    LET s == Snap(span[1], span[2])
    IN  /\ 0 <= s[1] /\ s[1] < s[2] /\ s[2] <= Tiles
        /\ s[1] * TileSize <= Max({0, Min({span[1], Tiles * TileSize})})
        /\ s[2] * TileSize >= Max({0, Min({span[2], Tiles * TileSize})})
=============================================================================
