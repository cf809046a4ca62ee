---------------------------- MODULE BasemapBands ----------------------------
(***************************************************************************)
(* The basemap sheets of a video, planned frame by frame, then drawn.      *)
(*                                                                         *)
(*   src/video/basemap_bands.py   band_weights, view_rect, _plan,          *)
(*                                plan_bands, plan_requests, Basemaps      *)
(*                                                                         *)
(* Sheets are rectangles of a band's world in whole pixels; the world      *)
(* wraps around in x.  View rectangles are in Fine-ths of a pixel.  A shot *)
(* is at a whole zoom level or fading into the next one.                   *)
(***************************************************************************)
EXTENDS Integers, Sequences, FiniteSets, SequencesExt

CONSTANTS
    Shots,       \* the shots: [x, y, zoom, fading], x and y in Grid-ths
    MaxShots,    \* bound: frames
    Grid,
    Base,        \* pixels of the world at band 0, one tile wide
    Width, Height,
    Margin, GapFrames, SheetFrames, MaxTiles,
    None

VARIABLES
    shots,
    cap,       \* max_band, or None
    sheets,    \* [band, x0, y0, x1, y1, last]
    open,      \* band -> its open sheet
    frames,    \* frame -> the sheets it shows, by band
    drawn,     \* frames drawn, -1 while planning
    images,    \* the sheets stitched and held
    kept,      \* [key, of]: the frame held for the next ones
    fetched,   \* the tiles fetched, in order
    shown      \* what the last frame showed

vars == <<shots, cap, sheets, open, frames, drawn, images, kept, fetched, shown>>

Fine == 128
Planning == -1
World(band) == Base * 2^band
Lesser(a, b) == IF a < b THEN a ELSE b
Greater(a, b) == IF a < b THEN b ELSE a
Ceil(n, d) == -((-n) \div d)

\* band_weights: the bands of a shot, low to high; two levels capped into one
\* become one layer.
Capped(band) == IF cap = None THEN band ELSE Greater(0, Lesser(band, cap))
Bands(shot) ==
    LET low == Capped(shot.zoom)
        high == Capped(shot.zoom + 1)
    IN  IF shot.fading /\ high # low THEN <<low, high>> ELSE <<low>>

\* view_rect: a fading shot is close to the next level, so it sees little more
\* than half as much (nine sixteenths here).
Half(extent, shot, band) == (extent * (IF shot.fading THEN 9 ELSE 16) * 8 * 2^band) \div 2^shot.zoom
Centre(at, band) == (at * World(band) * Fine) \div Grid
ViewRect(shot, band) ==
    LET x == Centre(shot.x, band)
        y == Centre(shot.y, band)
    IN  [l |-> x - Half(Width, shot, band), t |-> y - Half(Height, shot, band),
         r |-> x + Half(Width, shot, band), b |-> y + Half(Height, shot, band)]

\* The pixels a shot needs: with a margin, at most one world wide and tall.
Needed(shot, band) ==
    LET v == ViewRect(shot, band)
        c == (v.l + v.r) \div 2
        w == World(band) * Fine
    IN  [x0 |-> Greater((c - w \div 2) \div Fine, v.l \div Fine - Margin),
         y0 |-> Greater(0, v.t \div Fine - Margin),
         x1 |-> Lesser(Ceil(c + w \div 2, Fine), Ceil(v.r, Fine) + Margin),
         y1 |-> Lesser(World(band), Ceil(v.b, Fine) + Margin)]

Union(s, q) == [x0 |-> Lesser(s.x0, q.x0), y0 |-> Lesser(s.y0, q.y0),
                x1 |-> Greater(s.x1, q.x1), y1 |-> Greater(s.y1, q.y1)]
Area(q) == (q.x1 - q.x0) * (q.y1 - q.y0)
MaxArea == SheetFrames * Width * Height
Sheet(band, q, n) == [band |-> band, x0 |-> q.x0, y0 |-> q.y0, x1 |-> q.x1, y1 |-> q.y1, last |-> n]

\* An open sheet grows over a frame's pixels unless its last frame lies too far
\* back or it would grow too large.
Joins(s, q, n) == n - s.last <= GapFrames /\ Area(Union(s, q)) <= MaxArea
GrownKeeps(s, q, n) == [s EXCEPT !.last = n]
Grown(s, q, n) == Sheet(s.band, Union(s, q), n)

\* One layer of frame n into the plan p.
Layer(p, band, n) ==
    LET q == Needed(shots[n], band)
        i == p.open[band]
    IN  IF i # None /\ Joins(p.sheets[i], q, n)
        THEN [p EXCEPT !.sheets[i] = Grown(@, q, n), !.refs = Append(@, i)]
        ELSE [open |-> [p.open EXCEPT ![band] = Len(p.sheets) + 1],
              sheets |-> Append(p.sheets, Sheet(band, q, n)),
              refs |-> Append(p.refs, Len(p.sheets) + 1)]

MaxBand == 1 + CHOOSE z \in {s.zoom : s \in Shots} : \A s \in Shots : s.zoom <= z
Closed == [band \in 0..MaxBand |-> None]

Init ==
    /\ shots \in SeqOf(Shots, MaxShots) \ {<<>>}
    /\ cap = None /\ sheets = <<>> /\ frames = <<>> /\ open = Closed
    /\ drawn = Planning /\ images = {} /\ kept = [key |-> None, of |-> 0]
    /\ fetched = <<>> /\ shown = None

PlanFrame ==
    /\ drawn = Planning /\ Len(frames) < Len(shots)
    /\ LET n == Len(frames) + 1
           p == FoldLeft(LAMBDA acc, band : Layer(acc, band, n),
                         [sheets |-> sheets, open |-> open, refs |-> <<>>], Bands(shots[n]))
       IN  sheets' = p.sheets /\ open' = p.open /\ frames' = Append(frames, p.refs)
    /\ UNCHANGED <<shots, cap, drawn, images, kept, fetched, shown>>
-----------------------------------------------------------------------------
\* Sheet.pieces: cut where the world wraps; offsets and extents in pixels.
PiecesUncut(s) == <<[offset |-> 0, from |-> s.x0, to |-> s.x1]>>
Pieces(s) ==
    LET w == World(s.band)
        piece(k) == [offset |-> Greater(s.x0, k * w) - s.x0, from |-> Greater(s.x0, k * w) - k * w,
                     to |-> Lesser(s.x1, (k + 1) * w) - k * w]
        first == s.x0 \div w
    IN  SelectSeq([j \in 1..Ceil(s.x1, w) - first |-> piece(first + j - 1)],
                  LAMBDA q : q.to > q.from)

\* tile_range_for_bounds of a piece, row by row.
TilesOf(q, s) ==
    LET last == 2^s.band - 1
        xs == (q.from \div Base)..Lesser((q.to - 1) \div Base, last)
        ys == (s.y0 \div Base)..Lesser((s.y1 - 1) \div Base, last)
        count == Cardinality(xs)
    IN  [j \in 1..count * Cardinality(ys) |->
            <<s.band, (q.from \div Base) + ((j - 1) % count), (s.y0 \div Base) + ((j - 1) \div count)>>]
Requests(s) == FlattenSeq([j \in DOMAIN Pieces(s) |-> TilesOf(Pieces(s)[j], s)])
AllTiles == FoldLeft(LAMBDA n, s : n + Len(Requests(s)), 0, sheets)
Top == CHOOSE b \in {s.band : s \in ToSet(sheets)} : \A s \in ToSet(sheets) : s.band <= b

\* plan_bands: replanned a band lower while it takes too many tiles.
PlanAgain ==
    /\ drawn = Planning /\ Len(frames) = Len(shots)
    /\ AllTiles > MaxTiles /\ Top > 0
    /\ cap' = Top - 1
    /\ sheets' = <<>> /\ frames' = <<>> /\ open' = Closed
    /\ UNCHANGED <<shots, drawn, images, kept, fetched, shown>>

PlanDone ==
    /\ drawn = Planning /\ Len(frames) = Len(shots)
    /\ AllTiles <= MaxTiles \/ Top = 0
    /\ drawn' = 0
    /\ UNCHANGED <<shots, cap, sheets, open, frames, images, kept, fetched, shown>>

\* plan_requests: the sheets in the order frames first show them.
InOrder == FoldLeft(LAMBDA out, i : IF i \in ToSet(out) THEN out ELSE Append(out, i), <<>>, FlattenSeq(frames))
PlanRequests == FlattenSeq([j \in DOMAIN InOrder |-> Requests(sheets[InOrder[j]])])

KeyPlace(n) == <<shots[n].x, shots[n].y>>
Key(n) == <<shots[n], frames[n]>>

DoneEarly(n) == {i \in DOMAIN sheets : sheets[i].last <= n + 1}
Done(n) == {i \in DOMAIN sheets : sheets[i].last <= n}

\* Basemaps.frame of the next frame: the kept image, or the layers from their
\* sheets, stitched when not held.
Draw ==
    /\ drawn \in 0..Len(shots) - 1
    /\ LET n == drawn + 1
           missing == SelectSeq(frames[n], LAMBDA i : i \notin images)
           held == images \cup ToSet(frames[n])
           again == n < Len(shots) /\ Key(n + 1) = Key(n)
       IN  /\ drawn' = n
           /\ IF Key(n) = kept.key
              THEN /\ shown' = kept.of /\ images' = images \ Done(n)
                   /\ UNCHANGED <<kept, fetched>>
              ELSE /\ shown' = n /\ images' = held \ Done(n)
                   /\ fetched' = fetched \o FlattenSeq([j \in DOMAIN missing |-> Requests(sheets[missing[j]])])
                   /\ kept' = IF again THEN [key |-> Key(n), of |-> n] ELSE [key |-> None, of |-> 0]
    /\ UNCHANGED <<shots, cap, sheets, open, frames>>

Next == PlanFrame \/ PlanAgain \/ PlanDone \/ Draw

Spec == Init /\ [][Next]_vars
-----------------------------------------------------------------------------
TypeOK ==
    /\ drawn \in Planning..Len(shots) /\ Len(frames) <= Len(shots)
    /\ \A i \in DOMAIN sheets : sheets[i].x0 < sheets[i].x1 /\ sheets[i].y0 < sheets[i].y1
    /\ images \subseteq DOMAIN sheets
    /\ \A b \in DOMAIN open : open[b] \in DOMAIN sheets \cup {None}

\* A frame finds every pixel of its view on its sheets, though a sheet grew and
\* was closed by other frames: cropping never leaves a black edge.
ViewCovered ==
    \A n \in DOMAIN frames : \A j \in DOMAIN frames[n] :
        LET s == sheets[frames[n][j]]
            v == ViewRect(shots[n], s.band)
            c == Centre(shots[n].x, s.band)
            w == World(s.band) * Fine
        IN  /\ s.x0 * Fine <= Greater(v.l, c - w \div 2) /\ Lesser(v.r, c + w \div 2) <= s.x1 * Fine
            /\ s.y0 * Fine <= Greater(v.t, 0) /\ Lesser(v.b, w) <= s.y1 * Fine

\* A sheet across the antimeridian is cut into pieces that lie in the world and
\* fill the sheet without gap or overlap, and no sheet exceeds the cap.
PiecesFill ==
    \A s \in ToSet(sheets) :
        LET p == Pieces(s)
        IN  /\ Area(s) <= MaxArea
            /\ \A j \in DOMAIN p : 0 <= p[j].from /\ p[j].to <= World(s.band)
            /\ \A j \in DOMAIN p :
                  p[j].offset + p[j].to - p[j].from
                      = IF j = Len(p) THEN s.x1 - s.x0 ELSE p[j + 1].offset
            /\ p[1].offset = 0

\* The frame loop asks for exactly the planned tiles in the planned order, each
\* sheet stitched once: what lets the prefetcher never miss.
FetchedAsPlanned == drawn # Planning => IsPrefix(fetched, PlanRequests)

\* A frame shows its own picture, drawn for it or kept from one like it.
ShownIsOwn == drawn > 0 => shots[shown] = shots[drawn] /\ frames[shown] = frames[drawn]
=============================================================================
