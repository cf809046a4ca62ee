--------------------------- MODULE CardPlacement ---------------------------
(***************************************************************************)
(* Where a poster's memory cards go.                                       *)
(*                                                                         *)
(*   src/poster/card_placement.py        near their pins                   *)
(*   src/poster/perimeter_placement.py   around the edge of the sheet      *)
(*                                                                         *)
(* Cards are placed one by one among obstacles and earlier cards.  Lengths *)
(* are whole pixels and the directions of the spiral a few offsets.  What  *)
(* _score says of a candidate besides its radius (route, leaders, pins) is *)
(* chosen: a candidate is clear, or pays a penalty above every radius.     *)
(***************************************************************************)
EXTENDS Integers, Sequences, SequencesExt, FiniteSets, FiniteSetsExt

CONSTANTS
    Width, Height, Margin, Gutter,
    Obstacles,   \* sets of rectangles a poster may start from
    Sizes,       \* sizes of cards: <<w, h>>
    Pins,        \* places of pins: <<x, y>>
    Directions,  \* _DIRECTIONS, as offsets per unit of radius
    Radii,       \* the radii tried, in order
    Step,        \* bound: pins lie at multiples of this along the track
    MaxCards,    \* bound: cards of a poster
    None

VARIABLES
    style,    \* "near" or "perimeter"
    placed,   \* rectangles taken, obstacles first: <<left, top, right, bottom>>
    cursor,   \* where the next card on the track may begin
    natural,  \* the pin's own place on the track
    last      \* the outcome of the last card: [start, size, got, pin]

vars == <<style, placed, cursor, natural, last>>

Init ==
    /\ style \in {"near", "perimeter"}
    /\ \E o \in Obstacles : placed = SetToSeq(o)
    /\ cursor = 0 /\ natural = 0 /\ last = None

-----------------------------------------------------------------------------
(* Rectangles *)

Overlaps(a, b, m) ==
    ~(a[3] + m <= b[1] \/ a[1] - m >= b[3] \/ a[4] + m <= b[2] \/ a[2] - m >= b[4])

Within(r) == r[1] >= Margin /\ r[2] >= Margin /\ r[3] <= Width - Margin /\ r[4] <= Height - Margin

BlockersOfLast(r) == {i \in {Len(placed)} \ {0} : Overlaps(r, placed[i], Gutter)}

Blockers(r) == {i \in DOMAIN placed : Overlaps(r, placed[i], Gutter)}
Free(r) == Within(r) /\ Blockers(r) = {}

-----------------------------------------------------------------------------
(* The track around the sheet: left, bottom, right, top *)

SpanX == Width - 2 * Margin
SpanY == Height - 2 * Margin
Lengths == <<SpanY, SpanX, SpanY, SpanX>>
Length == 2 * (SpanX + SpanY)
Begins == <<0, SpanY, SpanY + SpanX, 2 * SpanY + SpanX>>

Segment(p) == Max({k \in 1..4 : Begins[k] <= p % Length})
OffsetAt(p) == (p % Length) - Begins[Segment(p)]
SegmentEnd(p) == p + Lengths[Segment(p)] - OffsetAt(p)

Extent(p, size) == IF Segment(p) \in {1, 3} THEN size[2] ELSE size[1]

\* rect_at: the card that begins at p, against its edge.
RectAt(p, size) ==
    LET o == OffsetAt(p)
        right == Width - Margin
        bottom == Height - Margin
    IN  CASE Segment(p) = 1 -> <<Margin, Margin + o, Margin + size[1], Margin + o + size[2]>>
          [] Segment(p) = 2 -> <<Margin + o, bottom - size[2], Margin + o + size[1], bottom>>
          [] Segment(p) = 3 -> <<right - size[1], bottom - o - size[2], right, bottom - o>>
          [] Segment(p) = 4 -> <<right - o - size[1], Margin, right - o, Margin + size[2]>>

Fits(p, size) ==
    /\ OffsetAt(p) + Extent(p, size) <= Lengths[Segment(p)]
    /\ Within(RectAt(p, size))

\* advance_past: just beyond the blocker, along the same edge.
AdvancePast(p, b) ==
    LET needed == CASE Segment(p) = 1 -> b[4] + Gutter - Margin
                    [] Segment(p) = 2 -> b[3] + Gutter - Margin
                    [] Segment(p) = 3 -> Height - Margin + Gutter - b[2]
                    [] Segment(p) = 4 -> Width - Margin + Gutter - b[1]
    IN  p - OffsetAt(p) + needed

AdvanceToEdge(p, b) == SegmentEnd(p)

\* A nudge that gains nothing moves on to the next edge.
Advance(p, b) == LET to == AdvancePast(p, b) IN IF to > p THEN to ELSE SegmentEnd(p)

\* _find_slot: once around the track at most.
FindSlot(start, size) ==
    LET limit == start + Length
        from[p \in start..(limit + Length)] ==
            IF p >= limit THEN None
            ELSE IF ~Fits(p, size) THEN from[SegmentEnd(p)]
            ELSE IF Blockers(RectAt(p, size)) = {} THEN p
            ELSE from[Advance(p, placed[Min(Blockers(RectAt(p, size)))])]
    IN  from[start]

CursorStays(end) == cursor

CursorAt(end) == end + Gutter

\* place_cards_perimeter: the pins in the order they lie around the sheet.
PlaceOnTrack(at, size) ==
    /\ style = "perimeter" /\ at >= natural /\ Len(placed) < MaxCards
    /\ LET start == Max({at, cursor})
           p == FindSlot(start, size)
       IN  /\ last' = [start |-> start, size |-> size, got |-> p, pin |-> None]
           /\ placed' = IF p = None THEN placed ELSE Append(placed, RectAt(p, size))
           /\ cursor' = IF p = None THEN cursor ELSE CursorAt(p + Extent(p, size))
    /\ natural' = at /\ UNCHANGED style

-----------------------------------------------------------------------------
(* Near the pin *)

\* _candidate_rect
Candidate(pin, size, radius, k) ==
    LET left == pin[1] + Directions[k][1] * radius - size[1] \div 2
        top == pin[2] + Directions[k][2] * radius - size[2] \div 2
    IN  <<left, top, left + size[1], top + size[2]>>

FreeAt(pin, size, radius) == {k \in DOMAIN Directions : Free(Candidate(pin, size, radius, k))}

\* place_cards: the first clear candidate of the nearest radius that has one; where
\* none is clear, the one that pays least.
PlaceNear(pin, size) ==
    /\ style = "near" /\ Len(placed) < MaxCards
    /\ \E clear \in SUBSET DOMAIN Directions :
          LET Clear(r) == clear \cap FreeAt(pin, size, Radii[r])
              rs == {r \in DOMAIN Radii : Clear(r) # {}}
              all == {Candidate(pin, size, Radii[r], k) :
                         r \in DOMAIN Radii, k \in DOMAIN Directions}
          IN  \E got \in IF rs # {} THEN {Candidate(pin, size, Radii[Min(rs)], Min(Clear(Min(rs))))}
                         ELSE IF \E c \in all : Free(c) THEN {c \in all : Free(c)} ELSE {None} :
                  /\ placed' = IF got = None THEN placed ELSE Append(placed, got)
                  /\ last' = [start |-> None, size |-> size, got |-> got, pin |-> pin]
    /\ UNCHANGED <<style, cursor, natural>>

Next ==
    \/ \E at \in {Step * k : k \in 0..((Length - 1) \div Step)}, size \in Sizes : PlaceOnTrack(at, size)
    \/ \E pin \in Pins, size \in Sizes : PlaceNear(pin, size)

Spec == Init /\ [][Next]_vars

-----------------------------------------------------------------------------
(* Properties *)

TypeOK == style \in {"near", "perimeter"} /\ cursor \in Nat /\ natural \in 0..Length

\* No card covers another, or an obstacle, or comes nearer than the gutter, and
\* every card lies within the sheet's margin (place_cards, place_cards_perimeter).
CardsApart ==
    \A j \in DOMAIN placed :
        (\E o \in Obstacles : placed[j] \in o)
        \/ /\ Within(placed[j])
           /\ \A i \in 1..(j - 1) : ~Overlaps(placed[j], placed[i], Gutter)

\* A card is left out, or sent on along the track, only where no place before it is
\* free: stepping past blockers misses none (_find_slot).
MissesNoSlot ==
    style = "perimeter" /\ last' # None =>
       LET x == last'
           till == IF x.got = None THEN x.start + Length - 1 ELSE x.got - 1
       IN  \A p \in x.start..till :
               ~Fits(p, x.size) \/ Blockers(RectAt(p, x.size)) # {}
NoSlotMissed == [][MissesNoSlot]_vars

\* Cards keep the order of their pins around the sheet: each begins a gutter or
\* more after the one before it ended, also once the track has been gone around.
FollowsPins ==
    style = "perimeter" /\ placed' # placed /\ last # None =>
       (last.got # None => last'.got >= last.got + Extent(last.got, last.size) + Gutter)
InPinOrder == [][FollowsPins]_vars
=============================================================================
