----------------------------- MODULE CardLayout -----------------------------
(***************************************************************************)
(* What fits on a memory card of a poster, top to bottom.                  *)
(*                                                                         *)
(*   src/poster/card_layout.py                                             *)
(*                                                                         *)
(* A cursor moves down the card; each block that the card has draws what   *)
(* still fits above the limit.  Text is a number of lines, a statistics    *)
(* row is wide or narrow, pictures are a number of squares.  Lengths are   *)
(* whole pixels.                                                           *)
(***************************************************************************)
EXTENDS Integers, Sequences, FiniteSets, FiniteSetsExt

CONSTANTS
    Pad, Inner, MaxHeight,   \* padding, inner width, CARD_MAX_HEIGHT_MM
    MinLine,     \* the line height of MIN_HEIGHT_ROLE
    HeroHeight,  \* the height of the first picture
    Gap,         \* RULE_GAP_MM
    PhotoGap,    \* PHOTO_GAP_MM
    Columns,     \* PHOTO_GRID_COLUMNS
    LineHeights, \* heights a line of text may have
    After,       \* the space after a block
    MaxLines,    \* bound: lines of a block
    MaxPhotos    \* bound: pictures of a card

VARIABLES
    stage,   \* the block to come
    y,       \* the cursor
    drawn,   \* what was drawn: [top, bottom, row]
    height   \* the card's height, 0 while it is laid out

vars == <<stage, y, drawn, height>>

Limit == MaxHeight - Pad
Stages == <<"hero", "text", "stats", "rows", "photos", "done">>
After1(s) == Stages[(CHOOSE i \in DOMAIN Stages : Stages[i] = s) + 1]

Init == stage = "hero" /\ y = Pad /\ drawn = {} /\ height = 0

FitsAlways(at, h) == at <= Limit

Fits(at, h) == at + h <= Limit

Skip ==
    /\ stage # "done" /\ stage' = After1(stage)
    /\ UNCHANGED <<y, drawn, height>>

\* The first picture, the width of the card.
Hero ==
    /\ stage = "hero" /\ stage' = "text"
    /\ drawn' = {[top |-> y, bottom |-> y + HeroHeight, row |-> 0]}
    /\ y' = y + HeroHeight + Gap
    /\ UNCHANGED height

\* How many of n lines of a height fit below the cursor.
Lines(at, h, n) == Max({k \in 0..n : k = 0 \/ Fits(at + (k - 1) * h, h)})

Stack(at, h, n) == {[top |-> at + (k - 1) * h, bottom |-> at + k * h, row |-> 0] : k \in 1..n}

\* _text_block: badge, name, date and description, in turn.
Text(h, n) ==
    /\ stage = "text"
    /\ LET k == Lines(y, h, n)
       IN  drawn' = drawn \cup Stack(y, h, k) /\ y' = y + k * h + After
    /\ UNCHANGED <<stage, height>>

\* _stat_block: a rule, then label over value, side by side or stacked.
Stats(wide, label, value, n) ==
    /\ stage = "stats" /\ stage' = "rows"
    /\ IF ~Fits(y, Gap + label + value) THEN UNCHANGED <<y, drawn>>
       ELSE LET k == IF wide THEN 1 ELSE Lines(y + Gap, label + value, n)
            IN  /\ drawn' = drawn \cup Stack(y + Gap, label + value, k)
                /\ y' = y + Gap + k * (label + value) + After
    /\ UNCHANGED height

\* _rows_block: counters, and shares by tag.
Rows(h, n) ==
    /\ stage = "rows"
    /\ LET k == Lines(y, h, n)
       IN  drawn' = drawn \cup Stack(y, h, k) /\ y' = y + k * h + After
    /\ UNCHANGED <<stage, height>>

Cell == (Inner - PhotoGap * (Columns - 1)) \div Columns
TopOf(i) == y + ((i - 1) \div Columns) * (Cell + PhotoGap)

RowsUsed(k) == (k + Columns - 1) \div Columns

\* _photo_grid: whole squares only, as many as fit.
Photos(n) ==
    /\ stage = "photos" /\ stage' = "done"
    /\ LET k == Max({i \in 0..n : i = 0 \/ Fits(TopOf(i), Cell)})
       IN  /\ drawn' = drawn \cup {[top |-> TopOf(i), bottom |-> TopOf(i) + Cell,
                                     row |-> (i - 1) \div Columns] : i \in 1..k}
           /\ y' = IF k = 0 THEN y ELSE y + RowsUsed(k) * (Cell + PhotoGap)
    /\ UNCHANGED height

Finish ==
    /\ stage = "done" /\ height = 0
    /\ height' = Min({Max({y + Pad, 2 * Pad + MinLine}), MaxHeight})
    /\ UNCHANGED <<stage, y, drawn>>

\* Bound: a stage of text or rows ends once the cursor has passed the limit.
Next ==
    \/ Skip \/ Hero \/ Finish
    \/ y <= Limit /\ \E h \in LineHeights, n \in 1..MaxLines : Text(h, n) \/ Rows(h, n)
    \/ \E wide \in BOOLEAN, l, v \in LineHeights, n \in 1..MaxLines : Stats(wide, l, v, n)
    \/ \E n \in 1..MaxPhotos : Photos(n)

Spec == Init /\ [][Next]_vars

-----------------------------------------------------------------------------
(* Properties *)

TypeOK == y >= Pad /\ height \in 0..MaxHeight /\ stage \in {Stages[i] : i \in DOMAIN Stages}

\* Whatever the blocks, nothing is drawn past the padding of the finished card, and
\* two lines, or two rows of pictures, never share pixels (layout_card).
DrawnInside ==
    /\ \A d \in drawn : d.bottom <= y /\ (height > 0 => d.top >= Pad /\ d.bottom <= height - Pad)
    /\ \A d, e \in drawn : d # e => d.bottom <= e.top \/ e.bottom <= d.top
=============================================================================
