----------------------------- MODULE VideoStory -----------------------------
(***************************************************************************)
(* How a trip becomes the timeline of its video.                           *)
(*                                                                         *)
(*   src/video/legs.py       items to legs, dates filled in                *)
(*   src/video/pacing.py     legs to clips, the cheapest neighbours joined *)
(*   src/video/timeline.py   clips to the leg shown at an instant          *)
(*                                                                         *)
(* Times are whole units.  A leg's weight is the root of its real time,    *)
(* from a table.  SqrtBudgetPolicy shares the budget out by weight; here   *)
(* any shares with its floor and its sum may be handed out.                *)
(***************************************************************************)
EXTENDS Integers, Sequences, SequencesExt, FiniteSets, FiniteSetsExt

CONSTANTS
    Drawn,      \* legs a trip may hold: [mode, real]
    Dates,      \* days, or None
    MaxItems,   \* bound: items of a trip
    Totals,     \* lengths a video may have
    TitleS, EndS, MinClip,  \* TITLE_S, END_S, MIN_CLIP_S
    Share,      \* bound: clips last a multiple of this
    EaseS,      \* EASE_S
    TwoFrames,  \* a leg shorter than this is shown at once
    Roots,      \* Roots[r + 1]: the root of r, scaled
    None

VARIABLES
    items,      \* the trip: legs, or None for what cannot be drawn
    total,      \* the length asked for
    phase,      \* "trip", "group", "timed" or "refused"
    legs,       \* legs with their dates filled in
    members,    \* the legs of each group, by index
    nxt, prev,  \* the groups' neighbours, 0 at an end
    stamp, alive,
    heap,       \* pairs offered for joining: <<cost, index, a, sa, b, sb>>
    lasts       \* how long each clip lasts

vars == <<items, total, phase, legs, members, nxt, prev, stamp, alive, heap, lasts>>

Init ==
    /\ items = <<>> /\ total \in Totals /\ phase = "trip"
    /\ legs = <<>> /\ members = <<>> /\ nxt = <<>> /\ prev = <<>>
    /\ stamp = <<>> /\ alive = <<>> /\ heap = {} /\ lasts = <<>>

AddItem(leg, date) ==
    /\ phase = "trip" /\ Len(items) < MaxItems
    /\ items' = Append(items, IF leg = None THEN None
                              ELSE [mode |-> leg.mode, real |-> leg.real, date |-> date])
    /\ UNCHANGED <<total, phase, legs, members, nxt, prev, stamp, alive, heap, lasts>>

-----------------------------------------------------------------------------
(* Legs *)

Dated(s, S) == {i \in S : s[i].date # None}

FillForward(s) ==
    [i \in DOMAIN s |->
        [s[i] EXCEPT !.date = IF Dated(s, 1..i) = {} THEN None ELSE s[Max(Dated(s, 1..i))].date]]

FillDatesForward(s) == FillForward(s)

\* _fill_dates: from the leg before, and at the start from the leg after.
FillDates(s) ==
    LET fwd == FillForward(s)
    IN  [i \in DOMAIN s |->
            [fwd[i] EXCEPT !.date =
                IF Dated(fwd, i..Len(s)) = {} THEN None ELSE fwd[Min(Dated(fwd, i..Len(s)))].date]]

\* build_legs: what cannot be drawn is skipped.
BuildLegs(its) == FillDates(SelectSeq(its, LAMBDA x : x # None))

-----------------------------------------------------------------------------
(* Clips *)

\* merge_same_day
SameDay(ls) ==
    LET upto[i \in 0..Len(ls)] ==
            IF i = 0 THEN <<>>
            ELSE IF i > 1 /\ ls[i - 1].mode = ls[i].mode /\ ls[i - 1].date = ls[i].date
            THEN [upto[i - 1] EXCEPT ![Len(upto[i - 1])] = Append(@, i)]
            ELSE Append(upto[i - 1], <<i>>)
    IN  upto[Len(ls)]

RealOf(group) == FoldLeft(LAMBDA a, i : a + legs[i].real, 0, group)
InMode(group, mode) == RealOf(SelectSeq(group, LAMBDA i : legs[i].mode = mode))

\* _dominant: the mode most time is spent in, the first of several.
ModeOf(group) ==
    LET best == CHOOSE k \in DOMAIN group :
            \A j \in DOMAIN group :
                LET mine == InMode(group, legs[group[k]].mode)
                    other == InMode(group, legs[group[j]].mode)
                IN  other <= mine /\ (j < k => other < mine \/ legs[group[j]].mode = legs[group[k]].mode)
    IN  legs[group[best]].mode

\* clip_weight, twice over: a flight counts half.
Weight(group) == Roots[RealOf(group) + 1] * (IF ModeOf(group) = "flight" THEN 1 ELSE 2)

\* What joining two neighbours costs, twice over: half where the modes agree.
Cost(ms, a, b) ==
    LET c == Weight(ms[a]) + Weight(ms[b])
    IN  IF ModeOf(ms[a]) = ModeOf(ms[b]) THEN c ELSE 2 * c

Offer(ms, st, a, b) == <<Cost(ms, a, b), ms[a][1], a, st[a], b, st[b]>>

Target == (total - TitleS - EndS) \div MinClip
Live == {i \in DOMAIN members : alive[i]}

\* build_timeline, and the first part of group_clips.
Build ==
    /\ phase = "trip"
    /\ legs' = BuildLegs(items)
    /\ phase' = IF legs' = <<>> \/ Target < 1 THEN "refused" ELSE "group"
    /\ IF phase' = "refused"
       THEN UNCHANGED <<members, nxt, prev, stamp, alive>>
       ELSE LET ms == SameDay(legs')
            IN  /\ members' = ms
                /\ nxt' = [i \in DOMAIN ms |-> IF i = Len(ms) THEN 0 ELSE i + 1]
                /\ prev' = [i \in DOMAIN ms |-> i - 1]
                /\ stamp' = [i \in DOMAIN ms |-> 0]
                /\ alive' = [i \in DOMAIN ms |-> TRUE]
    /\ heap' = {}
    /\ UNCHANGED <<items, total, lasts>>

\* The heap is built once, of every pair of neighbours.
Heapify ==
    /\ phase = "group" /\ heap = {} /\ Cardinality(Live) > Target
    /\ heap' = {Offer(members, stamp, a, a + 1) : a \in 1..(Len(members) - 1)}
    /\ UNCHANGED <<items, total, phase, legs, members, nxt, prev, stamp, alive, lasts>>

Before(x, y) ==
    \E k \in 1..6 : x[k] < y[k] /\ \A m \in 1..(k - 1) : x[m] = y[m]
Cheapest == CHOOSE x \in heap : \A y \in heap \ {x} : Before(x, y)

FreshIgnoringStamps(x) == alive[x[3]] /\ alive[x[5]] /\ nxt[x[3]] = x[5]

Fresh(x) ==
    /\ alive[x[3]] /\ alive[x[5]]
    /\ stamp[x[3]] = x[4] /\ stamp[x[5]] = x[6] /\ nxt[x[3]] = x[5]

OffersNextOnly(ms, st, nx, pv, a) ==
    IF nx[a] = 0 THEN {} ELSE {Offer(ms, st, a, nx[a])}

\* A joined group is offered again to both its neighbours.
Offers(ms, st, nx, pv, a) ==
    (IF pv[a] = 0 THEN {} ELSE {Offer(ms, st, pv[a], a)}) \cup
    (IF nx[a] = 0 THEN {} ELSE {Offer(ms, st, a, nx[a])})

JoinUnlinked(a, b) == nxt

\* The group after a joined pair.
Linked(a, b) == [nxt EXCEPT ![a] = nxt[b]]

\* One turn of group_clips.
Join ==
    /\ phase = "group" /\ Cardinality(Live) > Target /\ heap # {}
    /\ LET x == Cheapest
           a == x[3]
           b == x[5]
       IN  IF ~Fresh(x)
           THEN heap' = heap \ {x} /\ UNCHANGED <<members, nxt, prev, stamp, alive>>
           ELSE /\ members' = [members EXCEPT ![a] = @ \o members[b]]
                /\ stamp' = [stamp EXCEPT ![a] = @ + 1]
                /\ alive' = [alive EXCEPT ![b] = FALSE]
                /\ nxt' = Linked(a, b)
                /\ prev' = IF nxt[b] = 0 THEN prev ELSE [prev EXCEPT ![nxt[b]] = a]
                /\ heap' = (heap \ {x}) \cup Offers(members', stamp', nxt', prev', a)
    /\ UNCHANGED <<items, total, phase, legs, lasts>>

Clips ==
    LET from[i \in 0..Len(members)] ==
            IF i = 0 THEN <<>> ELSE <<members[i]>> \o from[nxt[i]]
    IN  from[1]

Sum(s) == FoldLeft(+, 0, s)
Budget == total - TitleS - EndS
Allocations(n) ==
    {d \in [1..n -> {Share * k : k \in 1..(Budget \div Share)}] :
        Sum(d) = Budget /\ \A i \in 1..n : d[i] >= MinClip}

Allocate ==
    /\ phase = "group" /\ Cardinality(Live) <= Target
    /\ lasts' \in Allocations(Len(Clips))
    /\ phase' = "timed"
    /\ UNCHANGED <<items, total, legs, members, nxt, prev, stamp, alive, heap>>

Next ==
    \/ \E leg \in Drawn \cup {None}, date \in Dates : AddItem(leg, date)
    \/ Build \/ Heapify \/ Join \/ Allocate

Spec == Init /\ [][Next]_vars

-----------------------------------------------------------------------------
(* The timeline *)

StartOf(c) == TitleS + Sum(SubSeq(lasts, 1, c - 1))

EasedUnclosed(u, d) ==
    LET e == Min({EaseS, d \div 5}) IN <<d * (2 * u + e), 2 * (d - e)>>

\* ease_clock, as a fraction of two whole numbers.
Eased(u, d) ==
    LET e == Min({EaseS, d \div 5})
        Ramp(x) == d * (2 * x * x * x * e - x * x * x * x)
        den == 2 * e * e * e * (d - e)
    IN  IF u < e THEN <<Ramp(u), den>>
        ELSE IF u > d - e THEN <<d * den - Ramp(d - u), den>>
        ELSE <<d * (2 * u - e) * e * e * e, den>>

\* _time_subs: the weights the legs of a clip share its time by.
SubShares(clip) ==
    LET w == [i \in DOMAIN clip |-> Roots[legs[clip[i]].real + 1]]
    IN  IF Sum(w) = 0 THEN [i \in DOMAIN clip |-> 1] ELSE w

FullySpent(w, i) == Sum(SubSeq(w, 1, i))

Instant(d, w, i) == d * w[i] < TwoFrames * Sum(w)

\* Timeline.sample: the leg shown, and how much of it, as a fraction.
Shown(t) ==
    IF t < TitleS THEN <<1, 0, 1>>
    ELSE IF t >= total - EndS THEN <<Len(legs), 1, 1>>
    ELSE LET cs == Clips
             c == Max({k \in DOMAIN cs : StartOf(k) <= t})
             d == lasts[c]
             now == Eased(t - StartOf(c), d)
             w == SubShares(cs[c])
             EndOf(i) == d * FullySpent(w, i)
             past == {i \in DOMAIN w : EndOf(i) * now[2] <= now[1] * Sum(w)}
             i == Min({Cardinality(past) + 1, Len(w)})
         IN  IF Instant(d, w, i) THEN <<cs[c][i], 1, 1>>
             ELSE <<cs[c][i], now[1] * Sum(w) - EndOf(i - 1) * now[2], d * w[i] * now[2]>>

-----------------------------------------------------------------------------
(* Properties *)

TypeOK ==
    /\ phase \in {"trip", "group", "timed", "refused"} /\ total \in Totals
    /\ \A i \in DOMAIN members : nxt[i] \in 0..Len(members) /\ prev[i] \in 0..Len(members)

\* However the groups were joined, the clips hold every leg once and in the
\* trip's order, and no more of them than the video has room for (group_clips).
LegsInOrder ==
    phase \in {"group", "timed"} =>
        /\ FlattenSeq(Clips) = [i \in DOMAIN legs |-> i]
        /\ Cardinality(Live) = Len(Clips)
        /\ phase = "timed" => Len(Clips) <= Target

\* Every pair of neighbours is on the heap at its present cost, so that the turn
\* which joins the cheapest offer joins the cheapest pair (group_clips).
HeapCurrent ==
    phase = "group" /\ heap # {} =>
        \A a \in Live : nxt[a] # 0 => Offer(members, stamp, a, nxt[a]) \in heap

\* Offers that went stale are never taken up: what a turn joins are neighbours
\* at the cost they have now.
JoinsCheapest ==
    \A a \in Live : members'[a] # members[a] =>
       \A c \in Live : nxt[c] # 0 => Cost(members, a, nxt[a]) <= Cost(members, c, nxt[c])
JoinsAtCost == [][JoinsCheapest]_vars

\* Once one leg of a trip is dated every leg is, with the date of a neighbour
\* (_fill_dates).
DatesFilled ==
    LET drawn == SelectSeq(items, LAMBDA x : x # None)
    IN  legs # <<>> /\ (\E i \in DOMAIN drawn : drawn[i].date # None) =>
            \A i \in DOMAIN legs :
                /\ legs[i].date # None
                /\ drawn[i].date # None => legs[i].date = drawn[i].date
                /\ \E j \in DOMAIN drawn : drawn[j].date = legs[i].date

\* Fractions of one leg have one denominator, or are whole.
NoMore(x, y) == IF x[3] = y[3] THEN x[2] <= y[2] ELSE x[2] * y[3] <= y[2] * x[3]

\* The film never runs backwards: from one instant to the next the leg shown, and
\* how much of it, only grows, from the start of the first to the end of the last.
NeverBackwards ==
    phase = "timed" =>
        \A t \in 0..(total - 1) :
            LET x == Shown(t)
                y == Shown(t + 1)
            IN  /\ 0 <= x[2] /\ x[2] <= x[3]
                /\ x[1] < y[1] \/ (x[1] = y[1] /\ NoMore(x, y))
=============================================================================
