--------------------------- MODULE TrackElevation ---------------------------
(***************************************************************************)
(* What a recorded height profile is turned into.                          *)
(*                                                                         *)
(*   src/models/track_edit.py                                              *)
(*                                                                         *)
(* A stream grows a sample at a time and every operator is evaluated on    *)
(* each stream reached.  Heights are metres times Scale, a common multiple *)
(* of every divisor an instance can meet, so that no division rounds.      *)
(* sigma stands for the noise _noise_estimate measures, any value; heights *)
(* outside the plausible range, NaN and None are all Bad.                  *)
(***************************************************************************)
EXTENDS Integers, Sequences, SequencesExt, FiniteSets, FiniteSetsExt

CONSTANTS
    Gaps,        \* distances between two samples
    Heights,     \* plausible heights, in metres
    Grounds,     \* terrain under the track: sequences of metres
    Sigmas,      \* noise of a recording
    MaxSamples,  \* bound: samples of a stream
    MaxGlitches, \* bound: only the first few samples may lack a distance
    Scale,
    SpanMin, SpanMax,   \* ELEV_SMOOTH_SPAN_M, ELEV_SMOOTH_MAX_SPAN_M
    Thresholds,  \* heights _noise_threshold clamps to
    WindowM,     \* TERRAIN_WINDOW_M
    ReliefM,     \* TERRAIN_RELIEF_M
    MaxStride,   \* _NOISE_MAX_RUN_STRIDE
    Bad, None

VARIABLES
    stream,      \* samples as they arrived: [d, e]
    reach,       \* the distance of the last good sample
    ground, sigma, threshold

vars == <<stream, reach, ground, sigma, threshold>>

Init ==
    /\ stream = <<>> /\ reach = 0
    /\ ground \in Grounds /\ sigma \in Sigmas /\ threshold \in Thresholds

Heard == {h * Scale : h \in Heights} \cup {Bad}

Sample(gap, e) ==
    /\ Len(stream) < MaxSamples
    /\ stream = <<>> => gap = 0
    /\ reach' = reach + gap
    /\ stream' = Append(stream, [d |-> reach', e |-> e])
    /\ UNCHANGED <<ground, sigma, threshold>>

Glitch(e) ==
    /\ Len(stream) < MaxGlitches
    /\ stream' = Append(stream, [d |-> Bad, e |-> e])
    /\ UNCHANGED <<reach, ground, sigma, threshold>>

Next == \E e \in Heard : Glitch(e) \/ \E gap \in Gaps : Sample(gap, e)

Spec == Init /\ [][Next]_vars

-----------------------------------------------------------------------------
(* Gaps and repairs *)

Distances(p) == [i \in DOMAIN p |-> p[i].d]
Elevations(p) == [i \in DOMAIN p |-> p[i].e]

Before(known, i) == Max({k \in known : k < i})
After(known, i) == Min({k \in known : k > i})

Between(d, e, a, b, i) ==
    IF d[b] = d[a] THEN e[a] ELSE e[a] + ((d[i] - d[a]) * (e[b] - e[a])) \div (d[b] - d[a])

FilledFlat(d, e) == [i \in DOMAIN e |-> IF e[i] # Bad THEN e[i] ELSE 0]

\* interpolate_elevation_gaps, of a profile with a known height.
Filled(d, e) ==
    LET known == {i \in DOMAIN e : e[i] # Bad}
    IN  [i \in DOMAIN e |->
            IF i \in known THEN e[i]
            ELSE IF i < Min(known) THEN e[Min(known)]
            ELSE IF i > Max(known) THEN e[Max(known)]
            ELSE Between(d, e, Before(known, i), After(known, i), i)]

NoProfile == <<>>

\* clean_elevation_profile: an entry without a distance goes, with its height.
Clean(p) ==
    LET kept == SelectSeq(p, LAMBDA s : s.d # Bad)
    IN  IF Len(kept) < 2 \/ \A i \in DOMAIN kept : kept[i].e = Bad THEN NoProfile
        ELSE LET f == Filled(Distances(kept), Elevations(kept))
             IN  [i \in DOMAIN kept |-> [d |-> kept[i].d, e |-> f[i]]]

NeedsRepair(p) == \E i \in DOMAIN p : p[i].d = Bad \/ p[i].e = Bad

Profile == Clean(stream)

-----------------------------------------------------------------------------
(* The climb *)

\* _run_stride
RunLengths(e) ==
    LET starts == {i \in DOMAIN e : i = 1 \/ e[i] # e[i - 1]}
        Length(i) == Cardinality({j \in i..Len(e) : \A k \in i..j : e[k] = e[i]})
    IN  [i \in starts |-> IF Length(i) < MaxStride THEN Length(i) ELSE MaxStride]

Stride(e) ==
    LET runs == RunLengths(e)
        Seen(s) == Cardinality({i \in DOMAIN runs : runs[i] <= s})
    IN  Min({s \in 1..MaxStride : Seen(s) * 2 > Cardinality(DOMAIN runs)} \cup {MaxStride})

\* The span of the smoothing window: the median gap's, within its limits.
Span(d, stride) ==
    LET gaps == SortSeq([i \in 1..(Len(d) - 1) |-> d[i + 1] - d[i]], <)
        wanted == stride * sigma * sigma * gaps[Len(gaps) \div 2 + 1]
    IN  Max({SpanMin, Min({SpanMax, wanted})})

SlideBehind(d, span, w, i) ==
    LET hi == Min({k \in w.hi..Len(d) : k = Len(d) \/ 2 * (d[k + 1] - d[i]) >= span})
    IN  [lo |-> w.lo, hi |-> hi, out |-> Append(w.out, <<w.lo, hi>>)]

\* One step of _smooth_elevations: both ends of the window only move forward.
Slide(d, span, w, i) ==
    LET lo == Min({k \in w.lo..Len(d) : 2 * (d[i] - d[k]) <= span})
        hi == Min({k \in w.hi..Len(d) : k = Len(d) \/ 2 * (d[k + 1] - d[i]) > span})
    IN  [lo |-> lo, hi |-> hi, out |-> Append(w.out, <<lo, hi>>)]

Windows(d, span) ==
    LET after[i \in 0..Len(d)] ==
            IF i = 0 THEN [lo |-> 1, hi |-> 1, out |-> <<>>]
            ELSE LET w == after[i - 1] IN Slide(d, span, w, i)
    IN  after[Len(d)].out

Smoothed(d, e) ==
    IF Len(e) < 3 THEN e
    ELSE LET ws == Windows(d, Span(d, Stride(e)))
             prefix[i \in 0..Len(e)] == IF i = 0 THEN 0 ELSE prefix[i - 1] + e[i]
         IN  [i \in DOMAIN e |->
                (prefix[ws[i][2]] - prefix[ws[i][1] - 1]) \div (ws[i][2] - ws[i][1] + 1)]

ClimbForgets(acc, value) ==
    IF value - acc.ref >= threshold
    THEN [gain |-> acc.gain + value - acc.ref, ref |-> value]
    ELSE [acc EXCEPT !.ref = value]

\* The dead band of elevation_gain.
Climb(acc, value) ==
    IF value - acc.ref >= threshold
    THEN [gain |-> acc.gain + value - acc.ref, ref |-> value]
    ELSE IF acc.ref - value >= threshold THEN [acc EXCEPT !.ref = value]
    ELSE acc

Gain(d, e) ==
    IF Len(e) < 2 THEN 0
    ELSE LET s == Smoothed(d, e)
             upto[i \in 1..Len(s)] == IF i = 1 THEN [gain |-> 0, ref |-> s[1]]
                                      ELSE LET acc == upto[i - 1] IN Climb(acc, s[i])
         IN  upto[Len(s)].gain

\* repair_elevations, given what the activity's own numbers are.
Measured(p) ==
    IF p = NoProfile \/ NeedsRepair(p) THEN [gain |-> 0, high |-> None, low |-> None]
    ELSE [gain |-> Gain(Distances(p), Elevations(p)),
          high |-> Max(Range(Elevations(p))), low |-> Min(Range(Elevations(p)))]

RepairKeepsSums(p, was, app) ==
    [profile |-> IF NeedsRepair(p) THEN Clean(p) ELSE p, sums |-> was]

Repair(p, was, app) ==
    LET repaired == NeedsRepair(p)
        now == IF repaired THEN Clean(p) ELSE p
        seen == Measured(now)
        kept == IF repaired /\ app
                THEN [seen EXCEPT !.gain = IF was.gain = None THEN None ELSE @]
                ELSE was
    IN  [profile |-> now,
         sums |-> [f \in {"gain", "high", "low"} |-> IF kept[f] = Bad THEN seen[f] ELSE kept[f]]]

-----------------------------------------------------------------------------
(* Terrain *)

\* _terrain_windows: at least three steps each, sharing their end points.
WindowEnd(d, lo) ==
    LET hi == Min({k \in (lo + 1)..(Len(d) + 1) : k > Len(d) \/ d[k] >= d[lo] + WindowM})
    IN  Min({Len(d), Max({hi, lo + 3})})

NextWindowApart(d, lo) == WindowEnd(d, lo) + 1

NextWindow(d, lo) == WindowEnd(d, lo)
\* Every window of a profile: (first, last) pairs.
TerrainWindows(d) ==
    LET from[lo \in 1..(Len(d) + 1)] ==
            IF lo >= Len(d) THEN {} ELSE {<<lo, WindowEnd(d, lo)>>} \cup from[NextWindow(d, lo)]
    IN  from[1]

\* _relief_span: a short window is judged with the track behind it.
ReliefFrom(d, w) ==
    IF w[2] = w[1] \/ d[w[2]] - d[w[1]] >= WindowM THEN w[1]
    ELSE Max({1} \cup {k \in 1..w[1] : d[k] <= d[w[2]] - WindowM})

ReliefSpan(d, w) == ReliefFrom(d, w)..w[2]

Relief(S) == Max(S) - Min(S)

Flat(d, w) ==
    LET seen == ReliefSpan(d, w)
    IN  Cardinality(seen) >= 3 /\ Relief({ground[k] : k \in seen}) < ReliefM

\* terrain_corrected_gain: each step is taken from the ground where it is flat.
Corrected(d, e) ==
    LET windows == TerrainWindows(d)
        StepOf(i) == CHOOSE w \in windows : w[1] < i /\ i <= w[2]
        Delta(i) == IF Flat(d, StepOf(i)) THEN (ground[i] - ground[i - 1]) * Scale
                                          ELSE e[i] - e[i - 1]
        series[i \in DOMAIN e] == IF i = 1 THEN e[1] ELSE series[i - 1] + Delta(i)
    IN  IF Len(e) < 3 THEN e ELSE [i \in DOMAIN e |-> series[i]]

-----------------------------------------------------------------------------
(* Reading a profile back at the track's points *)

InterpElevAbove(x, d, e) ==
    LET i == Min({k \in DOMAIN d : d[k] > x} \cup {Len(d)}) IN e[i]

\* _interp_elev, bisecting for the first distance not below d.
InterpElev(x, d, e) ==
    IF x <= d[1] THEN e[1]
    ELSE IF x >= d[Len(d)] THEN e[Len(d)]
    ELSE LET i == Min({k \in DOMAIN d : d[k] >= x})
         IN  IF d[i] = d[i - 1] THEN e[i - 1]
             ELSE e[i - 1] + ((x - d[i - 1]) * (e[i] - e[i - 1])) \div (d[i] - d[i - 1])

-----------------------------------------------------------------------------
(* Properties *)

TypeOK ==
    /\ reach \in Nat /\ Len(stream) <= MaxSamples
    /\ \A i \in DOMAIN stream : stream[i].d \in 0..reach \cup {Bad} /\ stream[i].e \in Heard

\* A cleaned profile has a height everywhere; one that was missing lies between
\* the nearest known heights on either side (interpolate_elevation_gaps).
GapsLieBetween ==
    LET kept == SelectSeq(stream, LAMBDA s : s.d # Bad)
        known == {i \in DOMAIN kept : kept[i].e # Bad}
        p == Profile
    IN  p # NoProfile =>
            /\ Len(p) = Len(kept)
            /\ \A i \in DOMAIN kept :
                  LET near == {kept[k].e : k \in
                                 {j \in known : j <= i /\ \A m \in known : m <= i => m <= j} \cup
                                 {j \in known : j >= i /\ \A m \in known : m >= i => m >= j}}
                  IN  p[i].e >= Min(near) /\ p[i].e <= Max(near)

\* The two cursors of _smooth_elevations hold exactly the points within half a
\* span, and the stride is a median of the capped runs (_run_stride).
SmoothingIsCentred ==
    LET p == Profile
        d == Distances(p)
        stride == Stride(Elevations(p))
        span == Span(d, stride)
        ws == Windows(d, span)
        runs == RunLengths(Elevations(p))
    IN  Len(p) >= 3 =>
          /\ \A i, j \in DOMAIN d :
                (j \in ws[i][1]..ws[i][2])
                    <=> (2 * (d[j] - d[i]) <= span /\ 2 * (d[i] - d[j]) <= span)
          /\ Cardinality({i \in DOMAIN runs : runs[i] < stride}) * 2 <= Cardinality(DOMAIN runs)

\* The dead band never loses more than one threshold of the net climb and never
\* counts more than the smoothed profile rises (elevation_gain).
NetClimbKept ==
    LET p == Profile
        d == Distances(p)
        s == Smoothed(d, Elevations(p))
        rise[i \in 1..Len(s)] ==
            IF i = 1 THEN 0 ELSE rise[i - 1] + Max({0, s[i] - s[i - 1]})
        gain == Gain(d, Elevations(p))
    IN  p # NoProfile =>
            /\ gain > s[Len(s)] - s[1] - threshold
            /\ gain <= rise[Len(s)]

\* The terrain windows hold every step of the track exactly once, so the
\* corrected series counts none twice; a window is judged on a whole window's
\* length of track wherever that much lies behind its end.
WindowsTile ==
    LET p == Profile
        d == Distances(p)
        windows == TerrainWindows(d)
    IN  Len(p) >= 3 =>
            /\ \A i \in 2..Len(d) : Cardinality({w \in windows : w[1] < i /\ i <= w[2]}) = 1
            /\ \A w \in windows :
                  ReliefFrom(d, w) = 1 \/ d[w[2]] - d[ReliefFrom(d, w)] >= WindowM
            /\ (\A w \in windows : ~Flat(d, w)) => Corrected(d, Elevations(p)) = Elevations(p)
            /\ (\A w \in windows : Flat(d, w)) =>
                  \A i \in DOMAIN p :
                     Corrected(d, Elevations(p))[i] - p[1].e = (ground[i] - ground[1]) * Scale

\* After a repair nothing of the activity's heights needs one, and a second
\* repair changes nothing (repair_elevations).
RepairSettles ==
    \A was \in {[gain |-> g, high |-> Bad, low |-> None] : g \in {None, Bad}}, app \in BOOLEAN :
        LET r == Repair(stream, was, app)
        IN  /\ ~NeedsRepair(r.profile)
            /\ \A f \in DOMAIN r.sums : r.sums[f] # Bad
            /\ Repair(r.profile, r.sums, app) = r

\* A point whose distance no other point shares is given back its own height
\* (points_to_elevation_profile, then align_points).
RoundTrip ==
    LET p == Profile
        d == Distances(p)
        e == Elevations(p)
    IN  \A i \in DOMAIN d :
            (\A j \in DOMAIN d \ {i} : d[j] # d[i]) => InterpElev(d[i], d, e) = e[i]
=============================================================================
