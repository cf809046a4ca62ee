----------------------------- MODULE TileStitch -----------------------------
(***************************************************************************)
(* Stitching a basemap from tiles fetched one at a time.                   *)
(*                                                                         *)
(*   src/poster/tile_stitcher.py   zoom_for_target_size, tile_range_for_   *)
(*                                 bounds, render_basemap, MapboxTileClient *)
(*                                                                         *)
(* One row of the map is modelled; columns and rows are treated alike.     *)
(* Bounds are in Grid-ths of the world, times in units of half a second.   *)
(* The tile server is external: it answers, fails, or refuses while a rate *)
(* limit window of its own runs.                                           *)
(***************************************************************************)
EXTENDS Integers, FiniteSets, FiniteSetsExt

CONSTANTS
    Grid,        \* the world's width, a multiple of which a tile row measures
    TileSize,
    MaxZoom,
    Targets,     \* output widths
    Deadlines,   \* instants, None for no deadline
    Durations,   \* how long a request may take
    Timeout, Retries, MinRequest,
    LimitBudget, MinSleep, MaxSleep, ResetMargin,
    Windows,     \* bound: how long a rate limit window may still run
    MaxWindows,  \* bound: windows
    PasteTime,
    None

VARIABLES
    job,      \* [west, east, target, deadline]
    next,     \* the tile to fetch
    try,      \* [attempt, limited, waited] of this tile
    clock,
    server,   \* [reset, style, windows]: when its limit ends, what its 429 says
    canvas,   \* pixel -> the tile painted there
    outcome,
    told      \* history: [sent, reset] of this tile's first window and last request

vars == <<job, next, try, clock, server, canvas, outcome, told>>

World(z) == TileSize * 2^z
Px(at, z) == (at * World(z)) \div Grid
Smaller(a, b) == IF a < b THEN a ELSE b
Larger(a, b) == IF a < b THEN b ELSE a
Clamp(n, lo, hi) == Larger(lo, Smaller(n, hi))

\* zoom_for_target_size: the first zoom that is wide enough, or the last.
Zoom ==
    LET wide == {z \in 0..MaxZoom : Px(job.east, z) - Px(job.west, z) >= job.target}
    IN  IF wide = {} THEN MaxZoom ELSE Min(wide)

\* tile_range_for_bounds
FirstTile == Clamp(Px(job.west, Zoom) \div TileSize, 0, 2^Zoom - 1)
LastTile == Clamp((Px(job.east, Zoom) - 1) \div TileSize, 0, 2^Zoom - 1)
CropLeft == Px(job.west, Zoom) - FirstTile * TileSize
CropWidth == Px(job.east, Zoom) - Px(job.west, Zoom)

\* Python's round of n / d: to the nearest, a half to the even neighbour.
Round(n, d) ==
    LET q == (2 * n + d) \div (2 * d)
    IN  IF (2 * n + d) % (2 * d) = 0 /\ q % 2 = 1 THEN q - 1 ELSE q

Fresh == [attempt |-> 0, limited |-> 0, waited |-> 0]

Init ==
    /\ job \in {j \in [west : 0..Grid, east : 0..Grid, target : Targets, deadline : Deadlines] :
                   j.west < j.east}
    /\ next = FirstTile
    /\ try = Fresh /\ clock = 0
    /\ server \in [reset : {0}, style : {"reset", "after", "silent"}, windows : {0}]
    /\ canvas = [p \in 0..job.target - 1 |-> None]
    /\ outcome = None /\ told = [sent |-> 0, reset |-> 0]

Fetching == outcome = None /\ next <= LastTile
Late == job.deadline # None /\ clock > job.deadline
Left == job.deadline - clock
OutOfTime == job.deadline # None /\ Left < MinRequest

\* The loop's own deadline check, and _request_timeout's.
Overdue ==
    /\ Fetching /\ try = Fresh /\ Late
    /\ outcome' = "timeout"
    /\ UNCHANGED <<job, next, try, clock, server, canvas, told>>

TooLate ==
    /\ Fetching /\ ~(try = Fresh /\ Late) /\ OutOfTime
    /\ outcome' = "deadline"
    /\ UNCHANGED <<job, next, try, clock, server, canvas, told>>

Uncut == Timeout

\* A request's timeout is cut to what is left.
Cut == IF job.deadline = None THEN Timeout ELSE Smaller(Timeout, Left)

\* A request is sent and ends at now.
Sent(now) ==
    /\ Fetching /\ ~(try = Fresh /\ Late) /\ ~OutOfTime
    /\ \E d \in Durations \cup {Cut} : d <= Cut /\ now = clock + d

\* _wait: taken only if it leaves time for a request.
Wait(now, seconds) ==
    IF job.deadline # None /\ now + seconds + MinRequest > job.deadline
    THEN outcome' = "deadline" /\ clock' = now
    ELSE UNCHANGED outcome /\ clock' = now + seconds

\* A transport error or a 5xx: three attempts, a second then two between them.
Failed(now) ==
    /\ Sent(now)
    /\ told' = [told EXCEPT !.sent = clock]
    /\ try' = [try EXCEPT !.attempt = @ + 1]
    /\ IF try.attempt + 1 < Retries THEN Wait(now, 2 * 2^try.attempt)
       ELSE outcome' = "failed" /\ clock' = now
    /\ UNCHANGED <<job, next, server, canvas>>

\* Any other status.
Refused(now) ==
    /\ Sent(now) /\ now >= server.reset
    /\ told' = [told EXCEPT !.sent = clock]
    /\ outcome' = "refused" /\ clock' = now
    /\ UNCHANGED <<job, next, try, server, canvas>>

\* _rate_limit_wait: the reset header, then Retry-After, then doubling.
LimitWait(until) ==
    LET asked == CASE server.style = "reset" /\ until > 0 -> until + ResetMargin
                   [] server.style = "after" -> until
                   [] OTHER -> 2 * 2^try.limited
    IN  Clamp(asked, MinSleep, MaxSleep)

OverAttempts(wait) == try.limited + 1 >= Retries

\* The 429s' budget of total sleep.
OverBudget(wait) == try.waited + wait > LimitBudget

Limited(now) ==
    /\ Sent(now)
    /\ \E reset \in IF now < server.reset THEN {server.reset} ELSE {now + w : w \in Windows} :
          /\ now >= server.reset => server.windows < MaxWindows
          /\ server' = [server EXCEPT !.reset = reset,
                           !.windows = IF now >= server.reset THEN @ + 1 ELSE @]
          /\ told' = [sent |-> clock, reset |-> IF try.limited = 0 THEN reset ELSE told.reset]
          /\ LET wait == LimitWait(reset - now)
             IN  IF OverBudget(wait) THEN outcome' = "limited" /\ clock' = now /\ UNCHANGED try
                 ELSE /\ Wait(now, wait)
                      /\ try' = [try EXCEPT !.limited = @ + 1, !.waited = @ + wait]
    /\ UNCHANGED <<job, next, canvas>>

\* A tile's left edge, relative to the crop, and its place in the output.
Rel(t) == (t - FirstTile) * TileSize - CropLeft
DstLeft(t) == Round(Rel(t) * job.target, CropWidth)
DstRightByWidth(t) == DstLeft(t) + (TileSize * job.target) \div CropWidth
DstRight(t) == Round((Rel(t) + TileSize) * job.target, CropWidth)

\* The tile arrives, is scaled to its footprint and pasted, clipped.
Served(now) ==
    /\ Sent(now) /\ now >= server.reset
    /\ canvas' = [p \in DOMAIN canvas |->
                     IF DstLeft(next) <= p /\ p < DstRight(next) THEN next ELSE canvas[p]]
    /\ next' = next + 1
    /\ try' = Fresh /\ told' = [sent |-> 0, reset |-> 0]
    /\ \E paste \in {0, PasteTime} : clock' = now + paste
    /\ outcome' = IF next = LastTile THEN "drawn" ELSE None
    /\ UNCHANGED <<job, server>>

Times == {clock + d : d \in Durations \cup {Cut}}

Next ==
    \/ Overdue \/ TooLate
    \/ \E now \in Times : Failed(now) \/ Refused(now) \/ Limited(now) \/ Served(now)

Spec == Init /\ [][Next]_vars
-----------------------------------------------------------------------------
TypeOK ==
    /\ clock \in Nat /\ next \in 0..LastTile + 1
    /\ try.attempt \in 0..Retries /\ try.waited \in 0..LimitBudget
    /\ outcome \in {None, "drawn", "timeout", "deadline", "failed", "refused", "limited"}
    /\ \A p \in DOMAIN canvas : canvas[p] \in 0..2^MaxZoom - 1 \cup {None}

\* Every pixel of the finished map shows the tile its ground lies on: no gap
\* and no overlap where two tiles meet, however the widths round.
Seamless ==
    outcome = "drawn" =>
        \A p \in DOMAIN canvas :
            /\ canvas[p] # None
            /\ Rel(canvas[p]) * job.target <= (p + 1) * CropWidth
            /\ (Rel(canvas[p]) + TileSize) * job.target >= p * CropWidth

\* A wait, a retry and a cut request together never carry a fetch past the
\* deadline; only the pasting of the last tile in time may.
DeadlineKept == job.deadline # None => clock <= job.deadline + PasteTime

\* A fetch that gives up as rate-limited has made a request after the window it
\* first met had ended, even one met at its very start.
WindowOutlived == outcome = "limited" => told.sent >= told.reset
=============================================================================
