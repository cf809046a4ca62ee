------------------------------ MODULE MCRoutes ------------------------------
(***************************************************************************)
(* Where routes and pictures come from: the rail data and its release,     *)
(* route answers, tracks and lines, and the pieces of posters and films.   *)
(*                                                                         *)
(* The components share no state, so one run can check them side by side:  *)
(* focus says which of them runs, and v1, v2, ... hold its variables.      *)
(***************************************************************************)
EXTENDS Integers, TLC

CONSTANTS x1, x2, y1, y2, spare, None

VARIABLES focus, v1, v2, v3, v4, v5, v6, v7, v8, v9, v10, v11

vars == <<focus, v1, v2, v3, v4, v5, v6, v7, v8, v9, v10, v11>>
Symmetric == Permutations({x1, x2}) \cup Permutations({y1, y2})
NodeTagSets == [n \in 1..5 |-> CASE n = 5 -> {{}, {"uic"}, {"uic", "station"}}
                                 [] n = 3 -> {{}, {"uic"}}
                                 [] OTHER -> {{}}]
WayTagSets ==
    <<{{"rail"}, {"rail", "service"}, {"route=ferry"}, {"ferry=yes", "highway"}, {"route=bus"}, {"highway"}},
      {{"highway"}, {"rail"}, {"station", "uic"}},
      {{"highway"}}>>
RelTagSets == {{"route=train"}, {"route=ferry"}, {"route=bus"}, {"station", "uic"},
               {"route=train", "station", "uic"}}
Clips == {[nodes |-> {}, ways |-> {}], [nodes |-> {5}, ways |-> {3}], [nodes |-> {2}, ways |-> {}]}
Shot(x, y, zoom, fading) == [x |-> x, y |-> y, zoom |-> zoom, fading |-> fading]
Leg(mode, real) == [mode |-> mode, real |-> real]
Roots == <<0, 10, 14, 17, 20, 22, 24, 26, 28, 30, 32, 33, 35, 36, 37, 39, 40>>
-----------------------------------------------------------------------------
Fre == INSTANCE RailRefresh WITH
    Keys <- {x1, x2}, Runs <- {y1, y2}, MaxTag <- 2, MaxSchema <- 2, release <- v1,
    schema <- v2, store <- v3, sidecar <- v4, manifest <- v5, lock <- v6, run <- v7,
    torn <- v8, fresh <- v9, omits <- v10
Ret == INSTANCE RailRefresh WITH
    Keys <- {x1}, Runs <- {y1, y2}, MaxTag <- 3, MaxSchema <- 2, release <- v1, schema <- v2,
    store <- v3, sidecar <- v4, manifest <- v5, lock <- v6, run <- v7, torn <- v8, fresh <- v9,
    omits <- v10
Ext == INSTANCE RailExtract WITH
    NodeTags <- NodeTagSets, WayTags <- WayTagSets, Refs <- <<{1, 2}, {2, 4}, {3, 4}>>,
    RelTags <- RelTagSets, MemberWays <- {{}, {1}, {2, 3}}, MemberNodes <- {{}, {5}, {3, 5}},
    Clips <- Clips, layer <- v1, world <- v2, file <- v3, sel <- v4, entry <- v5, store <- v6,
    pc <- v7
Rel == INSTANCE RailRelease WITH
    Regions <- {"dk", "ad"}, NoRail <- {"ad"}, Extra <- {"bus"}, MaxDay <- 2, MaxRuns <- 2,
    ViewFails <- FALSE, release <- v1, day <- v2, run <- v3, runs <- v4, torn <- v5,
    covered <- v6, good <- v7
Rai == INSTANCE RailSource WITH
    Regions <- {1, 2, 3}, Ways <- {"w1", "w2"}, Lengths <- {0, 2, 3}, Ceiling <- 4,
    Refs <- {1, 2}, Grid <- 0..3, Ladder <- <<1, 3>>, held <- v1, rel <- v2, track <- v3,
    broken <- v4, q <- v5
Rou == INSTANCE RouteSource WITH
    Procs <- {x1, x2}, Hosts <- {1, 2}, Concurrency <- 1, MaxAsked <- 2, leg <- v1, qry <- v2,
    slots <- v3, cooling <- v4, asked <- v5, begun <- v6, again <- v7
Gra == INSTANCE RelationGraph WITH
    Nodes <- 1..5, Pos <- <<0, 3, 1, 6, 4>>, Ends <- <<1, 6>>, Places <- {0, 1, 6},
    Anchor <- 1, Bridge <- 1, ways <- v1, named <- v2, edges <- v3, pc <- v4, snap <- v5,
    homes <- v6, dist <- v7, prev <- v8, visited <- v9, path <- v10
Trn == INSTANCE TrainLookup WITH
    Trips <- {"t1", "t2", "t3"}, MaxBoard <- 3, PageSize <- 2, MaxPages <- 2, Limit <- 2,
    Attempts <- 2, board <- v1, named <- v2, serves <- v3, pc <- v4, page <- v5, at <- v6,
    seen <- v7, tries <- v8, got <- v9
Ele == INSTANCE TrackElevation WITH
    Gaps <- {0, 3}, Heights <- {0, 2}, Grounds <- {<<0, 1, 0, 1, 6>>}, Sigmas <- {1},
    MaxSamples <- 5, MaxGlitches <- 1, Scale <- 1663200, SpanMin <- 2, SpanMax <- 6,
    Thresholds <- {1663200}, WindowM <- 4, ReliefM <- 2, MaxStride <- 3, Bad <- spare,
    stream <- v1, reach <- v2, ground <- v3, sigma <- v4, threshold <- v5
Lin == INSTANCE LineDetail WITH
    Grid <- {<<0, 0>>, <<3, 1>>, <<4, 0>>, <<7, 3>>, <<8, 0>>, <<5, 6>>}, MaxVertices <- 4,
    MaxLong <- 9, Tolerances <- <<4, 2, 1>>, Never <- 255, MinPoints <- 3, MaxInput <- 4,
    Views <- {<<2, -1, 6, 2>>, <<6, 4, 9, 9>>}, TileSize <- 2, Tiles <- 2, poly <- v1,
    count <- v2, span <- v3
Sto == INSTANCE VideoStory WITH
    Drawn <- {Leg("ride", 1), Leg("flight", 4), Leg("ride", 0)}, Dates <- {1, 2, None},
    MaxItems <- 4, Totals <- {13}, TitleS <- 2, EndS <- 1, MinClip <- 5, Share <- 5,
    EaseS <- 3, TwoFrames <- 2, Roots <- Roots, items <- v1, total <- v2, phase <- v3,
    legs <- v4, members <- v5, nxt <- v6, prev <- v7, stamp <- v8, alive <- v9, heap <- v10,
    lasts <- v11
Car == INSTANCE CardPlacement WITH
    Width <- 6, Height <- 5, Margin <- 0, Gutter <- 1,
    Obstacles <- {{}, {<<0, 2, 2, 4>>}, {<<3, 3, 6, 6>>, <<1, 0, 2, 1>>}},
    Sizes <- {<<2, 1>>, <<1, 3>>}, Pins <- {<<1, 1>>, <<3, 3>>},
    Directions <- <<<<0, -1>>, <<1, 0>>, <<0, 1>>, <<-1, 0>>>>, Radii <- <<1, 2, 3>>,
    Step <- 3, MaxCards <- 3, style <- v1, placed <- v2, cursor <- v3, natural <- v4,
    last <- v5
Lay == INSTANCE CardLayout WITH
    Pad <- 2, Inner <- 8, MaxHeight <- 24, MinLine <- 3, HeroHeight <- 6, Gap <- 1,
    PhotoGap <- 1, Columns <- 2, LineHeights <- {2, 3}, After <- 1, MaxLines <- 3,
    MaxPhotos <- 5, stage <- v1, y <- v2, drawn <- v3, height <- v4
Pre == INSTANCE TilePrefetch WITH
    Keys <- {"a", "b", "c"}, Plan <- <<"a", "a", "b", "c", "a">>,
    Calls <- {<<"a", "a", "b", "c", "a">>, <<"a", "c", "a">>, <<"b", "a", "b", "c">>, <<"c", "a", "a">>},
    Threads <- {x1, x2}, Window <- 2, asks <- v1, call <- v2, ahead <- v3, slot <- v4,
    queue <- v5, thread <- v6, pool <- v7, seen <- v8
Sti == INSTANCE TileStitch WITH
    Grid <- 2, TileSize <- 4, MaxZoom <- 1, Targets <- {5}, Deadlines <- {70, None},
    Durations <- {0}, Timeout <- 30, Retries <- 3, MinRequest <- 1, LimitBudget <- 130,
    MinSleep <- 2, MaxSleep <- 60, ResetMargin <- 2, Windows <- {120}, MaxWindows <- 1,
    PasteTime <- 1, job <- v1, next <- v2, try <- v3, clock <- v4, server <- v5, canvas <- v6,
    outcome <- v7, told <- v8
Ban == INSTANCE BasemapBands WITH
    Shots <- {Shot(0, 2, 1, FALSE), Shot(3, 2, 1, TRUE), Shot(3, 1, 0, FALSE), Shot(3, 2, 0, TRUE), Shot(1, 0, 2, FALSE)},
    MaxShots <- 4, Grid <- 4, Base <- 4, Width <- 2, Height <- 2, Margin <- 1, GapFrames <- 1,
    SheetFrames <- 16, MaxTiles <- 14, shots <- v1, cap <- v2, sheets <- v3, open <- v4,
    frames <- v5, drawn <- v6, images <- v7, kept <- v8, fetched <- v9, shown <- v10
-----------------------------------------------------------------------------
Init ==
    \/ /\ focus = "refresh" /\ Fre!Init
       /\ v11 = None
    \/ /\ focus = "retire" /\ Ret!Init
       /\ v11 = None
    \/ /\ focus = "extract" /\ Ext!Init
       /\ v8 = None /\ v9 = None /\ v10 = None /\ v11 = None
    \/ /\ focus = "release" /\ Rel!Init
       /\ v8 = None /\ v9 = None /\ v10 = None /\ v11 = None
    \/ /\ focus = "stores" /\ Rai!Init
       /\ v6 = None /\ v7 = None /\ v8 = None /\ v9 = None /\ v10 = None /\ v11 = None
    \/ /\ focus = "legs" /\ Rou!Init
       /\ v8 = None /\ v9 = None /\ v10 = None /\ v11 = None
    \/ /\ focus = "graph" /\ Gra!Init
       /\ v11 = None
    \/ /\ focus = "trains" /\ Trn!Init
       /\ v10 = None /\ v11 = None
    \/ /\ focus = "elevation" /\ Ele!Init
       /\ v6 = None /\ v7 = None /\ v8 = None /\ v9 = None /\ v10 = None /\ v11 = None
    \/ /\ focus = "detail" /\ Lin!Init
       /\ v4 = None /\ v5 = None /\ v6 = None /\ v7 = None /\ v8 = None /\ v9 = None /\ v10 = None /\ v11 = None
    \/ /\ focus = "story" /\ Sto!Init
    \/ /\ focus = "cards" /\ Car!Init
       /\ v6 = None /\ v7 = None /\ v8 = None /\ v9 = None /\ v10 = None /\ v11 = None
    \/ /\ focus = "card" /\ Lay!Init
       /\ v5 = None /\ v6 = None /\ v7 = None /\ v8 = None /\ v9 = None /\ v10 = None /\ v11 = None
    \/ /\ focus = "prefetch" /\ Pre!Init
       /\ v9 = None /\ v10 = None /\ v11 = None
    \/ /\ focus = "stitch" /\ Sti!Init
       /\ v9 = None /\ v10 = None /\ v11 = None
    \/ /\ focus = "bands" /\ Ban!Init
       /\ v11 = None

Next ==
    \/ focus = "refresh" /\ Fre!Next /\ UNCHANGED <<focus, v11>>
    \/ focus = "retire" /\ Ret!Next /\ UNCHANGED <<focus, v11>>
    \/ focus = "extract" /\ Ext!Next /\ UNCHANGED <<focus, v8, v9, v10, v11>>
    \/ focus = "release" /\ Rel!Next /\ UNCHANGED <<focus, v8, v9, v10, v11>>
    \/ focus = "stores" /\ Rai!Next /\ UNCHANGED <<focus, v6, v7, v8, v9, v10, v11>>
    \/ focus = "legs" /\ Rou!Next /\ UNCHANGED <<focus, v8, v9, v10, v11>>
    \/ focus = "graph" /\ Gra!Next /\ UNCHANGED <<focus, v11>>
    \/ focus = "trains" /\ Trn!Next /\ UNCHANGED <<focus, v10, v11>>
    \/ focus = "elevation" /\ Ele!Next /\ UNCHANGED <<focus, v6, v7, v8, v9, v10, v11>>
    \/ focus = "detail" /\ Lin!Next /\ UNCHANGED <<focus, v4, v5, v6, v7, v8, v9, v10, v11>>
    \/ focus = "story" /\ Sto!Next /\ UNCHANGED focus
    \/ focus = "cards" /\ Car!Next /\ UNCHANGED <<focus, v6, v7, v8, v9, v10, v11>>
    \/ focus = "card" /\ Lay!Next /\ UNCHANGED <<focus, v5, v6, v7, v8, v9, v10, v11>>
    \/ focus = "prefetch" /\ Pre!Next /\ UNCHANGED <<focus, v9, v10, v11>>
    \/ focus = "stitch" /\ Sti!Next /\ UNCHANGED <<focus, v9, v10, v11>>
    \/ focus = "bands" /\ Ban!Next /\ UNCHANGED <<focus, v11>>

Spec == Init /\ [][Next]_vars
-----------------------------------------------------------------------------
\* - RailRefresh: A refresh that refused nothing leaves every store the release
\*   publishes at the release's checksum, in the kind the code reads, whatever
\*   was killed, rolled back or deployed before; except a store whose rename
\*   was never recorded (the skip trusts the sidecar).
\* - RailRefresh: The manifest, which the router reads as coverage, never lists
\*   a region as there whose store is not, however many runs were refused or
\*   killed.
\* - RailRefresh: A region is carried through one release that leaves it out
\*   and retired by the next, whatever re-runs and kills come between.
\* - RailExtract: "One table, so CI never publishes a file the builder refuses
\*   and the manifest's box is the store's": the two halves class the ways
\*   separately, one from the raw tags before the relations are written, one
\*   from the tags that survive the file.
\* - RailExtract: Nothing a query could route over is lost on the way: an empty
\*   layer is one whose raw extract has no way of the routable set.
\* - RailExtract: A relation is found from the codes of the stops it calls at,
\*   tagged as stations or not, and a ferry or bus stop the extract holds is
\*   placed.
\* - RailExtract: A station mapped as a polygon or a relation is where the map
\*   service puts it, at the centre of all its members, unless the store counts
\*   it as partial.
\* - RailRelease: A published manifest names no file its release does not hold:
\*   what it carries from the manifest it replaces is still attached (the
\*   comment on the base of the merge), whatever layers were switched off and
\*   on between.
\* - RailRelease: A region's layers come from one build: a layer dropped by the
\*   size guard is missing, never last month's beside this month's rail.
\* - RailRelease: A green run that was not forced has rebuilt every region it
\*   was asked for (#350), and nothing but a later publication takes that back.
RailDataSound ==
    /\ focus = "refresh" => Fre!TypeOK /\ Fre!FreshAfterComplete /\ Fre!ListedHasStore
    /\ focus = "retire" => Ret!CarriedOnce
    /\ focus = "extract" =>
        /\ Ext!TypeOK
        /\ Ext!PublishedIsAccepted
        /\ Ext!EmptyIsEmpty
        /\ Ext!StopsKnown
        /\ Ext!StationsPlaced
    /\ focus = "release" =>
        /\ Rel!TypeOK
        /\ Rel!ManifestBacked
        /\ Rel!RegionIsOneBuild
        /\ Rel!AskedIsFresh

\* - RailSource: The merged answer stays within the worker's memory ceiling
\*   when two regions hold copies of different length of one way (an OSM edit
\*   between their dates); unless a file fails between the counting and the
\*   decoding pass.
\* - RailSource: A finished answer has each way of each region that could be
\*   read, once.
\* - RailSource: Merging a cross-border relation never splices two memberships:
\*   the merged list names the members of one region's copy; and where the
\*   copies agree, a member is held as soon as one region holds it.
\* - RailSource: nearest_node finds what a scan of every vertex would: nothing
\*   nearer exists, and it gives up only when nothing lies within the last
\*   rung.
\* - RouteSource: A miss in the local stores is never why a route is lost: a
\*   leg that ends as a straight line or an error had a box refused locally, a
\*   query unanswered, or every strategy that applies tried against Overpass in
\*   vain.
\* - RouteSource: A box the worker's memory refused is never asked of Overpass
\*   instead.
\* - RouteSource: A host that refused gets, while it cools, at most one more
\*   request from each worker that had already passed its check: no retry adds
\*   to the refusals.
\* - RelationGraph: The line never jumps: two neighbours on it are joined by a
\*   member way, or lie within the bridge limit with one of them in a piece
\*   that holds a stop the relation names near an end of this leg.
\* - RelationGraph: A relation in pieces gives its best piece, not nothing: the
\*   search fails only where no two nodes are joined.
\* - RelationGraph: The search finds a shortest path: no simple path between
\*   the snapped nodes is shorter (a reference over all of them).
\* - TrainLookup: The lookup's answer is the day's first working that runs
\*   between the two ends, and it gives up only when no candidate of the day
\*   does: a working of another day is never taken, and one further down or on
\*   a later page is not lost to a repeated entry or to a rejected candidate.
RoutesSound ==
    /\ focus = "stores" =>
        /\ Rai!WithinCeiling
        /\ Rai!EveryWayOnce
        /\ Rai!MergedOneMembership
        /\ Rai!NearestIsNearest
    /\ focus = "legs" =>
        /\ Rou!TypeOK
        /\ Rou!RealRouteFound
        /\ Rou!OverloadAsksNobody
        /\ Rou!CoolingBounded
    /\ focus = "graph" => Gra!NoTeleport /\ Gra!PieceIsRouted /\ Gra!Shortest
    /\ focus = "trains" => Trn!FirstServing

\* - TrackElevation: A cleaned profile has a height everywhere; one that was
\*   missing lies between the nearest known heights on either side
\*   (interpolate_elevation_gaps).
\* - TrackElevation: The two cursors of _smooth_elevations hold exactly the
\*   points within half a span, and the stride is a median of the capped runs .
\* - TrackElevation: The dead band never loses more than one threshold of the
\*   net climb and never counts more than the smoothed profile rises
\*   (elevation_gain).
\* - TrackElevation: The terrain windows hold every step of the track exactly
\*   once, so the corrected series counts none twice; a window is judged on a
\*   whole window's length of track wherever that much lies behind its end.
\* - TrackElevation: After a repair nothing of the activity's heights needs
\*   one, and a second repair changes nothing (repair_elevations).
\* - TrackElevation: A point whose distance no other point shares is given back
\*   its own height (points_to_elevation_profile, then align_points).
\* - LineDetail: The levels prepared once for a line give, at every level,
\*   exactly the line the live simplification gives .
\* - LineDetail: A vertex that was dropped lies within the tolerance of the
\*   part of the line drawn in its place (simplify_lonlat).
\* - LineDetail: What is drawn starts and ends where the line does, has the
\*   minimum of points the line has, and a line with a vertex in view is
\*   thinned, never strided.
\* - LineDetail: A stride keeps both ends and repeats no vertex, however long
\*   the line.
\* - LineDetail: A snapped box is never empty and covers what the map asked
\*   for, as far as the world goes (snap_bbox_to_tiles).
\* - VideoStory: However the groups were joined, the clips hold every leg once
\*   and in the trip's order, and no more of them than the video has room for
\*   (group_clips).
\* - VideoStory: Every pair of neighbours is on the heap at its present cost,
\*   so that the turn which joins the cheapest offer joins the cheapest pair
\*   (group_clips).
\* - VideoStory: Once one leg of a trip is dated every leg is, with the date of
\*   a neighbour .
\* - VideoStory: The film never runs backwards: from one instant to the next
\*   the leg shown, and how much of it, only grows, from the start of the first
\*   to the end of the last.
\* - CardPlacement: No card covers another, or an obstacle, or comes nearer
\*   than the gutter, and every card lies within the sheet's margin .
\* - CardLayout: Whatever the blocks, nothing is drawn past the padding of the
\*   finished card, and two lines, or two rows of pictures, never share pixels
\*   (layout_card).
\* - TilePrefetch: Tiles fetched or being fetched and not yet asked for never
\*   exceed the window, whatever the render asks for, skips or lets be
\*   discarded; a slot no longer counted is consumed or will be dropped
\*   unfetched by the thread that reaches it.
\* - TilePrefetch: A call gets the tile it asked for, the plan being right or
\*   wrong.
\* - TilePrefetch: The frame loop never waits for a request nobody will serve:
\*   it is done, or a thread holds it, or it is queued where a thread or the
\*   closing drain takes it.
\* - TilePrefetch: Once closed, every thread blocked on the queue has a wake-up
\*   in it, so the process keeps no thread of a finished render.
\* - TilePrefetch: A render that asks in the planned order never fetches for
\*   itself while the pool is open.
\* - TileStitch: Every pixel of the finished map shows the tile its ground lies
\*   on: no gap and no overlap where two tiles meet, however the widths round.
\* - TileStitch: A wait, a retry and a cut request together never carry a fetch
\*   past the deadline; only the pasting of the last tile in time may.
\* - TileStitch: A fetch that gives up as rate-limited has made a request after
\*   the window it first met had ended, even one met at its very start.
\* - BasemapBands: A frame finds every pixel of its view on its sheets, though
\*   a sheet grew and was closed by other frames: cropping never leaves a black
\*   edge.
\* - BasemapBands: A sheet across the antimeridian is cut into pieces that lie
\*   in the world and fill the sheet without gap or overlap, and no sheet
\*   exceeds the cap.
\* - BasemapBands: The frame loop asks for exactly the planned tiles in the
\*   planned order, each sheet stitched once: what lets the prefetcher never
\*   miss.
\* - BasemapBands: A frame shows its own picture, drawn for it or kept from one
\*   like it.
DrawnSound ==
    /\ focus = "elevation" =>
        /\ Ele!TypeOK
        /\ Ele!GapsLieBetween
        /\ Ele!SmoothingIsCentred
        /\ Ele!NetClimbKept
        /\ Ele!WindowsTile
        /\ Ele!RepairSettles
        /\ Ele!RoundTrip
    /\ focus = "detail" =>
        /\ Lin!TypeOK
        /\ Lin!PreparedIsLive
        /\ Lin!DroppedIsNear
        /\ Lin!DrawnIsWhole
        /\ Lin!StrideAdvances
        /\ Lin!SnapCovers
    /\ focus = "story" =>
        /\ Sto!TypeOK
        /\ Sto!LegsInOrder
        /\ Sto!HeapCurrent
        /\ Sto!DatesFilled
        /\ Sto!NeverBackwards
    /\ focus = "cards" => Car!TypeOK /\ Car!CardsApart
    /\ focus = "card" => Lay!TypeOK /\ Lay!DrawnInside
    /\ focus = "prefetch" =>
        /\ Pre!TypeOK
        /\ Pre!WindowKept
        /\ Pre!OwnTile
        /\ Pre!NoStrandedCall
        /\ Pre!ThreadsLeave
        /\ Pre!InOrderNeverMisses
    /\ focus = "stitch" => Sti!TypeOK /\ Sti!Seamless /\ Sti!DeadlineKept /\ Sti!WindowOutlived
    /\ focus = "bands" =>
        /\ Ban!TypeOK
        /\ Ban!ViewCovered
        /\ Ban!PiecesFill
        /\ Ban!FetchedAsPlanned
        /\ Ban!ShownIsOwn

\* - RailRelease: Rebuilding some regions never disowns the others: the newest
\*   release goes on accounting for every region it did, unless someone forces
\*   it.
\* - VideoStory: Offers that went stale are never taken up: what a turn joins
\*   are neighbours at the cost they have now.
\* - CardPlacement: A card is left out, or sent on along the track, only where
\*   no place before it is free: stepping past blockers misses none .
\* - CardPlacement: Cards keep the order of their pins around the sheet: each
\*   begins a gutter or more after the one before it ended, also once the track
\*   has been gone around.
RouteSteps ==
    [][/\ focus = "release" => Rel!DisownsNothing
       /\ focus = "story" => Sto!JoinsCheapest
       /\ focus = "cards" => Car!MissesNoSlot
       /\ focus = "cards" => Car!FollowsPins]_vars
=============================================================================
