----------------------------- MODULE TrainLookup -----------------------------
(***************************************************************************)
(* Finding the working of a train on a departure board.                    *)
(*                                                                         *)
(*   src/services/hafas_service.py   get_train_route                       *)
(*                                                                         *)
(* The board of the stop nearest the start is read page by page from the   *)
(* beginning of the service day; every matching trip is fetched in turn    *)
(* until one serves both ends.  A time is 0 before the day, 1 within it, 2 *)
(* after it, or None.  Any request may fail for good after its retries.    *)
(***************************************************************************)
EXTENDS Naturals, Sequences, SequencesExt, FiniteSets

CONSTANTS
    Trips,      \* trip ids
    MaxBoard,   \* bound: entries on the board
    PageSize,   \* _BOARD_PAGE_SIZE
    MaxPages,   \* _BOARD_MAX_PAGES
    Limit,      \* _MAX_TRIP_CANDIDATES
    Attempts,   \* _MAX_ATTEMPTS
    None

VARIABLES
    board,    \* the entries: [trip, when], in board order
    named,    \* trips whose name matches the query
    serves,   \* trips that call near both ends of the segment
    pc, page, \* the step, and the page in hand
    at,       \* the entry of the board looked at next
    seen,     \* candidates yielded so far
    tries,    \* attempts of the request under way
    got       \* the trip the route was taken from, or None

vars == <<board, named, serves, pc, page, at, seen, tries, got>>

Entries == [trip : Trips, when : {0, 1, 2, None}]
Sorted(b) == \A i, j \in DOMAIN b : i < j /\ b[i].when # None /\ b[j].when # None
                                      => b[i].when <= b[j].when

Init ==
    /\ board \in {b \in BoundedSeq(Entries, MaxBoard) : Sorted(b)}
    /\ named \in SUBSET Trips /\ serves \in SUBSET Trips
    /\ pc = "anchor" /\ page = 0 /\ at = 1 /\ seen = {} /\ tries = 0 /\ got = None

\* _get: a transient refusal is retried, and the last one ends the lookup.
Retry ==
    /\ pc \in {"anchor", "page", "trip"}
    /\ tries' = tries + 1
    /\ pc' = IF tries' = Attempts THEN "failed" ELSE pc
    /\ UNCHANGED <<board, named, serves, page, at, seen, got>>

\* _nearest_stop: a stop, or none near the start.
Anchor ==
    /\ pc = "anchor"
    /\ pc' \in {"page", "none"} /\ tries' = 0
    /\ UNCHANGED <<board, named, serves, page, at, seen, got>>

LastOf(p) == IF p * PageSize < Len(board) THEN p * PageSize ELSE Len(board)

\* /stoptimes: the next page, unless it is empty.
Page ==
    /\ pc = "page"
    /\ tries' = 0
    /\ IF page * PageSize >= Len(board) THEN pc' = "none" /\ UNCHANGED page
       ELSE pc' = "scan" /\ page' = page + 1
    /\ UNCHANGED <<board, named, serves, at, seen, got>>

\* _service_window: the entry lies past the local day.
PastDay(e) == e.when = 2

BeforeDayNever(e) == FALSE

\* The window opens with the day at the stop, and not before.
BeforeDay(e) == e.when = 0

\* The radius sweep lists one trip once per stop it calls at.
Seen(t) == t \in seen

\* _entry_matches: by letters and number, not by substring.
Matches(e) == e.trip \in named

\* One entry of the page, or the end of the page.
Scan ==
    /\ pc = "scan"
    /\ IF at > LastOf(page)
       THEN LET last == board[LastOf(page)]
            IN  /\ pc' = IF \/ last.when # None /\ PastDay(last)
                            \/ page = MaxPages \/ LastOf(page) = Len(board)
                         THEN "none" ELSE "page"
                /\ UNCHANGED <<at, seen>>
       ELSE LET e == board[at]
            IN  /\ at' = at + 1
                /\ CASE PastDay(e) -> pc' = "none" /\ UNCHANGED seen
                     [] Matches(e) /\ ~PastDay(e) /\ ~BeforeDay(e) /\ ~Seen(e.trip) ->
                          pc' = "trip" /\ seen' = seen \cup {e.trip}
                     [] OTHER -> UNCHANGED <<pc, seen>>
    /\ UNCHANGED <<board, named, serves, page, tries, got>>

\* _trim_stops, _check_serves_endpoints: the trip calls near both ends.
Accepts(t) == t \in serves

\* _route_from_trip: this working, or _TripRejected and on to the next.
Trip ==
    LET t == board[at - 1].trip
    IN  /\ pc = "trip"
        /\ tries' = 0
        /\ IF Accepts(t) THEN pc' = "done" /\ got' = t
           ELSE /\ pc' = IF Cardinality(seen) >= Limit THEN "none" ELSE "scan"
                /\ UNCHANGED got
        /\ UNCHANGED <<board, named, serves, page, at, seen>>

Next == Retry \/ Anchor \/ Page \/ Scan \/ Trip

Spec == Init /\ [][Next]_vars
-----------------------------------------------------------------------------
\* The board as a list of the day's candidates: matching, of the day (or of no
\* known time), each once, at most Limit, within the pages read.
Candidates ==
    LET upTo == SelectInSeq(board, LAMBDA e : e.when = 2)
        day == SubSeq(board, 1, LastOf(MaxPages))
        cut == IF upTo = 0 \/ upTo > Len(day) THEN day ELSE SubSeq(day, 1, upTo - 1)
        fits == SelectSeq(cut, LAMBDA e : e.trip \in named /\ e.when # 0)
        once == SelectSeq([i \in DOMAIN fits |-> <<i, fits[i].trip>>],
                          LAMBDA x : \A j \in 1..(x[1] - 1) : fits[j].trip # x[2])
    IN  [i \in 1..(IF Len(once) < Limit THEN Len(once) ELSE Limit) |-> once[i][2]]

\* The lookup's answer is the day's first working that runs between the two
\* ends, and it gives up only when no candidate of the day does: a working of
\* another day is never taken, and one further down or on a later page is not
\* lost to a repeated entry or to a rejected candidate.
FirstServing ==
    LET good == SelectSeq(Candidates, LAMBDA t : t \in serves)
    IN  /\ pc = "done" => good # <<>> /\ got = good[1]
        /\ pc = "none" /\ page > 0 => good = <<>>
=============================================================================
