----------------------------- MODULE Activities -----------------------------
(***************************************************************************)
(* The activity rows of the trips: tracks, edit snapshots, split families, *)
(* prepared geometry, and the requests and background jobs that write them.*)
(*                                                                         *)
(*   src/project/repo_activities.py      every writer of a row             *)
(*   api/activities.py                   the routes and the Strava jobs    *)
(*   api/project_items.py, projects.py   item and trip removal             *)
(*   src/models/prepared_geo.py, src/jobs/prepared_geo_jobs.py, api/geo.py *)
(*                                       prepared geometry made outside    *)
(*                                       a transaction                     *)
(*                                                                         *)
(* A track is the set of cells of the original activity it still covers,   *)
(* an interval; a user only trims (adding points is left out), so two      *)
(* pieces of a family overlap only if the server lays one over another.    *)
(* A request reads the row in one step and writes in another: SQLite opens *)
(* its write transaction at the first UPDATE, so other commits land in     *)
(* between.  SQLAlchemy writes a column only when it differs from what the *)
(* request READ, which the row a writer stores reflects.  A trip's version *)
(* is the one loaded when the request read; "fresh" says nobody has        *)
(* advanced it since, "cur" that nobody has written the row.               *)
(***************************************************************************)
EXTENDS Naturals, FiniteSets, TLC

CONSTANTS
    Trips,      \* the trips
    Ops,        \* concurrent requests and background jobs
    Length,     \* cells of the original track
    MaxRows,    \* bound: activity rows ever created (ids are never drawn twice)
    MaxCalls,   \* bound: requests made and jobs started
    Unchecked   \* the requests that older clients send without a lock_version

VARIABLES
    rows,      \* the activity table: id -> row
    items,     \* per trip, the ids its activity items name
    live,      \* the trips that exist
    prep,      \* activity_geo_prepared: id -> the cells its blob was made from
    next,      \* the next id allocate_activity_id draws
    calls,     \* requests made and jobs started so far
    op,        \* per slot, the request or job under way
    pending,   \* the rows whose refresh_status is "pending"
    marred,    \* history: rows a late or forced write was laid over
    exposed,   \* history: the kinds of write that put plaintext over an envelope
    stranded   \* history: rows that were pending when the process died

tables == <<rows, items, live, prep, next, marred, exposed>>
status == <<pending, stranded>>
vars   == <<tables, status, calls, op>>

Ids   == 1..MaxRows
Cells == 1..Length
Spans == {a..b : a \in Cells, b \in Cells} \ {{}}
Full  == Cells

\* A polyline: the cells it covers and whether it is a client-side envelope.
\* NoTrack is a null column.
Poly    == [t : Spans, e : BOOLEAN]
NoTrack == [t |-> {}, e |-> FALSE]
Rows    == [poly : Poly, edited : BOOLEAN, orig : Poly \cup {NoTrack},
            parent : 0..MaxRows, root : 0..MaxRows,
            from : {"strava", "gpx", "split"}]

Idle  == [kind |-> "idle"]
NoRow == [edited |-> FALSE]
-----------------------------------------------------------------------------
Without(f, S)       == [x \in DOMAIN f \ S |-> f[x]]
Held                == UNION {items[t] : t \in Trips}
OtherTripsRows(t)   == UNION {items[u] : u \in Trips \ {t}}
Family(a)           == IF rows[a].root = 0 THEN a ELSE rows[a].root

\* store_prepared_geometry: beside every write of the polyline.
Prepared(p, a, poly) ==
    IF poly.e THEN Without(p, {a}) ELSE (a :> poly.t) @@ p

\* Mutant (issue #143): only the pieces cut directly out of a.
ChildrenOnly(t, a) == {x \in DOMAIN rows \ OtherTripsRows(t) : rows[x].parent = a}

\* _split_descendants: the pieces cut out of a, through rows no other trip holds.
SplitDescendants(t, a) ==
    LET under[x \in Ids] ==
            /\ x \in DOMAIN rows \ OtherTripsRows(t)
            /\ rows[x].parent # 0
            /\ rows[x].parent = a \/ under[rows[x].parent]
    IN  {x \in Ids : under[x]}

\* Mutant: the snapshot is taken on every edit.
EditedRowAgain(cur, seen, poly) ==
    [cur EXCEPT !.poly = poly, !.edited = TRUE, !.orig = cur.poly]

\* _snapshot_first_edit and the is_edited mark, as the session writes them:
\* is_edited and the snapshot as the request read them decide, and an is_edited
\* it read as set is not written again.
EditedRow(cur, seen, poly) ==
    [cur EXCEPT !.poly = poly,
                !.edited = @ \/ ~seen.edited,
                !.orig = IF seen.edited THEN @ ELSE cur.poly]

\* _new_split_tail, _snapshot_current(tail): the tail's snapshot is its own track.
TailRow(head, a, poly) ==
    [poly |-> poly, edited |-> TRUE, orig |-> poly, parent |-> a,
     root |-> IF head.root = 0 THEN a ELSE head.root, from |-> "split"]

NewRow(from) ==
    [poly |-> [t |-> Full, e |-> FALSE], edited |-> FALSE, orig |-> NoTrack,
     parent |-> 0, root |-> 0, from |-> from]
-----------------------------------------------------------------------------
\* A request or job of a slot, as it stands after reading row a.
Call(kind, pc, t, a, seen, arg, cas) ==
    [kind |-> kind, pc |-> pc, trip |-> t, id |-> a, seen |-> seen, arg |-> arg,
     cas |-> cas, fresh |-> TRUE, cur |-> TRUE]

Free(o) == op[o] = Idle /\ calls < MaxCalls

\* Slot o goes on as "then"; the other slots learn which rows were written and
\* which trips' versions were advanced.
Settle(o, then, written, bumped) ==
    /\ op' = [x \in Ops |->
                IF x = o THEN then
                ELSE IF op[x] = Idle THEN Idle
                ELSE [op[x] EXCEPT
                        !.cur = @ /\ (op[x].cas \/ op[x].id \notin written),
                        !.fresh = @ /\ (~op[x].cas \/ op[x].trip \notin bumped)]]
    /\ calls' = IF op[o] = Idle THEN calls + 1 ELSE calls

Drop(o) == Settle(o, Idle, {}, {}) /\ UNCHANGED <<tables, status>>

Begin(o, kind, t, a, arg, cas) ==
    /\ Free(o)
    /\ Settle(o, Call(kind, "write", t, a, rows[a], arg, cas), {}, {})
    /\ UNCHANGED <<tables, status>>

At(o, kind, pc) == op[o].kind = kind /\ op[o].pc = pc

\* check_and_bump_lock_version, or the unconditional bump of a request
\* that sent no version.
VersionOK(o) == ~op[o].cas \/ (op[o].fresh /\ op[o].trip \in live)

Versions(kind) == IF kind \in Unchecked THEN BOOLEAN ELSE {TRUE}

\* History of a write of row a by a writer of this kind.
Witness(a, kind, poly, spoils) ==
    /\ marred' = IF spoils THEN marred \cup {a, Family(a)} ELSE marred
    /\ exposed' = IF a \in DOMAIN rows /\ rows[a].poly.e /\ ~poly.e
                  THEN exposed \cup {kind} ELSE exposed
-----------------------------------------------------------------------------
\* _save_trip_activities: an activity an added item names gets a row of this
\* trip alone, though another trip has a row for the same activity; the rows
\* the trip already holds are left as they are.
SaveTripActivities(t, from) ==
    /\ rows' = (next :> NewRow(from)) @@ rows
    /\ prep' = Prepared(prep, next, NewRow(from).poly)
    /\ items' = [items EXCEPT ![t] = @ \cup {next}]
    /\ next' = next + 1

NoneFrom(t, from) == \A a \in items[t] \cap DOMAIN rows : rows[a].from # from

\* POST /activities: a Strava activity the trip does not hold yet gets a row of
\* its own, under the retrying compare-and-swap, and its enrichment is queued.
AddActivities(t, o) ==
    /\ t \in live /\ next <= MaxRows /\ Free(o) /\ NoneFrom(t, "strava")
    /\ SaveTripActivities(t, "strava")
    /\ Settle(o, Call("enrich", "start", t, next, NoRow, {}, FALSE), {}, {t})
    /\ UNCHANGED <<live, marred, exposed, status>>

\* POST /strava/sync: the whole list is fetched first; which activities are new
\* is decided in every attempt of the save, and no enrichment is queued.
SyncStrava(t, o) ==
    /\ t \in live /\ next <= MaxRows /\ Free(o) /\ NoneFrom(t, "strava")
    /\ SaveTripActivities(t, "strava")
    /\ Settle(o, Idle, {}, {t})
    /\ UNCHANGED <<live, marred, exposed, status>>

\* POST /activities/import-gpx-tracks: which tracks are new is decided again
\* in every attempt of the save.
ImportGpxTracks(t, o) ==
    /\ t \in live /\ next <= MaxRows /\ Free(o) /\ NoneFrom(t, "gpx")
    /\ SaveTripActivities(t, "gpx")
    /\ Settle(o, Idle, {}, {t})
    /\ UNCHANGED <<live, marred, exposed, status>>

\* POST /activities/import-gpx: one session refuses a file the trip holds and
\* draws the id ...
ImportGpx(o, t) ==
    /\ t \in live /\ Free(o) /\ NoneFrom(t, "gpx")
    /\ Settle(o, Call("import", "write", t, 0, NoRow, {}, FALSE), {}, {})
    /\ UNCHANGED <<tables, status>>

\* ... and the retrying save adds the activity without asking again whether the
\* trip holds the file: two imports of it that overlap both land.
WriteImport(o) ==
    /\ At(o, "import", "write") /\ next <= MaxRows /\ op[o].trip \in live
    /\ SaveTripActivities(op[o].trip, "gpx")
    /\ Settle(o, Idle, {}, {op[o].trip})
    /\ UNCHANGED <<live, marred, exposed, status>>

\* The trip is gone by then: a 404, nothing written.
DropImport(o) ==
    /\ At(o, "import", "write") /\ op[o].trip \notin live
    /\ Drop(o)
-----------------------------------------------------------------------------
\* PUT .../track and its encrypted twin (a trim of at most a cell): the read refuses a row that is not the
\* route's kind (_refuse_encrypted_geometry / _refuse_plaintext_geometry).
EditTrack(o, t, a) ==
    /\ t \in live /\ a \in items[t] \cap DOMAIN rows
    /\ \E s \in Spans, cas \in Versions("edit") :
          /\ s \subseteq rows[a].poly.t /\ Cardinality(rows[a].poly.t \ s) <= 1
          /\ rows[a].poly.e => cas
          /\ Begin(o, "edit", t, a, s, cas)

\* Mutant: the check made before the write lock is trusted.
EncryptionTrusted(o) == op[o].id \in DOMAIN rows

\* The kind of the stored track is read again under the write lock.
EncryptionUnchanged(o) == rows[op[o].id].poly.e = op[o].seen.poly.e

WriteEdit(o) ==
    LET r == op[o]
        poly == [t |-> r.arg, e |-> r.seen.poly.e]
    IN  /\ At(o, "edit", "write")
        /\ r.id \in DOMAIN rows /\ VersionOK(o) /\ EncryptionUnchanged(o)
        /\ rows' = [rows EXCEPT ![r.id] = EditedRow(@, r.seen, poly)]
        /\ prep' = Prepared(prep, r.id, poly)
        /\ Witness(r.id, "edit", poly, ~r.cas /\ ~r.cur)
        /\ Settle(o, Idle, {r.id}, {r.trip})
        /\ UNCHANGED <<items, live, next, status>>

\* Mutant: the cut may fall on the last point (off by one).
SplitAtEnd(o, t, a) ==
    /\ t \in live /\ a \in items[t] \cap DOMAIN rows /\ next <= MaxRows
    /\ Begin(o, "split", t, a, <<rows[a].poly.t, {}>>, TRUE)

\* POST .../split and its encrypted twin: the cut is made in the points the
\* client sent or the ones just read; drop_boundary loses the cell at the cut.
SplitActivity(o, t, a) ==
    /\ t \in live /\ a \in items[t] \cap DOMAIN rows /\ next <= MaxRows
    /\ \E h \in Spans, l \in Spans, cas \in Versions("split") :
          /\ h \cup l \subseteq rows[a].poly.t /\ \A x \in h, y \in l : x < y
          /\ \A x \in rows[a].poly.t \ (h \cup l) :
                x - 1 \in h /\ x + 1 \in l
          /\ rows[a].poly.e => cas
          /\ Begin(o, "split", t, a, <<h, l>>, cas)

WriteSplit(o) ==
    LET r == op[o]
        head == [t |-> r.arg[1], e |-> r.seen.poly.e]
        tail == [t |-> r.arg[2], e |-> r.seen.poly.e]
    IN  /\ At(o, "split", "write") /\ next <= MaxRows
        /\ r.id \in DOMAIN rows /\ VersionOK(o) /\ EncryptionUnchanged(o)
        /\ rows' = (next :> TailRow(r.seen, r.id, tail))
                   @@ [rows EXCEPT ![r.id] = EditedRow(@, r.seen, head)]
        /\ prep' = Prepared(Prepared(prep, r.id, head), next, tail)
        \* _insert_split_tail: after the head's item, if it is still there.
        /\ items' = [items EXCEPT ![r.trip] = IF r.id \in @ THEN @ \cup {next} ELSE @]
        /\ next' = next + 1
        /\ Witness(r.id, "split", head, ~r.cas /\ ~r.cur)
        /\ Settle(o, Idle, {r.id}, {r.trip})
        /\ UNCHANGED <<live, status>>

\* POST .../reset: an edited row with a snapshot to restore.
ResetTrack(o, t, a) ==
    /\ t \in live /\ a \in items[t] \cap DOMAIN rows
    /\ rows[a].edited /\ rows[a].orig # NoTrack
    /\ \E cas \in Versions("reset") : Begin(o, "reset", t, a, {}, cas)

WriteReset(o) ==
    LET r == op[o]
        gone == SplitDescendants(r.trip, r.id)
        back == r.seen.orig
    IN  /\ At(o, "reset", "write")
        /\ r.id \in DOMAIN rows /\ VersionOK(o)
        /\ rows' = [Without(rows, gone) EXCEPT ![r.id] =
                      [@ EXCEPT !.poly = IF back = r.seen.poly THEN @ ELSE back,
                                !.edited = FALSE, !.orig = NoTrack]]
        /\ prep' = Prepared(Without(prep, gone), r.id, back)
        /\ items' = [items EXCEPT ![r.trip] = @ \ gone]
        /\ Witness(r.id, "reset", back, ~r.cas /\ ~r.cur)
        /\ Settle(o, Idle, {r.id} \cup gone, {r.trip})
        /\ UNCHANGED <<live, next, status>>

\* PUT /api/activities/{id}: the owner's device replaces the geometry and the
\* snapshot by envelopes of what it loaded, or by the plaintext it decrypted.
UpdateFields(o, t, a) ==
    /\ t \in live /\ a \in items[t] \cap DOMAIN rows
    /\ \E cas \in Versions("fields") : Begin(o, "fields", t, a, {}, cas)

WriteFields(o) ==
    LET r == op[o]
        Recoded(p) == [p EXCEPT !.e = ~r.seen.poly.e]
    IN  /\ At(o, "fields", "write")
        /\ r.id \in DOMAIN rows /\ VersionOK(o)
        /\ rows' = [rows EXCEPT ![r.id] =
                      [@ EXCEPT !.poly = Recoded(r.seen.poly),
                                !.orig = IF r.seen.orig = NoTrack THEN @
                                         ELSE Recoded(r.seen.orig)]]
        /\ prep' = Prepared(prep, r.id, Recoded(r.seen.poly))
        /\ Witness(r.id, "fields", Recoded(r.seen.poly), ~r.cas /\ ~r.cur)
        /\ Settle(o, Idle, {r.id}, {r.trip})
        /\ UNCHANGED <<items, live, next, status>>

\* A write that is refused: version moved on, row gone, or its track has
\* changed between plaintext and envelope since the first check.
Refused(o) ==
    /\ op[o].kind \in {"edit", "split", "reset", "fields"}
    /\ ~ /\ op[o].id \in DOMAIN rows
         /\ VersionOK(o)
         /\ op[o].kind \in {"edit", "split"} => EncryptionUnchanged(o)
    /\ Drop(o)
-----------------------------------------------------------------------------
\* Mutant (issue #405): a row another trip holds is not spared.
DeleteAnyLocal(o, t, a) ==
    /\ t \in live /\ a \in DOMAIN rows /\ rows[a].from # "strava"
    /\ Begin(o, "delete", t, a, {}, FALSE)

\* DELETE .../local: a row with no strava_id that no other trip holds.
DeleteLocal(o, t, a) ==
    /\ t \in live /\ a \in DOMAIN rows
    /\ rows[a].from # "strava" /\ a \notin OtherTripsRows(t)
    /\ Begin(o, "delete", t, a, {}, FALSE)

\* Its children are adopted by its parent; afterwards its root is looked at.
WriteDelete(o) ==
    LET r == op[o]
        adopted == {c \in DOMAIN rows \ OtherTripsRows(r.trip) : rows[c].parent = r.id}
    IN  /\ At(o, "delete", "write")
        /\ rows' = [x \in DOMAIN rows \ {r.id} |->
                      IF x \in adopted THEN [rows[x] EXCEPT !.parent = r.seen.parent]
                      ELSE rows[x]]
        /\ prep' = Without(prep, {r.id})
        /\ items' = [items EXCEPT ![r.trip] = @ \ {r.id}]
        /\ Settle(o, IF r.seen.root = 0 THEN Idle
                     ELSE Call("sweep", "read", r.trip, 0, NoRow, {r.seen.root}, FALSE),
                  {r.id} \cup adopted, {r.trip})
        /\ UNCHANGED <<live, next, marred, exposed, status>>

\* DELETE .../items/{index}: the item goes in one commit, and only then is the
\* row looked at.
RemoveItem(o, t, a) ==
    /\ t \in live /\ a \in items[t] /\ Free(o)
    /\ items' = [items EXCEPT ![t] = @ \ {a}]
    /\ Settle(o, Call("sweep", "read", t, 0, NoRow, {a}, FALSE), {}, {t})
    /\ UNCHANGED <<rows, live, prep, next, marred, exposed, status>>

\* DELETE /projects/{name}: the trip and its items, and then the rows it held.
DeleteTrip(o, t) ==
    /\ t \in live /\ Free(o)
    /\ live' = live \ {t}
    /\ items' = [items EXCEPT ![t] = {}]
    /\ Settle(o, IF items[t] = {} THEN Idle
                 ELSE Call("sweep", "read", t, 0, NoRow, items[t], FALSE), {}, {t})
    /\ UNCHANGED <<rows, prep, next, marred, exposed, status>>

\* delete_unreferenced_activities, its reads: the rows given and their
\* ancestors that no item names, but for roots a surviving piece names.  (A
\* root has no root of its own, so one pass settles the loop in the code.)
Doomed(given) ==
    LET up[x \in 0..MaxRows] ==
            {x} \cup (IF x \in DOMAIN rows THEN {rows[x].root} \cup up[rows[x].parent]
                      ELSE {})
        loose == (DOMAIN rows \ Held) \cap UNION {up[x] : x \in given}
    IN  loose \ {rows[x].root : x \in DOMAIN rows \ loose}

ReadUnreferenced(o) ==
    /\ At(o, "sweep", "read")
    /\ Settle(o, IF Doomed(op[o].arg) = {} THEN Idle
                 ELSE [op[o] EXCEPT !.pc = "delete", !.arg = Doomed(op[o].arg)], {}, {})
    /\ UNCHANGED <<tables, status>>

\* Its writes: the doomed rows go, their surviving pieces are adopted by the
\* nearest surviving ancestor, and the trips whose pieces are renumbered advance.
DeleteUnreferenced(o) ==
    LET doomed == op[o].arg \cap DOMAIN rows
        survivor[x \in 0..MaxRows] ==
            IF x \in doomed THEN survivor[rows[x].parent] ELSE x
        kin == {x \in DOMAIN rows \ doomed :
                  \E d \in doomed : rows[d].root # 0 /\ Family(x) = rows[d].root}
    IN  /\ At(o, "sweep", "delete")
        /\ rows' = [x \in DOMAIN rows \ doomed |->
                      [rows[x] EXCEPT !.parent = survivor[@]]]
        /\ prep' = Without(prep, doomed)
        /\ Settle(o, Idle, {x \in DOMAIN rows : x \in doomed \/ rows[x].parent \in doomed},
                  {t \in Trips : items[t] \cap kin # {}})
        /\ UNCHANGED <<items, live, next, marred, exposed, status>>
-----------------------------------------------------------------------------
\* POST .../refresh: refused for an edited row or one not from Strava; the row
\* is marked pending and the job is queued.
RefreshActivity(o, t, a) ==
    /\ t \in live /\ a \in items[t] \cap DOMAIN rows /\ Free(o)
    /\ rows[a].from = "strava" /\ ~rows[a].edited
    /\ pending' = pending \cup {a}
    /\ Settle(o, Call("refresh", "start", t, a, NoRow, {}, FALSE), {}, {})
    /\ UNCHANGED <<tables, stranded>>

\* Mutant: a job that gives up leaves the mark.
LeaveRefreshState(o) ==
    /\ pending' = IF op[o].pc = "mark" THEN pending \ {op[o].id} ELSE pending
    /\ UNCHANGED stranded

\* _set_refresh_state: "resolved" or "failed", in a commit of its own.
SetRefreshState(o) ==
    /\ pending' = pending \ {op[o].id}
    /\ UNCHANGED stranded

\* _enrich_activities_background: the row must be the trip's and unedited when
\* its streams are asked for.
StartEnrich(o) ==
    /\ At(o, "enrich", "start")
    /\ Settle(o, IF /\ op[o].trip \in live /\ op[o].id \in items[op[o].trip]
                    /\ ~rows[op[o].id].edited
                 THEN [op[o] EXCEPT !.pc = "fetch"] ELSE Idle, {}, {})
    /\ UNCHANGED <<tables, status>>

\* _refresh_activity_job: the row and the trip are looked at again.
StartRefresh(o) ==
    /\ At(o, "refresh", "start")
    /\ op[o].id \in DOMAIN rows /\ op[o].trip \in live
    /\ Settle(o, [op[o] EXCEPT !.pc = "fetch"], {}, {})
    /\ UNCHANGED <<tables, status>>

\* It gives up: the row or the trip is gone, the account has left the trip or
\* Strava, or the fetch or anything after it fails.
RefreshFails(o) ==
    /\ op[o].kind = "refresh" /\ op[o].pc \in {"start", "fetch"}
    /\ SetRefreshState(o)
    /\ Settle(o, Idle, {}, {})
    /\ UNCHANGED tables

\* The enrichment skips an activity whose streams cannot be fetched.
EnrichFails(o) ==
    /\ At(o, "enrich", "fetch")
    /\ Drop(o)

\* The streams arrive minutes later; update_activity_enrichment and
\* force_update_activity read the row and leave it alone when it is gone or
\* the trip holds it no more.  Neither looks at is_edited again.
ReadForStrava(o) ==
    LET r == op[o]
        writable == /\ r.id \in DOMAIN rows
                    /\ r.id \in items[r.trip] \/ (r.kind = "refresh" /\ r.trip \notin live)
    IN  /\ r.kind \in {"enrich", "refresh"} /\ r.pc = "fetch"
        /\ Settle(o, IF writable
                     THEN [r EXCEPT !.pc = "store", !.seen = rows[r.id], !.cur = TRUE]
                     ELSE IF r.kind = "refresh" THEN [r EXCEPT !.pc = "mark"] ELSE Idle,
                  {}, {})
        /\ UNCHANGED <<tables, status>>

\* They store the whole track unless the row they READ held an envelope.
StoreFromStrava(o) ==
    LET r == op[o]
        poly == [t |-> Full, e |-> FALSE]
        writes == ~r.seen.poly.e /\ r.id \in DOMAIN rows
        changes == writes /\ poly # r.seen.poly
    IN  /\ r.kind \in {"enrich", "refresh"} /\ r.pc = "store"
        /\ rows' = IF changes THEN [rows EXCEPT ![r.id].poly = poly] ELSE rows
        /\ prep' = IF writes THEN Prepared(prep, r.id, poly) ELSE prep
        /\ IF changes
           THEN Witness(r.id, r.kind, poly, rows[r.id].edited \/ ~r.cur)
           ELSE Witness(r.id, r.kind, [poly EXCEPT !.e = TRUE], writes /\ ~r.cur)
        /\ Settle(o, [r EXCEPT !.pc = IF r.kind = "enrich" THEN "bump" ELSE "mark",
                               !.seen = NoRow],
                  IF changes THEN {r.id} ELSE {},
                  IF r.kind = "enrich" THEN {} ELSE {r.trip})
        /\ UNCHANGED <<items, live, next, status>>

\* The enrichment batch advances the trip's version in a commit of its own.
BumpEnriched(o) ==
    /\ At(o, "enrich", "bump")
    /\ Settle(o, Idle, {}, {op[o].trip})
    /\ UNCHANGED <<tables, status>>

\* The refresh job reports "resolved", whether or not it stored anything.
MarkRefreshed(o) ==
    /\ At(o, "refresh", "mark")
    /\ SetRefreshState(o)
    /\ Settle(o, Idle, {}, {})
    /\ UNCHANGED tables

\* The sweep and the geo endpoints read a polyline that has no prepared row...
ReadUnprepared(o, a) ==
    /\ a \in DOMAIN rows \ DOMAIN prep /\ ~rows[a].poly.e /\ Free(o)
    /\ Settle(o, Call("prepare", "store", 0, a, rows[a], {}, FALSE), {}, {})
    /\ UNCHANGED <<tables, status>>

\* Mutant: the row is still there, whatever its track.
StillRow(o) == op[o].id \in DOMAIN rows

\* ...prepare it outside any transaction, and store what they made only if the
\* polyline is still the one they read (store_prepared_if_unchanged).
StillPolyline(o) ==
    op[o].id \in DOMAIN rows /\ rows[op[o].id].poly = op[o].seen.poly

StorePrepared(o) ==
    /\ At(o, "prepare", "store")
    /\ prep' = IF StillPolyline(o) THEN Prepared(prep, op[o].id, op[o].seen.poly) ELSE prep
    /\ Settle(o, Idle, {}, {})
    /\ UNCHANGED <<rows, items, live, next, marred, exposed, status>>

\* The process dies: requests and background tasks are lost where they stand.
Crash ==
    /\ \E o \in Ops : op[o] # Idle
    /\ op' = [o \in Ops |-> Idle]
    /\ stranded' = stranded \cup pending
    /\ UNCHANGED <<tables, pending, calls>>
-----------------------------------------------------------------------------
\* One trip holds one activity, from Strava or a file, encrypted or not, and
\* with or without prepared geometry.
Init ==
    \E t \in Trips, from \in {"strava", "gpx"}, e \in BOOLEAN, legacy \in BOOLEAN :
        /\ rows = 1 :> [NewRow(from) EXCEPT !.poly.e = e]
        /\ items = [u \in Trips |-> IF u = t THEN {1} ELSE {}]
        /\ legacy => from = "strava" /\ ~e
        /\ prep = IF e \/ legacy THEN <<>> ELSE 1 :> Full
        /\ live = Trips
        /\ next = 2
        /\ op = [o \in Ops |-> Idle]
        /\ calls = 0
        /\ pending = {} /\ stranded = {}
        /\ marred = {} /\ exposed = {}

Next ==
    \/ Crash
    \/ \E o \in Ops :
         \/ WriteEdit(o) \/ WriteSplit(o) \/ WriteReset(o) \/ WriteFields(o)
         \/ Refused(o) \/ WriteDelete(o)
         \/ ReadUnreferenced(o) \/ DeleteUnreferenced(o)
         \/ WriteImport(o) \/ DropImport(o)
         \/ StartEnrich(o) \/ StartRefresh(o) \/ RefreshFails(o) \/ EnrichFails(o)
         \/ ReadForStrava(o) \/ StoreFromStrava(o)
         \/ BumpEnriched(o) \/ MarkRefreshed(o) \/ StorePrepared(o)
         \/ \E a \in Ids : ReadUnprepared(o, a)
         \/ \E t \in Trips :
              \/ AddActivities(t, o) \/ SyncStrava(t, o) \/ ImportGpxTracks(t, o)
              \/ ImportGpx(o, t) \/ DeleteTrip(o, t)
              \/ \E a \in Ids :
                   \/ EditTrack(o, t, a) \/ SplitActivity(o, t, a) \/ ResetTrack(o, t, a)
                   \/ UpdateFields(o, t, a) \/ DeleteLocal(o, t, a) \/ RemoveItem(o, t, a)
                   \/ RefreshActivity(o, t, a)

Spec == Init /\ [][Next]_vars
-----------------------------------------------------------------------------
\* The tables hold what the columns can.
TypeOK ==
    /\ DOMAIN rows \subseteq Ids /\ \A a \in DOMAIN rows : rows[a] \in Rows
    /\ items \in [Trips -> SUBSET Ids] /\ live \subseteq Trips
    /\ DOMAIN prep \subseteq Ids /\ \A a \in DOMAIN prep : prep[a] \in Spans
    /\ next \in 1..(MaxRows + 1)
    /\ marred \subseteq Ids /\ pending \subseteq Ids

\* A trip never shows the same stretch of a split activity twice: no reset,
\* split, edit or deletion lays a piece over another that is still in the
\* timeline (reset_activity_track removes what was cut out of the row, and a
\* deleted piece hands its children to its parent, issues #141 and #143).
PiecesApart ==
    \A t \in Trips : \A a, b \in items[t] \cap DOMAIN rows :
        (a # b /\ Family(a) = Family(b) /\ Family(a) \notin marred)
        => rows[a].poly.t \cap rows[b].poly.t = {}

\* Every activity item names a row, and no row is in two trips: removing or
\* deleting from one trip leaves the other's timeline whole (#405, #592).
ItemsOwnRows ==
    /\ Held \subseteq DOMAIN rows
    /\ \A t, u \in Trips : t # u => items[t] \cap items[u] = {}

\* The prepared geometry served for a row is that of its stored track, and an
\* encrypted track has none, although it is prepared outside any transaction.
PreparedIsCurrent ==
    \A a \in (DOMAIN prep \cap DOMAIN rows) \ marred :
        ~rows[a].poly.e /\ prep[a] = rows[a].poly.t

\* "Reset to Strava" brings back the whole recorded track however often the
\* row was edited and split: the snapshot is taken on the first edit only, and
\* covers what the row shows now.
ResetRecovers ==
    \A a \in DOMAIN rows \ marred :
        /\ rows[a].edited => rows[a].poly.t \subseteq rows[a].orig.t
        /\ rows[a].edited /\ rows[a].from # "split" => rows[a].orig.t = Full

\* The track routes re-read the row under the write lock, so an edit, a split
\* or a checked reset never puts plaintext over a track that was encrypted
\* while the request was under way.
EditsKeepCiphertext == exposed \subseteq {"fields", "enrich", "refresh"}

\* No tile spins for ever: a row marked pending has a refresh under way that
\* will mark it resolved or failed (_refresh_activity_job: every exit path
\* writes a verdict), unless the process died with it.
PendingHasRefresh ==
    \A a \in (pending \cap DOMAIN rows) \ stranded :
        \E o \in Ops : op[o].kind = "refresh" /\ op[o].id = a
=============================================================================
