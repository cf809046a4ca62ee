------------------------------ MODULE Transfer ------------------------------
(***************************************************************************)
(* Importing trips into one account, beside the edits it meets.            *)
(*                                                                         *)
(*   api/project_transfer.py         the routes, the guard, staging        *)
(*   src/project/repo_transfer.py    import_project, replace_project       *)
(*   src/project/zip_import.py       reading an archive                    *)
(*   src/project/photo_placement.py  moving staged photos into place       *)
(*                                                                         *)
(* Trip names are numbers: 1 is the plain name and n > 1 its "(n)" copies. *)
(* A file maps the public ids of its memories to the photos it lists.  A   *)
(* row is a memory, or a companion's journal entry when it is not the      *)
(* owner's.  Row ids are never reused, so the folder of a row that is gone *)
(* is left out of `disk'.                                                  *)
(* The unique index on public_id is left out, so that UniquePublicId shows *)
(* the ids an import picks never need it.                                  *)
(***************************************************************************)
EXTENDS Integers, FiniteSets, FiniteSetsExt

CONSTANTS
    Reqs,        \* import requests
    Names,       \* trip names: 1..n
    FileNames,   \* the names files come under
    RowIds,      \* ids handed out to rows, never reused: 1..n
    PublicIds,   \* public ids a file may name
    Photos,      \* photo uuids a file may name
    Uploads,     \* photo uuids an upload draws, each once
    MaxTrips,    \* the plan's number of trips
    Attempts,    \* _ATTEMPTS
    MaxTripIds,  \* bound: trips ever made
    None

VARIABLES
    trips,     \* name -> trip id, or None
    lastTrip,  \* the newest trip id
    lastRow,   \* the newest row id
    rows,      \* row id -> its row, or None
    disk,      \* <<row id, photo>> of every photo stored for a row
    staging,   \* request -> its staged <<public id, photo>>, or None
    guard,     \* _import_guard's holder, or None
    req,       \* the requests
    edit,      \* one upload or removal of a photo under way
    drawn,     \* uploads drawn so far
    lost,      \* history: photos a crash kept from being placed
    raced      \* history: rows a replace wrote under a photo edit's feet

vars == <<trips, lastTrip, lastRow, rows, disk, staging, guard, req, edit, drawn,
          lost, raced>>

Files == {f \in [PublicIds -> {None} \cup {{x} : x \in Photos} \cup {Photos \cup Uploads}] :
            \E p \in PublicIds : f[p] # None}
Idle == [pc |-> "idle", name |-> None, file |-> None, zip |-> FALSE, how |-> None,
         target |-> None, tries |-> 0, removals |-> {}, toPlace |-> {}, failed |-> {}]
NoEdit == [pc |-> "idle", row |-> None, photo |-> None, list |-> {}]


Held == {n \in Names : trips[n] # None}
Of(t) == {i \in RowIds : rows[i] # None /\ rows[i].trip = t}
LiveOnly(S) == {x \in S : rows[x[1]] # None}
Goes(r, pc) == req' = [req EXCEPT ![r].pc = pc]

\* The end of every import route: the staging directory goes, then the guard.
Ends(r) ==
    /\ req' = [req EXCEPT ![r] = Idle]
    /\ staging' = [staging EXCEPT ![r] = None]
    /\ guard' = IF guard = r THEN None ELSE guard
-----------------------------------------------------------------------------
\* An authenticated request.  Its file may list photos of earlier exports.
Ask(r, name, file, zip, how) ==
    /\ req[r] = Idle
    /\ \A p \in PublicIds : file[p] # None => file[p] \cap Uploads \subseteq drawn \ {edit.photo}
    /\ req' = [req EXCEPT ![r] = [Idle EXCEPT !.pc = "ask", !.name = name, !.file = file,
                                              !.zip = zip, !.how = how]]
    /\ UNCHANGED <<trips, lastTrip, lastRow, rows, disk, staging, guard, edit, drawn,
                   lost, raced>>

\* _CappedUploadRoute: 413 or 503 before the body, else the guard is taken.
Enter(r) ==
    /\ req[r].pc = "ask"
    /\ \/ req' = [req EXCEPT ![r] = Idle] /\ UNCHANGED guard
       \/ guard = None /\ guard' = r /\ Goes(r, "body")
    /\ UNCHANGED <<trips, lastTrip, lastRow, rows, disk, staging, edit, drawn, lost, raced>>

\* The body arrives; or is cut off (408, 413), or is no such file (400).
Receive(r) ==
    /\ req[r].pc = "body"
    /\ \/ Goes(r, IF req[r].zip THEN "settle" ELSE "look") /\ UNCHANGED <<staging, guard>>
       \/ Ends(r)
    /\ UNCHANGED <<trips, lastTrip, lastRow, rows, disk, edit, drawn, lost, raced>>

\* ensure_project_quota
TripsFull == Cardinality(Held) >= MaxTrips

\* import_project_zip settles the name and the quota before reading.
Settle(r) ==
    LET taken == req[r].name \in Held
        refused == \/ taken /\ req[r].how = None
                   \/ ~(taken /\ req[r].how = "replace") /\ TripsFull
    IN  /\ req[r].pc = "settle"
        /\ IF refused THEN Ends(r) ELSE Goes(r, "stage") /\ UNCHANGED <<staging, guard>>
        /\ UNCHANGED <<trips, lastTrip, lastRow, rows, disk, edit, drawn, lost, raced>>

\* _photo_lists and _stage: the listed photos the archive holds.
Listed(file) == {memory \in PublicIds \X (Photos \cup Uploads) :
                   file[memory[1]] # None /\ memory[2] \in file[memory[1]]}

\* _new_staging_dir, and read_trip_zip stages the photos; an invalid archive
\* leaves nothing.
Stage(r) ==
    /\ req[r].pc = "stage"
    /\ \/ \E carried \in {{}, Listed(req[r].file)} :
            /\ staging' = [staging EXCEPT ![r] = carried]
            /\ Goes(r, "look") /\ UNCHANGED guard
       \/ Ends(r)
    /\ UNCHANGED <<trips, lastTrip, lastRow, rows, disk, edit, drawn, lost, raced>>

\* copy_name: the name, or its first free copy.
CopyName(name, taken) ==
    IF name \notin taken THEN name
    ELSE IF Names \ (taken \cup {1}) = {} THEN None ELSE Min(Names \ (taken \cup {1}))

\* Mutant: a taken name is replaced whatever was asked.
ReplacesTaken(r) == req[r].name \in Held

Replaces(r) == req[r].how = "replace" /\ req[r].name \in Held

OnDisk(i) == {u \in Photos \cup Uploads : <<i, u>> \in disk}

\* already_present: the photos a replace finds in place.
AlreadyPresent(r) ==
    {x \in PublicIds \X (Photos \cup Uploads) : Replaces(r) /\
       \E i \in Of(trips[req[r].name]) : rows[i].own /\ rows[i].pid = x[1] /\ x[2] \in OnDisk(i)}

\* _ensure_room: only an import that adds photos can be refused for storage.
AddsPhotos(r) == staging[r] # None /\ staging[r] \ AlreadyPresent(r) # {}

\* The names are read: 409, the quotas, a replace, or a new trip.
Look(r) ==
    LET target == IF req[r].how = "copy" THEN CopyName(req[r].name, Held) ELSE req[r].name
    IN  /\ req[r].pc = "look"
        /\ target # None                       \* bound: copies
        /\ \/ /\ Replaces(r)
              /\ Goes(r, "replace") /\ UNCHANGED <<staging, guard>>
           \/ /\ ~Replaces(r) /\ target \notin Held /\ (req[r].tries = 0 => ~TripsFull)
              /\ req' = [req EXCEPT ![r].pc = "new", ![r].target = target]
              /\ UNCHANGED <<staging, guard>>
           \/ /\ \/ ~Replaces(r) /\ (target \in Held \/ TripsFull)
                 \/ AddsPhotos(r)
              /\ Ends(r)
        /\ UNCHANGED <<trips, lastTrip, lastRow, rows, disk, edit, drawn, lost, raced>>
-----------------------------------------------------------------------------
\* The rows the file still names, by public id; a companion's always stay.
Kept(t, file) ==
    {i \in Of(t) : ~rows[i].own \/ (rows[i].pid \in PublicIds /\ file[rows[i].pid] # None)}

\* _staged_for
StagedFor(r, p) == {u \in Photos \cup Uploads : staging[r] # None /\ <<p, u>> \in staging[r]}

\* Mutant: the file's list is stored as it is.
StoredPhotosListed(r, p, onDisk) == req[r].file[p]

\* _stored_photos: the listed photos that have a file.
StoredPhotos(r, p, onDisk) ==
    req[r].file[p] \cap (onDisk \cup StagedFor(r, p))

\* Mutant: a public id is taken over from the file without looking.
NewIdUnchecked(p, i, keeping) == p

\* A new memory keeps its public id unless another memory holds it: uuid4,
\* here the row's own number.
NewId(p, i, keeping) ==
    IF \E j \in keeping : rows[j] # None /\ rows[j].pid = p THEN i ELSE p

\* _write_content: kept rows are updated, the others of the file made new.
\* `match' gives each public id of the file its row.
Write(r, t, match, gone) ==
    LET file == req[r].file
        named == {p \in PublicIds : file[p] # None}
        rowOf(i) == CHOOSE p \in named : match[p] = i
        new == {match[p] : p \in named} \ {i \in RowIds : rows[i] # None}
        onDisk(i) == IF i \in new THEN {} ELSE OnDisk(i)
        written == {match[p] : p \in named}
    IN  /\ rows' = [i \in RowIds |->
                      IF i \in gone THEN None
                      ELSE IF i \notin written THEN rows[i]
                      ELSE [trip |-> t, own |-> TRUE,
                            pid |-> IF i \in new THEN NewId(rowOf(i), i, RowIds \ gone)
                                    ELSE rows[i].pid,
                            photos |-> StoredPhotos(r, rowOf(i), onDisk(i))]]
        /\ lastRow' = lastRow + Cardinality(new)
        /\ req' = [req EXCEPT ![r] = [Idle EXCEPT
             !.pc = "remove",
             !.removals = {photo \in RowIds \X (Photos \cup Uploads) :
                 LET i == photo[1]
                     u == photo[2]
                 IN  /\ rows[i] # None /\ u \in rows[i].photos
                     /\ i \in written \ new /\ u \notin file[rowOf(i)]},
             !.toPlace = {photo \in written \X (Photos \cup Uploads) :
                 LET i == photo[1]
                     u == photo[2]
                 IN  /\ u \in StoredPhotos(r, rowOf(i), onDisk(i)) \ onDisk(i)
                     /\ u \in StagedFor(r, rowOf(i))}]]

\* Injective matches: a kept row for its own public id, new ids in order.
Matches(file, kept) ==
    LET named == {p \in PublicIds : file[p] # None}
        fresh == {p \in named : ~\E i \in kept : rows[i].own /\ rows[i].pid = p}
        ids == (lastRow + 1)..(lastRow + Cardinality(fresh))
    IN  {m \in [named -> RowIds] :
           /\ \A p \in named \ fresh : m[p] \in kept /\ rows[m[p]].pid = p
           /\ {m[p] : p \in fresh} = ids}

\* A replace whose trip is gone goes on as a plain import.
NoReplace(how) == IF how = "replace" THEN None ELSE how

\* ingest_project: the insert fails when the name went meanwhile, and the
\* import looks again; a refused length (402) rolls everything back.
WriteNew(r) ==
    /\ req[r].pc = "new"
    /\ \/ /\ req[r].target \in Held
          /\ IF req[r].tries + 1 = Attempts THEN Ends(r)
             ELSE /\ req' = [req EXCEPT ![r].pc = "look", ![r].tries = @ + 1,
                                      ![r].how = NoReplace(@)]
                  /\ UNCHANGED <<staging, guard>>
          /\ UNCHANGED <<trips, lastTrip, lastRow, rows, raced>>
       \/ /\ req[r].target \notin Held /\ lastTrip < MaxTripIds
          /\ trips' = [trips EXCEPT ![req[r].target] = lastTrip + 1]
          /\ lastTrip' = lastTrip + 1
          /\ \E m \in Matches(req[r].file, {}) : Write(r, lastTrip + 1, m, {})
          /\ UNCHANGED <<staging, guard, raced>>
       \/ Ends(r) /\ UNCHANGED <<trips, lastTrip, lastRow, rows, raced>>
    /\ UNCHANGED <<disk, edit, drawn, lost>>

\* replace_project: one transaction.  A trip that went meanwhile is imported
\* as a new one.
Replace(r) ==
    /\ req[r].pc = "replace"
    /\ LET t == trips[req[r].name]
           kept == Kept(t, req[r].file)
       IN  IF t = None
           THEN /\ req' = [req EXCEPT ![r].pc = "look", ![r].how = NoReplace(@)]
                /\ UNCHANGED <<lastRow, rows, disk, lost, raced, staging, guard>>
           ELSE \/ /\ \E m \in Matches(req[r].file, kept) : Write(r, t, m, Of(t) \ kept)
                   /\ raced' = (IF edit.pc = "write" THEN raced \cup {edit.row} ELSE raced)
                               \ (Of(t) \ kept)
                   /\ disk' = {x \in disk : x[1] \notin Of(t) \ kept}
                   /\ lost' = {x \in lost : x[1] \notin Of(t) \ kept}
                   /\ UNCHANGED <<staging, guard>>
                \/ Ends(r) /\ UNCHANGED <<lastRow, rows, disk, lost, raced>>
    /\ UNCHANGED <<trips, lastTrip, edit, drawn>>

\* _remove_photos, after the commit and before anything is placed.
RemovePhotos(r) ==
    /\ req[r].pc = "remove"
    /\ disk' = disk \ req[r].removals
    /\ req' = [req EXCEPT ![r].pc = "place", ![r].removals = {}]
    /\ UNCHANGED <<trips, lastTrip, lastRow, rows, staging, guard, edit, drawn, lost, raced>>

\* place_photos: one photo, which may fail before its full file is in place
\* or at its thumbnail.
Place(r) ==
    /\ req[r].pc = "place"
    /\ \E x \in req[r].toPlace :
         \/ /\ disk' = disk \cup LiveOnly({x})
            /\ req' = [req EXCEPT ![r].toPlace = @ \ {x}]
         \/ /\ disk' \in {disk, disk \cup LiveOnly({x})}
            /\ req' = [req EXCEPT ![r].toPlace = @ \ {x}, ![r].failed = @ \cup {x}]
    /\ UNCHANGED <<trips, lastTrip, lastRow, rows, staging, guard, edit, drawn, lost, raced>>

\* _drop_unplaced, under the row's photo lock.
DropUnplaced(r) ==
    /\ req[r].pc = "place" /\ req[r].toPlace = {}
    /\ \E x \in req[r].failed :
         /\ ~(edit.pc = "write" /\ edit.row = x[1])
         /\ rows' = IF rows[x[1]] = None THEN rows
                    ELSE [rows EXCEPT ![x[1]].photos = @ \ {x[2]}]
         /\ req' = [req EXCEPT ![r].failed = @ \ {x}]
    /\ UNCHANGED <<trips, lastTrip, lastRow, disk, staging, guard, edit, drawn, lost, raced>>

\* The staging directory is removed, the caches of the name dropped, and the
\* answer sent.
Finish(r) ==
    /\ req[r].pc = "place" /\ req[r].toPlace = {} /\ req[r].failed = {}
    /\ Ends(r)
    /\ UNCHANGED <<trips, lastTrip, lastRow, rows, disk, edit, drawn, lost, raced>>
-----------------------------------------------------------------------------
\* Another request makes a trip of the name, or deletes one.
CreateTrip(n) ==
    /\ n \notin Held /\ ~TripsFull /\ lastTrip < MaxTripIds
    /\ trips' = [trips EXCEPT ![n] = lastTrip + 1]
    /\ lastTrip' = lastTrip + 1
    /\ UNCHANGED <<lastRow, rows, disk, staging, guard, req, edit, drawn, lost, raced>>

DeleteTrip(n) ==
    /\ n \in Held
    /\ trips' = [trips EXCEPT ![n] = None]
    /\ rows' = [i \in RowIds |-> IF i \in Of(trips[n]) THEN None ELSE rows[i]]
    /\ disk' = {x \in disk : x[1] \notin Of(trips[n])}
    /\ lost' = {x \in lost : x[1] \notin Of(trips[n])}
    /\ raced' = raced \ Of(trips[n])
    /\ UNCHANGED <<lastTrip, lastRow, staging, guard, req, edit, drawn>>

\* A companion writes a journal entry of their own.
CompanionWrites(n) ==
    /\ n \in Held /\ lastRow + 1 \in RowIds
    /\ rows' = [rows EXCEPT ![lastRow + 1] = [trip |-> trips[n], own |-> FALSE,
                                              pid |-> lastRow + 1, photos |-> {}]]
    /\ lastRow' = lastRow + 1
    /\ UNCHANGED <<trips, lastTrip, disk, staging, guard, req, edit, drawn, lost, raced>>

\* upload_photo: the files first, then under the photo lock the list is read
\* and written.
UploadFiles(i, u) ==
    /\ edit = NoEdit /\ rows[i] # None /\ rows[i].own /\ u \in Uploads \ drawn
    /\ disk' = disk \cup {<<i, u>>}
    /\ drawn' = drawn \cup {u}
    /\ edit' = [NoEdit EXCEPT !.pc = "file", !.row = i, !.photo = u]
    /\ UNCHANGED <<trips, lastTrip, lastRow, rows, staging, guard, req, lost, raced>>

ReadList ==
    /\ edit.pc = "file"
    /\ edit' = IF rows[edit.row] = None THEN NoEdit     \* 404, the files go
               ELSE [edit EXCEPT !.pc = "write", !.list = rows[edit.row].photos \cup {edit.photo}]
    /\ UNCHANGED <<trips, lastTrip, lastRow, rows, disk, staging, guard, req, drawn, lost,
                   raced>>

\* delete_photo: the list is read and the files go.
DeletePhoto(i, u) ==
    /\ edit = NoEdit /\ rows[i] # None /\ u \in rows[i].photos
    /\ disk' = disk \ {<<i, u>>}
    /\ edit' = [NoEdit EXCEPT !.pc = "write", !.row = i, !.list = rows[i].photos \ {u}]
    /\ UNCHANGED <<trips, lastTrip, lastRow, rows, staging, guard, req, drawn, lost, raced>>

WriteList ==
    /\ edit.pc = "write"
    /\ rows' = IF rows[edit.row] = None THEN rows
               ELSE [rows EXCEPT ![edit.row].photos = edit.list]
    /\ edit' = NoEdit
    /\ UNCHANGED <<trips, lastTrip, lastRow, disk, staging, guard, req, drawn, lost, raced>>

\* The process dies.  Its staging directory stays until an import sweeps it,
\* a day later, and is never read again.
Crash ==
    /\ \E r \in Reqs : req[r].pc \notin {"idle", "ask"}
    /\ lost' = lost \cup LiveOnly(UNION {req[r].toPlace \cup req[r].failed : r \in Reqs})
    /\ raced' = IF edit.pc = "write" THEN raced \cup {edit.row} ELSE raced
    /\ req' = [r \in Reqs |-> Idle]
    /\ staging' = [r \in Reqs |-> None]
    /\ guard' = None
    /\ edit' = NoEdit
    /\ UNCHANGED <<trips, lastTrip, lastRow, rows, disk, drawn>>

Init ==
    /\ trips = [n \in Names |-> None] /\ lastTrip = 0
    /\ rows = [i \in RowIds |-> None] /\ lastRow = 0
    /\ disk = {} /\ staging = [r \in Reqs |-> None]
    /\ guard = None /\ req = [r \in Reqs |-> Idle]
    /\ edit = NoEdit /\ drawn = {} /\ lost = {} /\ raced = {}

Next ==
    \/ \E r \in Reqs :
         \/ \E n \in FileNames, f \in Files, z \in BOOLEAN, how \in {None, "copy", "replace"} :
              Ask(r, n, f, z, how)
         \/ Enter(r) \/ Receive(r) \/ Settle(r) \/ Stage(r) \/ Look(r)
         \/ WriteNew(r) \/ Replace(r) \/ RemovePhotos(r) \/ Place(r) \/ DropUnplaced(r)
         \/ Finish(r)
    \/ \E n \in Names : CreateTrip(n) \/ DeleteTrip(n) \/ CompanionWrites(n)
    \/ \E i \in RowIds, u \in Photos \cup Uploads : UploadFiles(i, u) \/ DeletePhoto(i, u)
    \/ ReadList \/ WriteList
    \/ Crash

Spec == Init /\ [][Next]_vars
-----------------------------------------------------------------------------
TypeOK ==
    /\ trips \in [Names -> {None} \cup 1..MaxTripIds] /\ lastTrip \in 0..MaxTripIds
    /\ lastRow \in 0..Cardinality(RowIds)
    /\ \A i \in RowIds : rows[i] # None =>
         /\ rows[i].trip \in 1..lastTrip /\ rows[i].own \in BOOLEAN
         /\ rows[i].pid \in PublicIds \cup RowIds
         /\ rows[i].photos \subseteq Photos \cup Uploads
    /\ disk \subseteq RowIds \X (Photos \cup Uploads)
    /\ \A r \in Reqs : staging[r] # None => staging[r] \subseteq PublicIds \X (Photos \cup Uploads)
    /\ drawn \subseteq Uploads
    /\ guard \in Reqs \cup {None}
    \* The guard is held exactly by the import whose handler is running.
    /\ \A r \in Reqs : guard = r <=> req[r].pc \notin {"idle", "ask"}

\* Every photo a row names is stored, or will be by the import that wrote the
\* row; a crash before placement, or a replace meeting a photo edit of the
\* same row, is the only way a name is left without its file.
NamedIsStored ==
    \A i \in RowIds : rows[i] # None => \A u \in rows[i].photos :
        \/ <<i, u>> \in disk \cup lost
        \/ i \in raced
        \/ \E r \in Reqs : <<i, u>> \in req[r].toPlace \cup req[r].failed
        \/ edit.pc = "write" /\ edit.row = i

\* A deep link addresses one memory: no import, copy or replace ever gives a
\* public id another memory holds.
UniquePublicId ==
    \A i, j \in RowIds : rows[i] # None /\ rows[j] # None /\ rows[i].pid = rows[j].pid => i = j

\* A row of an existing trip is changed or dropped by an import only when a
\* replace of that trip was asked for; the memories the file still names keep
\* their row and public id, and a companion's entry is never touched.
KeepsRows ==
    \A r \in Reqs, i \in RowIds :
      /\ req[r].pc \in {"new", "replace"} /\ req'[r].pc = "remove"
      /\ rows[i] # None /\ rows'[i] # rows[i]
      => /\ req[r].how = "replace" /\ rows[i].trip = trips[req[r].name] /\ rows[i].own
         /\ IF rows[i].pid \in PublicIds /\ req[r].file[rows[i].pid] # None
            THEN rows'[i] # None /\ rows'[i].pid = rows[i].pid
            ELSE rows'[i] = None
ReplaceKeeps == [][KeepsRows]_vars
=============================================================================
