------------------------------- MODULE Photos -------------------------------
(***************************************************************************)
(* The photos of one memory or journal entry: the ordered list on its row, *)
(* the files on disk, the copies made for sharing, and the owner's storage *)
(* counter.                                                                *)
(*                                                                         *)
(*   api/memories.py, api/journal.py   uploads, downloads, deletes         *)
(*   api/photo_order.py                ranks, hashes and the epoch         *)
(*   api/photo_locks.py                one lock per row                    *)
(*   src/billing/usage.py              the counter                         *)
(*   src/utils/photo_privacy.py        the copy without metadata           *)
(*                                                                         *)
(* A photo is its two files and counts one.  A request holds the row's     *)
(* lock from the step that reads the row to the step that writes it; files *)
(* are written before it is taken.                                         *)
(***************************************************************************)
EXTENDS Integers, Sequences, SequencesExt, FiniteSets

CONSTANTS
    Reqs,        \* requests and background downloads under way
    PhotoIds,    \* photo uuids, in the order they are drawn: 1..n
    Contents,    \* contents of downloaded photos (their sha256)
    Ranks,       \* the ranks an import gives
    Quota,       \* the plan's storage, in photos
    MaxEpoch,    \* bound: re-imports
    None

VARIABLES
    kind,      \* "memory" or "journal"
    row,       \* the row: whether it exists, its list, epoch, ranks, hashes
    files,     \* photos on disk
    copies,    \* share copies on disk
    counted,   \* UserUsage.storage_bytes
    lock,      \* photo_lock's holder
    req,       \* per slot, a request
    drawn,     \* uuids drawn so far
    born,      \* history: per photo, the epoch its download was queued under
    drifted    \* history: the counter was knowingly left wrong

vars == <<kind, row, files, copies, counted, lock, req, drawn, born, drifted>>

Idle == [pc |-> "idle", op |-> "none", photo |-> None, old |-> None, rank |-> None,
         hash |-> None, epoch |-> None, seen |-> None, doomed |-> {}, sized |-> 0]
NoRow == [exists |-> FALSE, list |-> <<>>, epoch |-> 0,
          rank |-> [p \in PhotoIds |-> None], hash |-> [p \in PhotoIds |-> None]]

Listed(w) == Range(w.list)
Uncounted == {req[r].photo : r \in {x \in Reqs : req[x].pc = "count"}}
Goes(r, pc) == req' = [req EXCEPT ![r].pc = pc]
Ends(r) == req' = [req EXCEPT ![r] = Idle]
-----------------------------------------------------------------------------
\* Mutant: the rank is used as the list index.
PlaceAtIndex(w, rank) ==
    IF rank = None \/ rank > Len(w.list) THEN Len(w.list) + 1 ELSE rank + 1

\* photo_order.place: before the first photo of a greater rank or of none.
PlaceAt(w, rank) ==
    IF rank = None THEN Len(w.list) + 1
    ELSE CHOOSE i \in 1..(Len(w.list) + 1) :
           /\ \A j \in 1..(i - 1) : w.rank[w.list[j]] # None /\ w.rank[w.list[j]] <= rank
           /\ i <= Len(w.list) => w.rank[w.list[i]] = None \/ w.rank[w.list[i]] > rank

Placed(w, p, rank, hash) ==
    [w EXCEPT !.list = InsertAt(@, PlaceAt(w, rank), p), !.rank[p] = rank, !.hash[p] = hash]

Removed(w, p) ==
    [w EXCEPT !.list = Remove(@, p), !.rank[p] = None, !.hash[p] = None]

\* photo_order.replace: the new photo takes the place, rank and hash.
Replaced(w, old, new) ==
    [w EXCEPT !.list = [i \in 1..Len(@) |-> IF @[i] = old THEN new ELSE @[i]],
              !.rank[new] = w.rank[old], !.rank[old] = None,
              !.hash[new] = w.hash[old], !.hash[old] = None]

Cleared(w) ==
    [w EXCEPT !.list = <<>>, !.epoch = @ + 1,
              !.rank = [p \in PhotoIds |-> None], !.hash = [p \in PhotoIds |-> None]]

HasHash(w, hash) == \E p \in Listed(w) : w.hash[p] = hash
-----------------------------------------------------------------------------
\* upload_photo
AskUpload(r) ==
    /\ req[r] = Idle /\ row.exists
    /\ req' = [req EXCEPT ![r] = [Idle EXCEPT !.pc = "quota", !.op = "place"]]
    /\ UNCHANGED <<kind, row, files, copies, counted, lock, drawn, born, drifted>>

\* queue_photo_from_url: the download carries the epoch of now.
AskDownload(r, rank, hash) ==
    /\ req[r] = Idle /\ row.exists
    /\ req' = [req EXCEPT ![r] = [Idle EXCEPT !.pc = "fetch", !.op = "place", !.rank = rank,
                                              !.hash = hash, !.epoch = row.epoch]]
    /\ UNCHANGED <<kind, row, files, copies, counted, lock, drawn, born, drifted>>

\* replace_photo
AskReplace(r, old) ==
    /\ req[r] = Idle /\ row.exists /\ old \in Listed(row)
    /\ req' = [req EXCEPT ![r] = [Idle EXCEPT !.pc = "quota", !.op = "replace", !.old = old]]
    /\ UNCHANGED <<kind, row, files, copies, counted, lock, drawn, born, drifted>>

\* delete_photo, delete_memory / delete_journal, and the re-import that adopts
\* a memory (_adopt_and_refresh).
AskUnder(r, op, p) ==
    /\ req[r] = Idle /\ row.exists
    /\ op = "delete" <=> p # None
    /\ op = "adopt" => kind = "memory" /\ row.epoch < MaxEpoch
    /\ req' = [req EXCEPT ![r] = [Idle EXCEPT !.pc = "want", !.op = op, !.photo = p]]
    /\ UNCHANGED <<kind, row, files, copies, counted, lock, drawn, born, drifted>>

\* _download_photo_from_url: the fetch fails, the memory has the photo
\* already, or the download goes on.
Fetch(r) ==
    /\ req[r].pc = "fetch"
    /\ \/ Ends(r)
       \/ /\ ~(kind = "memory" /\ HasHash(row, req[r].hash))
          /\ Goes(r, "quota")
    /\ UNCHANGED <<kind, row, files, copies, counted, lock, drawn, born, drifted>>

\* ensure_storage_quota
CheckQuota(r) ==
    /\ req[r].pc = "quota"
    /\ IF counted + 1 > Quota THEN Ends(r) ELSE Goes(r, "save")
    /\ UNCHANGED <<kind, row, files, copies, counted, lock, drawn, born, drifted>>

\* write_photo_files refuses what is no image before it writes anything.  A
\* photo written while a memory's folder is being removed may go with it.
Save(r) ==
    /\ req[r].pc = "save"
    /\ \/ /\ Ends(r)
          /\ UNCHANGED <<files, drawn, born, drifted>>
       \/ /\ drawn < Cardinality(PhotoIds)
          /\ drawn' = drawn + 1
          /\ files' = files \cup {drawn'}
          /\ born' = [born EXCEPT ![drawn'] = req[r].epoch]
          /\ req' = [req EXCEPT ![r].pc = "count", ![r].photo = drawn']
          /\ drifted' = (drifted \/ (kind = "memory" /\ \E x \in Reqs :
                                       req[x].pc = "apply" /\ req[x].op = "drop"))
    /\ UNCHANGED <<kind, row, copies, counted, lock>>

\* record_written sizes what is there when it counts.
Count(r) ==
    /\ req[r].pc = "count"
    /\ counted' = counted + (IF req[r].photo \in files THEN 1 ELSE 0)
    /\ Goes(r, "want")
    /\ UNCHANGED <<kind, row, files, copies, lock, drawn, born, drifted>>
-----------------------------------------------------------------------------
\* _write_journal_photo: the entry is gone, or the download is of an epoch
\* that is over.
JournalRefused(r, w) == ~w.exists \/ (req[r].epoch # None /\ req[r].epoch # w.epoch)

\* Mutant: the download's first look at the hashes is the only one.
MemoryRefusedAnyHash(r, w) == JournalRefused(r, w)

\* _write_memory_photo: also a content the memory has.
MemoryRefused(r, w) ==
    JournalRefused(r, w) \/ (req[r].hash # None /\ HasHash(w, req[r].hash))

Refused(r, w) == IF kind = "memory" THEN MemoryRefused(r, w) ELSE JournalRefused(r, w)

\* delete_journal takes the listed photos.
JournalSwept(w) == Listed(w)

\* delete_memory also takes what is on disk and not listed yet.  The mutant
\* is JournalSwept.
MemorySwept(w) == Listed(w) \cup files

Swept(w) == IF kind = "memory" THEN MemorySwept(w) ELSE JournalSwept(w)

\* The photos the request removes, with the row it read under the lock.
Doomed(r, w) ==
    CASE req[r].op = "place"   -> IF Refused(r, w) THEN {req[r].photo} ELSE {}
      [] req[r].op = "replace" -> {IF req[r].old \in Listed(w) THEN req[r].old
                                   ELSE req[r].photo}
      [] req[r].op = "delete"  -> {req[r].photo} \cap Listed(w)
      [] req[r].op = "adopt"   -> Listed(w)
      [] req[r].op = "drop"    -> Swept(w)

\* Mutant: no lock is taken.
NeverHeld == TRUE

\* photo_lock
Free == lock = None

\* The lock is taken, the row read, and the files to go are sized
\* (unlink_and_record, bytes_of).
Take(r) ==
    /\ req[r].pc = "want" /\ Free
    /\ lock' = r
    /\ req' = [req EXCEPT ![r].pc = "apply", ![r].seen = row, ![r].doomed = Doomed(r, row),
                          ![r].sized = Cardinality(Doomed(r, row) \cap files)]
    /\ UNCHANGED <<kind, row, files, copies, counted, drawn, born, drifted>>

Written(r) ==
    LET w == req[r].seen
    IN  CASE req[r].op = "place" /\ ~Refused(r, w) ->
               Placed(w, req[r].photo, req[r].rank,
                     IF kind = "memory" THEN req[r].hash ELSE None)
          [] req[r].op = "replace" /\ req[r].old \in Listed(w) ->
               Replaced(w, req[r].old, req[r].photo)
          [] req[r].op = "delete" /\ req[r].photo \in Listed(w) -> Removed(w, req[r].photo)
          [] req[r].op = "adopt" /\ w.exists -> Cleared(w)
          [] req[r].op = "drop" -> NoRow
          [] OTHER -> row

\* The files go, the counter follows, the row is committed, the lock released.
\* A memory's whole folder goes with the memory.
Apply(r) ==
    LET drop == req[r].op = "drop" /\ kind = "memory" /\ req[r].seen.exists
    IN  /\ req[r].pc = "apply"
        /\ row' = Written(r)
        /\ files' = IF drop THEN {} ELSE files \ req[r].doomed
        /\ copies' = IF drop THEN {} ELSE copies \ req[r].doomed
        /\ counted' = IF counted < req[r].sized THEN 0 ELSE counted - req[r].sized
        /\ drifted' = (drifted \/ (drop /\ Uncounted \cap files # {}))
        /\ lock' = None
        /\ Ends(r)
        /\ UNCHANGED <<kind, drawn, born>>
-----------------------------------------------------------------------------
\* ensure_share_copy: the original is read, the copy renamed into place (or
\* that fails), and dropped again if the original went meanwhile.
AskCopy(r, p) ==
    /\ req[r] = Idle /\ kind = "memory" /\ row.exists /\ p \in (Listed(row) \cap files) \ copies
    /\ req' = [req EXCEPT ![r] = [Idle EXCEPT !.pc = "derive", !.photo = p]]
    /\ UNCHANGED <<kind, row, files, copies, counted, lock, drawn, born, drifted>>

Derive(r) ==
    /\ req[r].pc = "derive"
    /\ \/ Ends(r) /\ UNCHANGED copies
       \/ copies' = copies \cup {req[r].photo} /\ Goes(r, "check")
    /\ UNCHANGED <<kind, row, files, counted, lock, drawn, born, drifted>>

\* Mutant: the copy is kept without another look.
KeepCopy(r) ==
    /\ req[r].pc = "check"
    /\ Ends(r)
    /\ UNCHANGED <<kind, row, files, copies, counted, lock, drawn, born, drifted>>

CheckCopy(r) ==
    /\ req[r].pc = "check"
    /\ copies' = copies \cap (files \cup (copies \ {req[r].photo}))
    /\ Ends(r)
    /\ UNCHANGED <<kind, row, files, counted, lock, drawn, born, drifted>>

\* reconcile_usage walks the folders, then writes what it found.
Walk(r) ==
    /\ req[r] = Idle
    /\ req' = [req EXCEPT ![r] = [Idle EXCEPT !.pc = "total", !.sized = Cardinality(files)]]
    /\ UNCHANGED <<kind, row, files, copies, counted, lock, drawn, born, drifted>>

WriteTotal(r) ==
    /\ req[r].pc = "total"
    /\ counted' = req[r].sized
    /\ drifted' = (counted' # Cardinality(files \ Uncounted))
    /\ Ends(r)
    /\ UNCHANGED <<kind, row, files, copies, lock, drawn, born>>
-----------------------------------------------------------------------------
Init ==
    /\ kind \in {"memory", "journal"}
    /\ row = [NoRow EXCEPT !.exists = TRUE]
    /\ files = {} /\ copies = {} /\ counted = 0 /\ lock = None /\ drawn = 0
    /\ req = [r \in Reqs |-> Idle]
    /\ born = [p \in PhotoIds |-> None]
    /\ drifted = FALSE

Next ==
    \E r \in Reqs :
        \/ AskUpload(r) \/ Fetch(r) \/ CheckQuota(r) \/ Save(r) \/ Count(r)
        \/ \E rank \in Ranks \cup {None}, hash \in Contents : AskDownload(r, rank, hash)
        \/ \E p \in PhotoIds : AskReplace(r, p) \/ AskUnder(r, "delete", p) \/ AskCopy(r, p)
        \/ \E op \in {"adopt", "drop"} : AskUnder(r, op, None)
        \/ Take(r) \/ Apply(r) \/ Derive(r) \/ CheckCopy(r) \/ Walk(r) \/ WriteTotal(r)

Spec == Init /\ [][Next]_vars
-----------------------------------------------------------------------------
\* The state has its shape, and the lock is held by the request that is
\* changing the row.
TypeOK ==
    /\ row.list \in Seq(1..drawn) /\ files \subseteq 1..drawn /\ copies \subseteq 1..drawn
    /\ counted \in 0..(Cardinality(PhotoIds) + Cardinality(Reqs))
    /\ lock \in Reqs \cup {None}
    /\ \A r \in Reqs : req[r].pc = "apply" <=> lock = r

\* Every photo in the list has its files: whatever uploads, downloads,
\* replacements and deletes run at once, no placement brings back a photo that
\* was deleted, and no delete takes the files of one that stays.
ListedOnDisk ==
    lock = None => Listed(row) \subseteq files

\* Every photo on disk is in the list or belongs to a request that will place
\* or remove it: one that finds its memory gone, its epoch over or its content
\* already there takes its files with it.
NothingOrphaned ==
    files \subseteq Listed(row) \cup UNION {{req[r].photo} \cup req[r].doomed : r \in Reqs}

\* The counter is what is on disk, less what was written and not counted yet,
\* unless a memory was deleted in the middle of an upload's write and count,
\* or a reconcile overlapped one.
CountedIsStored ==
    drifted \/ counted = Cardinality(files \ Uncounted)

\* Imported photos stand first, in the order of their ranks, however the
\* downloads finished and whatever was uploaded, replaced or deleted meanwhile.
DisplayOrder ==
    \A i, j \in 1..Len(row.list) :
        i < j => LET a == row.rank[row.list[i]]
                     b == row.rank[row.list[j]]
                 IN  b # None => a # None /\ a <= b

\* No content downloaded twice, and no download queued before a re-import's
\* clear, is in a memory's list.
DownloadedOnce ==
    /\ \A i, j \in 1..Len(row.list) :
          i # j /\ row.hash[row.list[i]] # None
              => row.hash[row.list[i]] # row.hash[row.list[j]]
    /\ \A p \in Listed(row) : born[p] \in {None, row.epoch}

\* The copy made for sharing does not outlive its photo.
CopiesGoToo ==
    copies \subseteq files \cup {req[r].photo : r \in {x \in Reqs : req[x].pc = "check"}}
=============================================================================
