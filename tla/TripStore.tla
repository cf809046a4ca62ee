------------------------------ MODULE TripStore -----------------------------
(***************************************************************************)
(* One trip name and the requests that change the trip under it.           *)
(*                                                                         *)
(*   src/project/repo_retry.py   save_project_with_retry                   *)
(*   src/project/repo_core.py    get_project, save_project, create_project,*)
(*                               delete_project, bump_lock_version,        *)
(*                               check_and_bump_lock_version               *)
(*   src/project/repo_items.py   update_segment_fields, delete_segment_row *)
(*   api/projects.py             patch_day_meta                            *)
(*   api/memories.py, journal.py, encounters.py   the direct item inserts  *)
(*                                                                         *)
(* SQLite gives every SELECT its own view and makes the statements from    *)
(* the first write to the commit one atomic step; a load is therefore two  *)
(* steps, the project row and then its items, and anything may commit      *)
(* between them and between a load and the save that follows.              *)
(***************************************************************************)
EXTENDS TripContent, TLC

CONSTANTS
    Requests,     \* concurrent requests
    Attempts,     \* DEFAULT_ATTEMPTS
    Days,         \* keys of the day metadata
    DayNotes,     \* what one day holds
    BlankNote,    \* what a new trip's days hold
    RowIds,       \* primary keys of the project table
    MaxVersion,   \* bound: lock_version stops here
    MaxDeletes    \* bound: how often the trip is deleted

ASSUME StoreAssumption ==
    /\ Attempts \in Nat \ {0}
    /\ BlankNote \in DayNotes
    /\ MaxVersion \in Nat
    /\ MaxDeletes \in Nat

VARIABLES
    live,      \* a project row carries the name
    id,        \* its primary key; SQLite may give a deleted key again
    version,   \* lock_version
    rows,      \* its item rows
    meta,      \* day_meta_json
    life,      \* history: which trip of that name this is, 1, 2, ...
    pc,        \* per request: idle, load, half (row read), loaded
    attempt,   \* its attempt, from 0
    rid,       \* row.id it read
    ver,       \* lock_version it read, in the same SELECT as rid and snapMeta
    snapMeta,  \* day_meta_json it read
    snap,      \* the item rows it read
    of,        \* history: the life it read
    back       \* history: a save wrote what it had read of a deleted trip

trip  == <<live, id, version, rows, meta, life, back>>
reads == <<rid, ver, snapMeta, snap, of>>
vars  == <<trip, pc, attempt, reads>>

Metas == [Days -> DayNotes]
Blank == [d \in Days |-> BlankNote]
-----------------------------------------------------------------------------
Goto(p, step) == pc' = [pc EXCEPT ![p] = step]

(* A request arrives.                                                      *)
Start(p) ==
    /\ pc[p] = "idle"
    /\ Goto(p, "load")
    /\ attempt' = [attempt EXCEPT ![p] = 0]
    /\ UNCHANGED <<trip, reads>>

(* The project row is read; without one the caller answers 404.            *)
LoadRow(p) ==
    /\ pc[p] = "load"
    /\ \/ /\ live
          /\ Goto(p, "half")
          /\ rid' = [rid EXCEPT ![p] = id]
          /\ ver' = [ver EXCEPT ![p] = version]
          /\ snapMeta' = [snapMeta EXCEPT ![p] = meta]
          /\ of' = [of EXCEPT ![p] = life]
          /\ UNCHANGED snap
       \/ ~live /\ Goto(p, "idle") /\ UNCHANGED reads
    /\ UNCHANGED <<trip, attempt>>

(* The items of that row's key are read; a deleted trip has none left.     *)
LoadItems(p) ==
    /\ pc[p] = "half"
    /\ snap' = [snap EXCEPT ![p] = IF live /\ rid[p] = id THEN rows ELSE {}]
    /\ Goto(p, "loaded")
    /\ UNCHANGED <<trip, attempt, rid, ver, snapMeta, of>>

(* bump_lock_version, and the bound on it.                                 *)
Bump == version < MaxVersion /\ version' = version + 1

(* The session closes: what it loaded is not used again.                   *)
Forget(p) ==
    /\ ver' = [ver EXCEPT ![p] = 0]
    /\ snapMeta' = [snapMeta EXCEPT ![p] = Blank]
    /\ snap' = [snap EXCEPT ![p] = {}]
    /\ of' = [of EXCEPT ![p] = 0]
    /\ UNCHANGED rid

(* Mutant: one attempt too many.                                           *)
ConflictOnceMore(p) ==
    /\ \/ /\ attempt[p] + 1 <= Attempts
          /\ attempt' = [attempt EXCEPT ![p] = @ + 1]
          /\ Goto(p, "load")
       \/ /\ attempt[p] = Attempts
          /\ attempt' = [attempt EXCEPT ![p] = 0]
          /\ Goto(p, "idle")
    /\ Forget(p)
    /\ UNCHANGED trip

(* StaleWriteError: reload and try again, or give up with a 409.           *)
Conflict(p) ==
    /\ \/ /\ attempt[p] + 1 < Attempts
          /\ attempt' = [attempt EXCEPT ![p] = @ + 1]
          /\ Goto(p, "load")
       \/ /\ attempt[p] + 1 = Attempts
          /\ attempt' = [attempt EXCEPT ![p] = 0]
          /\ Goto(p, "idle")
    /\ Forget(p)
    /\ UNCHANGED trip

Done(p) == /\ Goto(p, "idle")
           /\ attempt' = [attempt EXCEPT ![p] = 0]
           /\ Forget(p)

(* Mutant: a save without check_version.                                   *)
SaveUnchecked(p) == live

(* The UPDATE .. WHERE lock_version = expected of save_project, on the row *)
(* that now carries the name.                                              *)
SaveMatches(p) == live /\ ver[p] = version

(* save_project: the mutated snapshot replaces the item list, and the      *)
(* snapshot's metadata goes back with it.                                  *)
Save(p) ==
    /\ pc[p] = "loaded"
    /\ SaveMatches(p)
    /\ Bump
    /\ rows' \in Mutations(snap[p])
    /\ meta' = snapMeta[p]
    /\ Done(p)
    /\ back' = (back \/ of[p] # life)
    /\ UNCHANGED <<live, id, life>>

SaveStale(p) ==
    /\ pc[p] = "loaded"
    /\ live => ver[p] # version
    /\ ~live => ver[p] # 0
    /\ Conflict(p)

(* No row carries the name any more: save_project inserts one, whose       *)
(* lock_version is 0, and the compare-and-swap is made against that.       *)
SaveIntoNewRow(p) ==
    /\ pc[p] = "loaded"
    /\ ~live
    /\ ver[p] = 0
    /\ live' = TRUE
    /\ id' \in RowIds
    /\ life' = life + 1
    /\ back' = TRUE
    /\ version' = 1
    /\ rows' \in Mutations(snap[p])
    /\ meta' = snapMeta[p]
    /\ Done(p)

(* check_and_bump_lock_version matches on the key and the counter.         *)
CasMatches(p) == live /\ rid[p] = id /\ ver[p] = version

(* patch_day_meta: one day merged into the map it read.                    *)
PatchDayMeta(p) ==
    /\ pc[p] = "half"
    /\ CasMatches(p)
    /\ Bump
    /\ \E d \in Days, n \in DayNotes : meta' = [snapMeta[p] EXCEPT ![d] = n]
    /\ Done(p)
    /\ UNCHANGED <<live, id, rows, life, back>>

PatchStale(p) == pc[p] = "half" /\ ~CasMatches(p) /\ Conflict(p)

(* A row edit sent with the lock_version the client last saw (memories,    *)
(* tracks): applied only if nothing has been written since, never retried. *)
EditUnderCas(p) ==
    /\ pc[p] = "loaded"
    /\ CasMatches(p)
    /\ Bump
    /\ \E u \in UidsOf(snap[p]), v \in Payloads : rows' = WriteRow(rows, u, v)
    /\ Done(p)
    /\ UNCHANGED <<live, id, meta, life, back>>
-----------------------------------------------------------------------------
(* Writes that do not go through save_project: each is one transaction     *)
(* that advances the counter.                                              *)

(* Mutant: a payload write that does not advance the counter.              *)
UpdateSegmentFieldsUnseen ==
    /\ live
    /\ \E u \in UidsOf(rows), v \in Payloads : rows' = WriteRow(rows, u, v)
    /\ UNCHANGED <<live, id, version, meta, life, back, pc, attempt, reads>>

(* update_segment_fields, track edits and the other row updates.           *)
UpdateSegmentFields ==
    /\ live
    /\ Bump
    /\ \E u \in UidsOf(rows), v \in Payloads : rows' = WriteRow(rows, u, v)
    /\ UNCHANGED <<live, id, meta, life, back, pc, attempt, reads>>

(* delete_segment_row and delete_memory leave a gap in the positions.      *)
DeleteRow ==
    /\ live
    /\ Bump
    /\ \E u \in UidsOf(rows) : rows' = RemoveRow(rows, u)
    /\ UNCHANGED <<live, id, meta, life, back, pc, attempt, reads>>

(* create_memory, create_journal, create_encounter: at the caller's index. *)
InsertItem ==
    /\ live
    /\ Bump
    /\ \E u \in Uids \ UidsOf(rows), v \in Payloads : rows' \in InsertRows(rows, u, v)
    /\ UNCHANGED <<live, id, meta, life, back, pc, attempt, reads>>

CreateProject ==
    /\ ~live
    /\ live' = TRUE
    /\ id' \in RowIds
    /\ life' = life + 1
    /\ version' = 0
    /\ rows' = {}
    /\ meta' = Blank
    /\ UNCHANGED <<back, pc, attempt, reads>>

DeleteProject ==
    /\ live
    /\ life <= MaxDeletes
    /\ live' = FALSE
    /\ rows' = {}
    /\ UNCHANGED <<id, version, meta, life, back, pc, attempt, reads>>
-----------------------------------------------------------------------------
Init ==
    /\ live = TRUE
    /\ id \in RowIds
    /\ version = 0
    /\ rows = {}
    /\ meta = Blank
    /\ life = 1
    /\ back = FALSE
    /\ pc = [p \in Requests |-> "idle"]
    /\ attempt = [p \in Requests |-> 0]
    /\ rid = [p \in Requests |-> id]
    /\ ver = [p \in Requests |-> 0]
    /\ snapMeta = [p \in Requests |-> Blank]
    /\ snap = [p \in Requests |-> {}]
    /\ of = [p \in Requests |-> 0]

Step(p) == \/ Start(p) \/ LoadRow(p) \/ LoadItems(p)
           \/ Save(p) \/ SaveStale(p) \/ SaveIntoNewRow(p)
           \/ PatchDayMeta(p) \/ PatchStale(p) \/ EditUnderCas(p)

Next == \/ \E p \in Requests : Step(p)
        \/ UpdateSegmentFields \/ DeleteRow \/ InsertItem
        \/ CreateProject \/ DeleteProject

Spec == Init /\ [][Next]_vars
-----------------------------------------------------------------------------
TypeOK ==
    /\ live \in BOOLEAN
    /\ id \in RowIds
    /\ version \in Nat
    /\ rows \in SUBSET Row
    /\ IsFiniteSet(rows)
    /\ meta \in Metas
    /\ life \in Nat \ {0}
    /\ back \in BOOLEAN
    /\ pc \in [Requests -> {"idle", "load", "half", "loaded"}]
    /\ attempt \in [Requests -> 0..(Attempts - 1)]
    /\ rid \in [Requests -> RowIds]
    /\ ver \in [Requests -> Nat]
    /\ snapMeta \in [Requests -> Metas]
    /\ snap \in [Requests -> SUBSET Row]
    /\ \A p \in Requests : IsFiniteSet(snap[p])
    /\ of \in [Requests -> Nat]

(* The item list is always a list: however saves, inserts and deletes      *)
(* interleave, no two rows of the trip share an identity or a position,    *)
(* so ORDER BY position is one order.                                      *)
RowsAreAList == IsList(rows)

(* The optimistic lock detects every write: a request whose expected       *)
(* lock_version still matches the trip it loaded holds that trip's current *)
(* items and metadata, although it read them in two SELECTs, so the save   *)
(* that follows undoes nobody's write.                                     *)
SnapshotCurrent ==
    \A p \in Requests :
        live /\ of[p] = life /\ ver[p] = version =>
            /\ pc[p] \in {"half", "loaded"} => snapMeta[p] = meta
            /\ pc[p] = "loaded" => snap[p] = rows

(* What makes SnapshotCurrent inductive: a request that has read the trip  *)
(* now under the name knows its key and holds no version from its future.  *)
ReadsPast ==
    \A p \in Requests :
        /\ of[p] <= life
        /\ of[p] = life => rid[p] = id /\ ver[p] <= version
        /\ IsList(snap[p])

IInv == TypeOK /\ RowsAreAList /\ ReadsPast /\ SnapshotCurrent

(* Every acknowledged write is one atomic change of the trip as it stood   *)
(* when the write committed (for a trip that is not deleted).              *)
Atomic == INSTANCE AtomicTrip WITH list <- Renumber(rows)
ImplementsAtomicTrip == Atomic!AtomicSpec

(* Not an invariant, although save_project says that the counter is bumped *)
(* only if it still matches the value captured at load time: a snapshot    *)
(* taken at 0 is stored again under a re-created row, whose counter is 0   *)
(* too.                                                                    *)
DeletedStaysDeleted == ~back

(* For TLC: requests and payloads are interchangeable, and so are uids.    *)
StoreSymmetry ==
    Permutations(Requests) \union Permutations(Uids) \union Permutations(Payloads)
=============================================================================
