---------------------------- MODULE TripContent -----------------------------
(***************************************************************************)
(* The item rows of one trip and what the operations make of them.         *)
(*                                                                         *)
(*   models/project_db.py           DBProjectItem (uid, position, payload) *)
(*   src/models/project.py          remove_item, move_item                 *)
(*   src/project/repo_items.py      _replace_items, delete_segment_row     *)
(*   api/project_access.py          translate_insert_after,                *)
(*                                  row_position_for_index                 *)
(*                                                                         *)
(* A trip is read ORDER BY position, so a row's place in the list is the   *)
(* number of rows with a smaller position; positions themselves may have   *)
(* gaps.  Payloads (segment JSON, activity, memory or journal ids) are     *)
(* opaque values.                                                          *)
(***************************************************************************)
EXTENDS Integers, FiniteSets

CONSTANTS
    Uids,      \* item identities (uuid4 hex)
    Payloads   \* what a row carries

Row == [uid : Uids, pos : Nat, val : Payloads]

UidsOf(rows) == {r.uid : r \in rows}
(* The index of r in the list read from rows.                              *)
Index(r, rows) == Cardinality({s \in rows : s.pos < r.pos})
(* _replace_items writes enumerate(items): positions 0, 1, 2, ...          *)
Renumber(rows) == {[r EXCEPT !.pos = Index(r, rows)] : r \in rows}

(* A list has one row per uid and no two rows in the same place.           *)
IsList(rows) == \A r, s \in rows : r.uid = s.uid \/ r.pos = s.pos => r = s
-----------------------------------------------------------------------------
(* row_position_for_index: the position a new row needs to land at index   *)
(* k, that of the row now there, or one above the last row's.  A list has  *)
(* exactly one.                                                            *)
RowPositionForIndex(rows, k) ==
    LET there == {r \in rows : Index(r, rows) = k}
        last  == {r \in rows : \A s \in rows : s.pos <= r.pos}
    IN  IF there # {} THEN {r.pos : r \in there}
        ELSE IF rows = {} THEN {0} ELSE {r.pos + 1 : r \in last}

(* Mutant: the row at the position itself stays.                           *)
ShiftAfter(rows, pos) ==
    {IF r.pos > pos THEN [r EXCEPT !.pos = @ + 1] ELSE r : r \in rows}

(* Open the slot: rows at or after the position move up by one.            *)
ShiftFrom(rows, pos) ==
    {IF r.pos >= pos THEN [r EXCEPT !.pos = @ + 1] ELSE r : r \in rows}

(* The direct insert of api/memories.py, journal.py and encounters.py.     *)
InsertRow(rows, u, v, pos) ==
    ShiftFrom(rows, pos) \union {[uid |-> u, pos |-> pos, val |-> v]}
InsertRows(rows, u, v) ==
    {InsertRow(rows, u, v, pos) :
        pos \in UNION {RowPositionForIndex(rows, k) : k \in 0..Cardinality(rows)}}

RemoveRow(rows, u) == {r \in rows : r.uid # u}
WriteRow(rows, u, v) ==
    {IF r.uid = u THEN [r EXCEPT !.val = v] ELSE r : r \in rows}
-----------------------------------------------------------------------------
(* Structural mutations of a loaded trip, as save_project stores them.     *)
Inserted(rows) ==
    {Renumber(new) : new \in UNION {InsertRows(rows, u, v) :
                        u \in Uids \ UidsOf(rows), v \in Payloads}}
Removed(rows) == {Renumber(RemoveRow(rows, u)) : u \in UidsOf(rows)}
Rewritten(rows) ==
    {Renumber(WriteRow(rows, u, v)) : u \in UidsOf(rows), v \in Payloads}
(* move_item and the chronological sort: some permutation of the list.     *)
Reordered(rows) ==
    LET places == 0..(Cardinality(rows) - 1)
        perms == {f \in [UidsOf(rows) -> places] :
                     \A u, w \in UidsOf(rows) : f[u] = f[w] => u = w}
    IN  {{[r EXCEPT !.pos = f[r.uid]] : r \in rows} : f \in perms}

Mutations(rows) ==
    Inserted(rows) \union Removed(rows) \union Rewritten(rows)
        \union Reordered(rows)
=============================================================================
