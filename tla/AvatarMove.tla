----------------------------- MODULE AvatarMove -----------------------------
(***************************************************************************)
(* One person's avatar: the uploads that replace it and the start-up sweep *)
(* that moves old copies into the trip owner's folder.                     *)
(*                                                                         *)
(*   src/people/avatar_move.py   the sweep (issue #470)                    *)
(*   api/people.py               upload_avatar, delete_avatar,             *)
(*                               delete_person                             *)
(*   src/billing/usage.py        record_delta, unlink_and_record           *)
(*                                                                         *)
(* A photo is a full-size file and a thumbnail.  The sweep runs in the     *)
(* API's start, before it serves; the process may die anywhere.  Usage is  *)
(* counted in files.  Files are only ever written whole here: the sweep    *)
(* copies to a temporary name and renames, so a comparison of two copies   *)
(* of one name never finds a difference.                                   *)
(***************************************************************************)
EXTENDS Naturals, FiniteSets, Functions

CONSTANTS
    Owner,     \* the trip's owner
    Others,    \* companions, some of them members of the trip
    Names,     \* photo names (uuids)
    Reqs,      \* requests under way
    None

VARIABLES
    person,    \* the person's row: its avatar_photo or None; "gone"
    files,     \* the disk: <<user, name, kind>>
    charged,   \* UserUsage per user, in files
    members,   \* current members among Others
    spent,     \* the names ever given to a photo
    req,       \* per slot, a request
    sweep,     \* the sweep, or [pc |-> "off"] while the API serves
    tidy       \* history: a sweep completed and nothing has happened since

vars == <<person, files, charged, members, spent, req, sweep, tidy>>

Users == {Owner} \cup Others
Kinds == {"full", "thumb"}
Idle == [pc |-> "idle"]
Off == [pc |-> "off"]
Serving == sweep = Off
Of(u, n) == {<<u, n, k>> : k \in Kinds} \cap files
Somewhere(n) == \E u \in Users : <<u, n, "full">> \in files
Set(r, rec) == req' = [req EXCEPT ![r] = rec]
Done(r) == Set(r, Idle)

\* record_delta: never below zero (_add_in_db's CASE).
Charge(c, u, up, down) ==
    [c EXCEPT ![u] = IF @ + up < down THEN 0 ELSE @ + up - down]
-----------------------------------------------------------------------------
\* upload_avatar: the files are written and charged to the trip's owner,
Save(r) ==
    /\ Serving /\ req[r] = Idle /\ person # "gone"
    /\ \E n \in Names \ spent :
          /\ files' = files \cup {<<Owner, n, k>> : k \in Kinds}
          /\ spent' = spent \cup {n}
          /\ Set(r, [pc |-> "name", new |-> n])
    /\ charged' = Charge(charged, Owner, 2, 0)
    /\ tidy' = FALSE
    /\ UNCHANGED <<person, members, sweep>>

\* the row names them, unless the person has gone meanwhile; what goes next
\* is the old avatar, or the new one.
Name(r) ==
    /\ Serving /\ req[r].pc = "name"
    /\ IF person = "gone" THEN Set(r, [pc |-> "unlink", old |-> req[r].new]) /\ UNCHANGED person
       ELSE /\ person' = req[r].new
            /\ Set(r, IF person = None THEN Idle ELSE [pc |-> "unlink", old |-> person])
    /\ UNCHANGED <<files, charged, members, spent, sweep, tidy>>

\* _delete_old_avatar in the owner's folder.
Unlink(r) ==
    LET old == Of(Owner, req[r].old) IN
    /\ Serving /\ req[r].pc = "unlink"
    /\ files' = files \ old
    /\ charged' = Charge(charged, Owner, 0, Cardinality(old))
    /\ Done(r)
    /\ UNCHANGED <<person, members, spent, sweep, tidy>>

\* delete_avatar and delete_person unlink the file they read of first,
Clear(r, to) ==
    /\ Serving /\ req[r] = Idle /\ person \in Names
    /\ files' = files \ Of(Owner, person)
    /\ charged' = Charge(charged, Owner, 0, Cardinality(Of(Owner, person)))
    /\ Set(r, [pc |-> "cleared", to |-> to])
    /\ tidy' = FALSE
    /\ UNCHANGED <<person, members, spent, sweep>>

\* then commit the row.
Cleared(r) ==
    /\ Serving /\ req[r].pc = "cleared"
    /\ person' = IF person = "gone" THEN person ELSE req[r].to
    /\ Done(r)
    /\ UNCHANGED <<files, charged, members, spent, sweep, tidy>>

\* A companion leaves the trip.
Leave(u) ==
    /\ Serving /\ u \in members
    /\ members' = members \ {u}
    /\ tidy' = FALSE
    /\ UNCHANGED <<person, files, charged, spent, req, sweep>>

\* The API dies, and starts again with the sweep: _load.
Start ==
    /\ Serving \/ sweep.pc # "move"
    /\ sweep' = [pc |-> "move", name |-> person, at |-> members,
                 keep |-> {person} \cap Names]
    /\ req' = [r \in Reqs |-> Idle]
    /\ tidy' = FALSE
    /\ UNCHANGED <<person, files, charged, members, spent>>
-----------------------------------------------------------------------------
\* _move_one's holders: the members' folders with the full-size file.
Holders == {u \in sweep.at : <<u, sweep.name, "full">> \in files}

\* Nothing to move: no avatar, none in a member's folder, or one in several,
\* which is left in place.
MoveNothing ==
    /\ sweep.pc = "move"
    /\ sweep.name \notin Names \/ Cardinality(Holders) # 1
    /\ sweep' = [sweep EXCEPT !.pc = "stale"]
    /\ UNCHANGED <<person, files, charged, members, spent, req, tidy>>

MoveFrom(u) ==
    /\ sweep.pc = "move" /\ sweep.name \in Names /\ Holders = {u}
    /\ sweep' = [pc |-> "copy", name |-> sweep.name, at |-> sweep.at,
                 keep |-> sweep.keep, from |-> u]
    /\ UNCHANGED <<person, files, charged, members, spent, req, tidy>>

\* A kind whose copy in the owner's folder is still missing.
Uncopied == {k \in Kinds : /\ <<sweep.from, sweep.name, k>> \in files
                           /\ <<Owner, sweep.name, k>> \notin files}

\* _copy_into_place: written beside, flushed and renamed.
Copy(k) ==
    /\ sweep.pc = "copy" /\ k \in Uncopied
    /\ files' = files \cup {<<Owner, sweep.name, k>>}
    /\ UNCHANGED <<person, charged, members, spent, req, sweep, tidy>>

\* Mutant: the member's copies go before the owner's are complete.
CopiedAlways == TRUE
Copied == Uncopied = {}

\* The member's files go once both copies match, the thumbnail first.
Unlinkable(k) ==
    /\ <<sweep.from, sweep.name, k>> \in files
    /\ k = "full" => <<sweep.from, sweep.name, "thumb">> \notin files

\* _hand_over: unlink, then the usage of that one file moves.
HandOver(k) ==
    /\ sweep.pc = "copy" /\ Copied /\ Unlinkable(k)
    /\ files' = files \ {<<sweep.from, sweep.name, k>>}
    /\ sweep' = [sweep EXCEPT !.pc = "count"]
    /\ UNCHANGED <<person, charged, members, spent, req, tidy>>

\* Mutant: usage is taken from what lies in the owner's folder.
CountFolder ==
    /\ sweep.pc = "count"
    /\ charged' = [charged EXCEPT ![Owner] = @ + Cardinality(Of(Owner, sweep.name))]
    /\ sweep' = [sweep EXCEPT !.pc = "copy"]
    /\ UNCHANGED <<person, files, members, spent, req, tidy>>

Count ==
    /\ sweep.pc = "count"
    /\ charged' = Charge(Charge(charged, sweep.from, 0, 1), Owner, 1, 0)
    /\ sweep' = [sweep EXCEPT !.pc = "copy"]
    /\ UNCHANGED <<person, files, members, spent, req, tidy>>

Moved ==
    /\ sweep.pc = "copy" /\ Of(sweep.from, sweep.name) = {}
    /\ sweep' = [pc |-> "stale", name |-> sweep.name, at |-> sweep.at, keep |-> sweep.keep]
    /\ UNCHANGED <<person, files, charged, members, spent, req, tidy>>

\* Mutant: the members' folders only.
StaleMembers == {f \in files : f[1] \in sweep.at /\ f[2] \notin sweep.keep}
\* _delete_stale in the members' folders, in the owner's, and (by
\* _delete_orphaned) in everybody else's: names no person holds.
Stale == {f \in files : f[2] \notin sweep.keep}

\* unlink_and_record, one file at a time.
DeleteStale(f) ==
    /\ sweep.pc = "stale" /\ f \in Stale
    /\ files' = files \ {f}
    /\ sweep' = [pc |-> "give", user |-> f[1], then |-> sweep]
    /\ UNCHANGED <<person, charged, members, spent, req, tidy>>

GiveBack ==
    /\ sweep.pc = "give"
    /\ charged' = Charge(charged, sweep.user, 0, 1)
    /\ sweep' = sweep.then
    /\ UNCHANGED <<person, files, members, spent, req, tidy>>

Serve ==
    /\ sweep.pc = "stale" /\ Stale = {}
    /\ sweep' = Off
    /\ tidy' = TRUE
    /\ UNCHANGED <<person, files, charged, members, spent, req>>
-----------------------------------------------------------------------------
\* A trip from before #470: each photo lies, whole and charged, in the folder
\* of whoever uploaded it; one of them may be the person's avatar.
Init ==
    /\ \E by \in [Names -> Users \cup {None}] :
          /\ spent = {n \in Names : by[n] # None}
          /\ files = {<<by[n], n, k>> : n \in spent, k \in Kinds}
          /\ charged = [u \in Users |-> 2 * Cardinality({n \in Names : by[n] = u})]
    /\ person \in spent \cup {None}
    /\ members \in SUBSET Others
    /\ req = [r \in Reqs |-> Idle]
    /\ sweep = Off /\ tidy = FALSE

Next ==
    \/ \E r \in Reqs : \/ Save(r) \/ Name(r) \/ Unlink(r) \/ Cleared(r)
                       \/ \E to \in {None, "gone"} : Clear(r, to)
    \/ \E u \in Others : Leave(u) \/ MoveFrom(u)
    \/ \E k \in Kinds : Copy(k) \/ HandOver(k)
    \/ \E f \in files : DeleteStale(f)
    \/ Start \/ MoveNothing \/ Count \/ Moved \/ GiveBack \/ Serve

Spec == Init /\ [][Next]_vars
-----------------------------------------------------------------------------
\* The sweep never takes the last copy of the avatar a person has, wherever
\* it is interrupted and however often it runs again.
KeepsAvatar ==
    ~Serving /\ person \in Names /\ Somewhere(person) => Somewhere(person)'
SweepKeeps == [][KeepsAvatar]_vars

\* A file is never charged twice, whoever it moves to and wherever the sweep
\* dies: all accounts together pay at most once for each file of each photo
\* ("can never count it twice", avatar_move.py).
NotTwice == SumFunction(charged) <= 2 * Cardinality(spent)

\* A completed sweep leaves no file of this person but its avatar's.
NothingStale == tidy => \A f \in files : f[2] = person
=============================================================================
