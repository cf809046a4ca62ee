------------------------------- MODULE People -------------------------------
(***************************************************************************)
(* A trip's people, groups and encounters.                                 *)
(*                                                                         *)
(*   api/people.py       create_person, delete_person                      *)
(*   api/groups.py       create_group, delete_group, set_members           *)
(*   api/encounters.py   create, update, delete_encounter                  *)
(*                                                                         *)
(* An encounter is with a person or with a group, and stands in the trip's *)
(* item list.  A handler reads in one transaction and commits at its end;  *)
(* it takes the write lock at its first write, so what it read before that *)
(* may have changed.  Postgres refuses a row whose parent has gone, SQLite *)
(* takes it.                                                               *)
(***************************************************************************)
EXTENDS Naturals, FiniteSets, Sequences, SequencesExt

CONSTANTS
    PersonIds,      \* ids of DBPerson rows
    GroupIds,       \* ids of DBPersonGroup rows
    Reqs,           \* requests under way
    MaxEncounters,  \* bound: encounters ever created
    None

VARIABLES
    people,      \* DBPerson: id -> its group_id or None
    groups,      \* DBPersonGroup rows
    encounters,  \* DBEncounter: id -> the person or group it is with
    items,       \* the trip's items, in position order: encounter ids
    made,        \* encounters created so far
    req          \* per slot, what a request has read

vars == <<people, groups, encounters, items, made, req>>
store == <<people, groups, encounters, items, made>>

Idle == [pc |-> "idle"]
Set(r, rec) == req' = [req EXCEPT ![r] = rec]
Done(r) == Set(r, Idle)
Put(f, k, v) == [x \in DOMAIN f \cup {k} |-> IF x = k THEN v ELSE f[x]]
Without(f, S) == [x \in DOMAIN f \ S |-> f[x]]
With(w) == {e \in DOMAIN encounters : encounters[e] = w}
In(g) == {p \in DOMAIN people : people[p] = g}
Known(w) == w \in DOMAIN people \/ w \in groups
-----------------------------------------------------------------------------
CreatePerson(p) ==
    /\ p \notin DOMAIN people
    /\ people' = Put(people, p, None)
    /\ UNCHANGED <<groups, encounters, items, made, req>>

CreateGroup(g) ==
    /\ g \notin groups
    /\ groups' = groups \cup {g}
    /\ UNCHANGED <<people, encounters, items, made, req>>

\* create_encounter: exactly one of person and group, and it is in the trip.
CheckEncounter(r, w) ==
    /\ req[r] = Idle /\ Known(w)
    /\ Set(r, [pc |-> "create", with |-> w])
    /\ UNCHANGED store

\* The row, the shift of the later items and the new item in one commit.  At
\* most what SQLite allows: its person may have gone since the check.
CreateEncounter(r) ==
    LET w == req[r].with IN
    /\ req[r].pc = "create" /\ made < MaxEncounters
    /\ \/ \E i \in 1..(Len(items) + 1) :
             /\ encounters' = Put(encounters, made + 1, w)
             /\ items' = InsertAt(items, i, made + 1)
             /\ made' = made + 1
       \/ ~Known(w) /\ UNCHANGED <<encounters, items, made>>
    /\ Done(r)
    /\ UNCHANGED <<people, groups>>

\* update_encounter may move it to another person or group.
UpdateEncounter(e, w) ==
    /\ Known(w)
    /\ encounters' = [encounters EXCEPT ![e] = w]
    /\ UNCHANGED <<people, groups, items, made, req>>

DeleteEncounter(e) ==
    /\ encounters' = Without(encounters, {e})
    /\ items' = SelectSeq(items, LAMBDA i : i # e)
    /\ UNCHANGED <<people, groups, made, req>>

\* delete_person and delete_group read the encounters that go along,
ReadEncounters(r, w) ==
    /\ req[r] = Idle /\ Known(w)
    /\ Set(r, [pc |-> "delete", with |-> w, take |-> With(w), free |-> In(w)])
    /\ UNCHANGED store

Taken(r) == req[r].take

\* and commit; what an earlier commit deleted is deleted again in vain.
DeletePerson(r) ==
    LET p == req[r].with IN
    /\ req[r].pc = "delete" /\ p \in PersonIds
    /\ people' = Without(people, {p})
    /\ items' = SelectSeq(items, LAMBDA i : i \notin req[r].take)
    /\ encounters' = Without(encounters, Taken(r))
    /\ Done(r)
    /\ UNCHANGED <<groups, made>>

DeleteGroup(r) ==
    LET g == req[r].with IN
    /\ req[r].pc = "delete" /\ g \in GroupIds
    /\ groups' = groups \ {g}
    /\ people' = [p \in DOMAIN people |-> IF p \in req[r].free THEN None ELSE people[p]]
    /\ items' = SelectSeq(items, LAMBDA i : i \notin req[r].take)
    /\ encounters' = Without(encounters, Taken(r))
    /\ Done(r)
    /\ UNCHANGED made

\* set_members: the whole list is checked before anything is written;
CheckMembers(r, g, wanted) ==
    /\ req[r] = Idle /\ g \in groups /\ wanted \subseteq DOMAIN people
    /\ Set(r, [pc |-> "members", group |-> g, wanted |-> wanted, free |-> In(g) \ wanted])
    /\ UNCHANGED store

\* who is not in it leaves the group, who is joins it from any other.  One
\* deleted meanwhile fails the whole commit, a deleted group on Postgres.
SetMembers(r) ==
    LET g == req[r].group  wanted == req[r].wanted  free == req[r].free IN
    /\ req[r].pc = "members"
    /\ \/ /\ wanted \cup free \subseteq DOMAIN people
          /\ people' = [p \in DOMAIN people |-> IF p \in wanted THEN g
                                      ELSE IF p \in free THEN None ELSE people[p]]
       \/ /\ ~(g \in groups /\ wanted \cup free \subseteq DOMAIN people)
          /\ UNCHANGED people
    /\ Done(r)
    /\ UNCHANGED <<groups, encounters, items, made>>
-----------------------------------------------------------------------------
Init ==
    /\ people = << >> /\ groups = {} /\ encounters = << >>
    /\ items = << >> /\ made = 0
    /\ req = [r \in Reqs |-> Idle]

Next ==
    \/ \E p \in PersonIds : CreatePerson(p)
    \/ \E g \in GroupIds : CreateGroup(g)
    \/ \E r \in Reqs : \/ CreateEncounter(r) \/ DeletePerson(r) \/ DeleteGroup(r)
                       \/ SetMembers(r)
                       \/ \E g \in GroupIds, S \in SUBSET PersonIds : CheckMembers(r, g, S)
                       \/ \E w \in PersonIds \cup GroupIds :
                             CheckEncounter(r, w) \/ ReadEncounters(r, w)
    \/ \E e \in DOMAIN encounters :
          \/ DeleteEncounter(e)
          \/ \E w \in PersonIds \cup GroupIds : UpdateEncounter(e, w)

Spec == Init /\ [][Next]_vars
-----------------------------------------------------------------------------
\* The trip's list shows every encounter once and nothing that is not one,
\* whichever deletions and moves overlap.
ListedOnce == IsInjective(items) /\ ToSet(items) = DOMAIN encounters
=============================================================================
