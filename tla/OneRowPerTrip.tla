---------------------------- MODULE OneRowPerTrip ----------------------------
(***************************************************************************)
(* The migration that gives every trip its own activity rows.              *)
(*                                                                         *)
(*   alembic/versions/b3e9d71c4a58_one_activity_row_per_trip.py            *)
(*                                                                         *)
(* Before it a row was shared by every trip that listed it, so a split in  *)
(* one trip cut the line of all.  "old" steps lead to the databases the    *)
(* migration may meet; its passes then run in order, in one transaction,   *)
(* and once more, as a re-run would.  A line is the set of its stretches.  *)
(* Ids are 1..MaxRows before the migration and above that for copies; 0 is *)
(* no row.  The names of the pieces are left out.                          *)
(***************************************************************************)
EXTENDS Integers, Sequences, SequencesExt, FiniteSets, FiniteSetsExt

CONSTANTS
    Trips,      \* 1..n, every trip with an owner of its own
    MaxRows,    \* bound: rows before the migration
    MaxOld,     \* bound: steps before the migration
    Stretches,  \* the stretches of a whole line
    None

VARIABLES
    rows,       \* id -> [root, parent, line, orig, owner, sealed, from]
    items,      \* the items of all trips, by id: [trip, row]
    touched,    \* trips whose lock_version and statistics were renewed
    copies,     \* <<trip, row>> -> the trip's copy
    families, pieces,  \* shared heads and pieces, as found before the copies
    pc, round, turn,   \* the pass, the run it belongs to, the trip it is at
    old, before        \* steps before, and the database a run began with

vars == <<rows, items, touched, copies, families, pieces, pc, round, turn, old, before>>

NoMap == [x \in {} |-> 0]

Init ==
    /\ rows = NoMap /\ items = <<>> /\ touched = {} /\ copies = NoMap
    /\ families = NoMap /\ pieces = NoMap
    /\ pc = "old" /\ round = 0 /\ turn = 1 /\ old = 0 /\ before = None

HeldIn(its, t) == {its[i].row : i \in {j \in DOMAIN its : its[j].trip = t}}
Held(t) == HeldIn(items, t)
TripsOf(a) == {items[i].trip : i \in {j \in DOMAIN items : items[j].row = a}}

-----------------------------------------------------------------------------
(* The program as it was: one row for every trip that lists it *)

OldStep ==
    /\ pc = "old" /\ old < MaxOld /\ old' = old + 1
    /\ UNCHANGED <<touched, copies, families, pieces, pc, round, turn, before>>

NextId == Max(DOMAIN rows \cup {0}) + 1

Import(t, sealed) ==
    /\ OldStep /\ old = 0
    /\ rows' = 1 :> [root |-> 0, parent |-> 0, line |-> Stretches, orig |-> {},
                     owner |-> t, sealed |-> sealed, from |-> 1]
    /\ items' = <<[trip |-> t, row |-> 1]>>

List(t, a) ==
    /\ OldStep /\ a \notin Held(t)
    /\ items' = Append(items, [trip |-> t, row |-> a])
    /\ UNCHANGED rows

\* A first edit keeps the line it found, except on rows of old releases.
Split(t, a, at, kept) ==
    /\ OldStep /\ a \in Held(t) /\ a \in DOMAIN rows /\ NextId <= MaxRows
    /\ LET row == rows[a]
           rest == {s \in row.line : s >= at}
       IN  /\ rest # {} /\ rest # row.line
           /\ rows' = (NextId :> [row EXCEPT !.root = IF row.root = 0 THEN a ELSE row.root,
                                             !.parent = a, !.line = rest, !.orig = {},
                                             !.from = NextId])
                      @@ [rows EXCEPT ![a].line = row.line \ rest,
                                      ![a].orig = IF row.orig # {} THEN row.orig
                                                  ELSE IF kept THEN row.line ELSE {}]
    /\ items' = Append(items, [trip |-> t, row |-> NextId])

Unlist(i) ==
    /\ OldStep /\ i \in DOMAIN items
    /\ items' = RemoveAt(items, i) /\ UNCHANGED rows

\* A row is gone while items, and other pieces, still name it.
Drop(a) ==
    /\ OldStep /\ a \in DOMAIN rows
    /\ rows' = [x \in DOMAIN rows \ {a} |-> rows[x]]
    /\ UNCHANGED items

-----------------------------------------------------------------------------
(* The passes of upgrade() *)

Pass(from, to) == pc = from /\ pc' = to /\ UNCHANGED <<round, turn, old, before>>

\* A run of the migration, and another on what the first left.
Upgrade ==
    /\ pc \in {"old", "done"} /\ round < 2
    /\ pc' = "dangling" /\ round' = round + 1 /\ turn' = 1
    /\ before' = [rows |-> rows, items |-> items]
    /\ touched' = {} /\ copies' = NoMap
    /\ UNCHANGED <<rows, items, families, pieces, old>>

NothingTouched(S) == touched

\* What bump_touched will renew.
Touched(S) == touched \cup S

\* delete_dangling_items
DeleteDangling ==
    /\ Pass("dangling", "find")
    /\ items' = SelectSeq(items, LAMBDA i : i.row \in DOMAIN rows)
    /\ touched' = Touched({items[i].trip : i \in {j \in DOMAIN items : items[j].row \notin DOMAIN rows}})
    /\ UNCHANGED <<rows, copies, families, pieces>>

Tails(h) == {a \in DOMAIN rows : rows[a].root = h /\ a # h}
Children(a) == {c \in DOMAIN rows : rows[c].parent = a}
Descendants(a) ==
    LET down[n \in 0..Cardinality(DOMAIN rows)] ==
            IF n = 0 THEN Children(a) ELSE down[n - 1] \cup UNION {Children(c) : c \in down[n - 1]}
    IN  down[Cardinality(DOMAIN rows)] \ {a}

Holding(S) == UNION {TripsOf(a) : a \in S}

\* find_shared_families, find_shared_pieces
FindShared ==
    /\ Pass("find", "copy")
    /\ LET heads == {h \in DOMAIN rows : Tails(h) # {} /\
                        Cardinality(TripsOf(h) \cup Holding(Tails(h))) > 1}
           subs == {a \in DOMAIN rows : Children(a) # {} /\ rows[a].root \notin {0, a} /\
                        Cardinality(TripsOf(a) \cup Holding(Descendants(a))) > 1}
       IN  /\ families' = [h \in heads |->
                 [held |-> TripsOf(h), tails |-> Holding(Tails(h)),
                  children |-> {TripsOf(c) : c \in Tails(h) \cap Children(h)}]]
           /\ pieces' = [a \in subs |-> [held |-> TripsOf(a), cut |-> Holding(Descendants(a))]]
    /\ UNCHANGED <<rows, items, touched, copies>>

FirstHolder(a) == items[Min({i \in DOMAIN items : items[i].row = a})].trip

GivenAlways(row, t) == [row EXCEPT !.owner = t]

\* _give_to_owner: a sealed row stays with the owner whose key reads it.
Given(row, t) == IF row.sealed THEN row ELSE [row EXCEPT !.owner = t]

\* copy_shared_rows: the trip listed first keeps the row, every other gets a copy.
CopyShared ==
    /\ Pass("copy", "remap")
    /\ LET pairs == {<<t, a>> \in Trips \X DOMAIN rows : t \in TripsOf(a) /\ t # FirstHolder(a)}
           order == SetToSeq(pairs)
           free == Max(DOMAIN rows \cup {MaxRows})
       IN  /\ copies' = [p \in pairs |-> free + (CHOOSE i \in DOMAIN order : order[i] = p)]
           /\ rows' = [n \in {copies'[p] : p \in pairs} |->
                          LET p == CHOOSE p \in pairs : copies'[p] = n IN Given(rows[p[2]], p[1])]
                      @@ rows
           /\ items' = [i \in DOMAIN items |->
                  IF <<items[i].trip, items[i].row>> \in pairs
                  THEN [items[i] EXCEPT !.row = copies'[<<items[i].trip, items[i].row>>]]
                  ELSE items[i]]
           /\ touched' = Touched({p[1] : p \in pairs})
    /\ UNCHANGED <<families, pieces>>

RemapNothing(t, l) == l

\* Within a trip a link to a row it was given a copy of names the copy.
Remap(t, l) == IF <<t, l>> \in DOMAIN copies THEN copies[<<t, l>>] ELSE l

HolderOf(a) == CHOOSE t \in Trips : a \in Held(t)

\* remap_families
RemapFamilies ==
    /\ Pass("remap", "heads")
    /\ rows' = [a \in DOMAIN rows |->
          IF TripsOf(a) = {} THEN rows[a]
          ELSE [rows[a] EXCEPT !.root = Remap(HolderOf(a), @), !.parent = Remap(HolderOf(a), @)]]
    /\ UNCHANGED <<items, touched, copies, families, pieces>>

Mine(t, a) == IF <<t, a>> \in DOMAIN copies THEN copies[<<t, a>>] ELSE a

\* _restore: what the row was before its first edit, unless that is sealed or lost.
Restorable(a) == rows[a].orig # {} /\ ~rows[a].sealed

RestoresHeadAnyway(h, t) == t \in families[h].held /\ families[h].tails # {}

\* A trip that holds no tail of a head other trips hold tails of never split it.
RestoresHead(h, t) ==
    t \in families[h].held /\ t \notin families[h].tails /\ families[h].tails # {}

\* repair_heads
RepairHeads ==
    /\ Pass("heads", "pieces")
    /\ LET done == {p \in Trips \X DOMAIN families :
                      RestoresHead(p[2], p[1]) /\ Restorable(Mine(p[1], p[2]))}
           mine == {Mine(p[1], p[2]) : p \in done}
       IN  /\ rows' = [a \in DOMAIN rows |->
                 IF a \notin mine THEN rows[a]
                 ELSE [rows[a] EXCEPT !.line = rows[a].orig, !.orig = {}, !.root = 0, !.parent = 0]]
           /\ touched' = Touched({p[1] : p \in done})
    /\ UNCHANGED <<items, copies, families, pieces>>

RestoresPiece(a, t) ==
    t \in pieces[a].held /\ t \notin pieces[a].cut /\ pieces[a].cut # {}

\* repair_pieces: a piece keeps its links.
RepairPieces ==
    /\ Pass("pieces", "tails")
    /\ LET done == {p \in Trips \X DOMAIN pieces :
                      RestoresPiece(p[2], p[1]) /\ Restorable(Mine(p[1], p[2]))}
           mine == {Mine(p[1], p[2]) : p \in done}
       IN  /\ rows' = [a \in DOMAIN rows |->
                 IF a \notin mine THEN rows[a]
                 ELSE [rows[a] EXCEPT !.line = rows[a].orig, !.orig = {}]]
           /\ touched' = Touched({p[1] : p \in done})
    /\ UNCHANGED <<items, copies, families, pieces>>

NearestUp(start, held) ==
    LET up == IF start \notin DOMAIN rows THEN 0
              ELSE IF rows[start].parent # 0 THEN rows[start].parent ELSE rows[start].root
    IN  IF up \in DOMAIN rows THEN up ELSE 0

\* _nearest_held_ancestor: up the links, out of the trip and back into it.
NearestHeld(start, held) ==
    LET Up(a) == IF a \notin DOMAIN rows THEN 0
                 ELSE IF rows[a].parent # 0 THEN rows[a].parent ELSE rows[a].root
        from[n \in 0..Cardinality(DOMAIN rows), a \in Nat] ==
            IF a = 0 \/ a \in held THEN a ELSE IF n = 0 THEN 0
            ELSE IF Up(a) = a THEN 0 ELSE from[n - 1, Up(a)]
    IN  from[Cardinality(DOMAIN rows), start]

Inside(l, held) == l = 0 \/ l \in held
CrossesRoot(a, held) == ~Inside(rows[a].root, held)

Crosses(a, held) == ~Inside(rows[a].root, held) \/ ~Inside(rows[a].parent, held)

\* _resolve
Resolved(a, held) ==
    LET of[n \in 0..Cardinality(DOMAIN rows), x \in Nat] ==
            IF ~Crosses(x, held) THEN <<rows[x].root, rows[x].parent>>
            ELSE IF n = 0 THEN <<0, 0>>
            ELSE LET up == NearestHeld(IF rows[x].parent # 0 THEN rows[x].parent
                                       ELSE rows[x].root, held)
                     top == IF up = 0 THEN <<0, 0>> ELSE of[n - 1, up]
                 IN  IF up = 0 THEN <<0, 0>>
                     ELSE <<IF top[1] # 0 THEN top[1] ELSE up, up>>
    IN  of[Cardinality(DOMAIN rows), a]

\* repair_crossing_tails, a trip at a time.
RepairTails(t) ==
    /\ pc = "tails" /\ t = turn
    /\ turn' = t + 1 /\ pc' = (IF t + 1 \in Trips THEN "tails" ELSE "give")
    /\ UNCHANGED <<round, old, before>>
    /\ LET held == Held(t)
           crossing == {a \in held : Crosses(a, held)}
       IN  /\ rows' = [a \in DOMAIN rows |->
                 IF a \notin crossing THEN rows[a]
                 ELSE [rows[a] EXCEPT !.root = Resolved(a, held)[1], !.parent = Resolved(a, held)[2]]]
           /\ touched' = Touched(IF crossing = {} THEN {} ELSE {t})
    /\ UNCHANGED <<items, copies, families, pieces>>

\* give_rows_to_trip_owners
GiveRows ==
    /\ Pass("give", "done")
    /\ LET given == {a \in DOMAIN rows : TripsOf(a) # {} /\ Given(rows[a], HolderOf(a)) # rows[a]}
       IN  /\ rows' = [a \in DOMAIN rows |->
                          IF a \in given THEN Given(rows[a], HolderOf(a)) ELSE rows[a]]
           /\ touched' = Touched({HolderOf(a) : a \in given})
    /\ UNCHANGED <<items, copies, families, pieces>>

Next ==
    \/ \E t \in Trips, sealed \in BOOLEAN : Import(t, sealed)
    \/ \E t \in Trips, a \in DOMAIN rows : List(t, a)
    \/ \E t \in Trips, a \in DOMAIN rows, at \in Stretches, kept \in BOOLEAN : Split(t, a, at, kept)
    \/ \E i \in DOMAIN items : Unlist(i)
    \/ \E a \in DOMAIN rows : Drop(a)
    \/ Upgrade \/ DeleteDangling \/ FindShared \/ CopyShared \/ RemapFamilies
    \/ RepairHeads \/ RepairPieces \/ (\E t \in Trips : RepairTails(t)) \/ GiveRows

Spec == Init /\ [][Next]_vars

-----------------------------------------------------------------------------
(* Properties *)

TypeOK ==
    /\ \A a \in DOMAIN rows : rows[a].line \subseteq Stretches /\ rows[a].owner \in Trips
    /\ \A i \in DOMAIN items : items[i].trip \in Trips
    /\ touched \subseteq Trips

Migrated == pc = "done"

\* After the migration no row is shared, every link of a row names a row of its own
\* trip, and a trip lists what it listed before (every item of a row that existed).
OneTripPerRow ==
    Migrated =>
        /\ \A a \in DOMAIN rows : Cardinality(TripsOf(a)) <= 1
        /\ \A t \in Trips : \A a \in Held(t) :
              a \in DOMAIN rows /\ Inside(rows[a].root, Held(t)) /\ Inside(rows[a].parent, Held(t))
        /\ \A t \in Trips :
              {rows[a].from : a \in Held(t)} =
              {before.rows[a].from : a \in HeldIn(before.items, t) \cap DOMAIN before.rows}

\* A piece whose root and parent its trip held keeps its family: its links name that
\* trip's own rows of the same activities (remap_families).
FamiliesKept ==
    Migrated =>
        \A t \in Trips : \A a \in Held(t) :
            LET was == before.rows[rows[a].from]
                held == HeldIn(before.items, t) \cap DOMAIN before.rows
            IN  was.root \in held /\ was.parent \in held /\ round = 1 =>
                    /\ {rows[a].root, rows[a].parent} \subseteq DOMAIN rows
                    /\ rows[rows[a].root].from = was.root /\ rows[rows[a].parent].from = was.parent

\* No repair draws a stretch twice in a trip: a head or a piece grows back only
\* where the trip holds nothing that was cut out of it.
NothingDrawnTwice ==
    Migrated =>
        \A t \in Trips : \A a, b \in Held(t) : a # b => rows[a].line \cap rows[b].line = {}

\* A trip any of whose rows or items changed has had its version and its statistics
\* renewed, so no client and no cache keeps the shape it had (bump_touched).
ChangedIsTouched ==
    Migrated => \A t \in Trips \ touched :
        /\ SelectSeq(items, LAMBDA i : i.trip = t) = SelectSeq(before.items, LAMBDA i : i.trip = t)
        /\ \A a \in Held(t) : rows[a] = before.rows[a]

\* A sealed row stays with the owner whose key reads it.
SealedStays ==
    Migrated => \A a \in DOMAIN rows :
        rows[a].sealed => rows[a].owner = before.rows[rows[a].from].owner

\* "A second run changes nothing" (the migration's own description).
SecondRunIdle == Migrated /\ round = 2 => rows = before.rows /\ items = before.items
=============================================================================
