----------------------------- MODULE RailSource -----------------------------
(***************************************************************************)
(* Answering the router from several regions' rail stores.                 *)
(*                                                                         *)
(*   src/services/rail_source.py   LocalRailSource: merging the regions    *)
(*   src/rail/store.py             RailStore: one region's answers         *)
(*                                                                         *)
(* A query is asked of the regions in order, one step each; a file whose   *)
(* pages are damaged may fail at any of them.  Three questions are         *)
(* modelled: the ways in a box, a relation's members and, of one store,    *)
(* the nearest vertex of its track.  Coordinates are grid points around    *)
(* the point asked about.                                                  *)
(***************************************************************************)
EXTENDS Integers, Sequences, FiniteSets, FiniteSetsExt

CONSTANTS
    Regions,   \* 1..n: the regions whose extent overlaps the box, sorted
    Ways,      \* way ids
    Lengths,   \* vertex counts a way may have; 0 where a region lacks it
    Ceiling,   \* _MAX_BBOX_VERTICES
    Refs,      \* ids of a relation's members
    Grid,      \* coordinates of a vertex
    Ladder,    \* _SEARCH_STEPS_DEG, then the cap
    None

VARIABLES
    held,      \* region -> way -> vertices of its copy
    rel,       \* region -> its copy of a relation's member list, or None
    track,     \* the ways of one store, each a set of vertices
    broken,    \* regions whose file fails when read
    q          \* the query

vars == <<held, rel, track, broken, q>>

Nothing == [x \in {} |-> 0]
Query(kind) == [kind |-> kind, pc |-> "first", at |-> 1, stores |-> {}, counts |-> Nothing,
                ways |-> Nothing, rel |-> None, best |-> None, failed |-> FALSE]

\* vertex_counts_in_bbox and ways_in_bbox of one store: what it holds.
Copy(r) == [w \in {w \in Ways : held[r][w] > 0} |-> held[r][w]]
Total(c) == MapThenSumSet(LAMBDA w : c[w], DOMAIN c)

\* dict.setdefault over another's items.
SetDefault(f, g) == [x \in DOMAIN f \cup DOMAIN g |-> IF x \in DOMAIN f THEN f[x] ELSE g[x]]

\* dict.update
Update(f, g) == SetDefault(g, f)

\* The size charged for a shared way is its first region's.
Charge(f, g) == SetDefault(f, g)
-----------------------------------------------------------------------------
Members == UNION {[1..n -> [ref : Refs, held : BOOLEAN]] : n \in 1..2}
Vertices == Grid \X Grid
NoWays == [r \in Regions |-> [w \in Ways |-> 0]]
NoRel == [r \in Regions |-> None]

Init ==
    /\ broken = {}
    /\ \/ /\ q = Query("ways") /\ held \in [Regions -> [Ways -> Lengths]]
          /\ rel = NoRel /\ track = {}
       \/ /\ q = Query("relation") /\ rel \in [Regions -> Members \cup {None}]
          /\ held = NoWays /\ track = {}
       \/ /\ q = Query("nearest") /\ \E a, b \in {{v, w} : v, w \in Vertices} : track = {a, b}
          /\ held = NoWays /\ rel = NoRel

\* A page of a region's file can no longer be read.
Break(r) ==
    /\ q.kind # "nearest" /\ q.pc \in {"first", "second"} /\ r \notin broken
    /\ broken' = broken \cup {r}
    /\ UNCHANGED <<held, rel, track, q>>

\* The first pass of ways_in_bbox: count, per way id, before decoding.  A store
\* that fails (_ask) is left out of the second pass.
CountWays(r) ==
    /\ q.kind = "ways" /\ q.pc = "first" /\ q.at = r
    /\ LET c == IF r \in broken THEN q.counts ELSE Charge(q.counts, Copy(r))
           over == r + 1 \notin Regions /\ Total(c) > Ceiling
       IN  q' = [q EXCEPT !.counts = c,
                          !.stores = IF r \in broken THEN @ ELSE @ \cup {r},
                          !.at = IF r + 1 \in Regions THEN r + 1 ELSE 1,
                          !.pc = CASE r + 1 \in Regions -> "first"
                                   [] over -> "overload"
                                   [] OTHER -> "second"]
    /\ UNCHANGED <<held, rel, track, broken>>

\* The second pass: decode, keeping the first copy.  The store's own ceiling
\* raises RailStoreError, which becomes an overload too.
DecodeWays(r) ==
    /\ q.kind = "ways" /\ q.pc = "second" /\ q.at = r
    /\ LET asked == r \in q.stores
           fails == asked /\ r \in broken
           over == asked /\ ~fails /\ Total(Copy(r)) > Ceiling
       IN  q' = [q EXCEPT !.ways = IF asked /\ ~fails /\ ~over THEN SetDefault(@, Copy(r)) ELSE @,
                          !.failed = @ \/ fails,
                          !.at = r + 1,
                          !.pc = CASE over -> "backstop"
                                   [] r + 1 \in Regions -> "second"
                                   [] OTHER -> "done"]
    /\ UNCHANGED <<held, rel, track, broken>>

Missing(ms) == Cardinality({i \in DOMAIN ms : ~ms[i].held})

MergeMembersAnyRef(a, b) ==
    IF Len(a) # Len(b) THEN IF Missing(a) <= Missing(b) THEN a ELSE b
    ELSE [i \in DOMAIN a |-> IF ~a[i].held /\ b[i].held THEN b[i] ELSE a[i]]

\* _merge_members: fill a's gaps from b where the two name the same member.
MergeMembers(a, b) ==
    IF Len(a) # Len(b) THEN IF Missing(a) <= Missing(b) THEN a ELSE b
    ELSE [i \in DOMAIN a |->
            IF ~a[i].held /\ b[i].held /\ a[i].ref = b[i].ref THEN b[i] ELSE a[i]]

\* _merge_relations, one region's relation_geometry at a time.
MergeRelation(r) ==
    /\ q.kind = "relation" /\ q.pc = "first" /\ q.at = r
    /\ LET found == r \notin broken /\ rel[r] # None
       IN  q' = [q EXCEPT !.rel = CASE ~found -> @
                                    [] @ = None -> rel[r]
                                    [] OTHER -> MergeMembers(@, rel[r]),
                          !.stores = IF found THEN @ \cup {r} ELSE @,
                          !.at = r + 1,
                          !.pc = IF r + 1 \in Regions THEN "first" ELSE "done"]
    /\ UNCHANGED <<held, rel, track, broken>>

Sq(v) == v[1] * v[1] + v[2] * v[2]
Reaches(w, i, h) == Min({v[i] : v \in w}) <= h /\ Max({v[i] : v \in w}) >= -h

\* _in_box: the ways whose extent overlaps the square of half-side h.
InBox(h) == {w \in track : Reaches(w, 1, h) /\ Reaches(w, 2, h)}

AcceptedAll(h) == UNION InBox(h)

\* Only a vertex within h counts: the square may hold nearer ones outside it.
Accepted(h) == {v \in UNION InBox(h) : Sq(v) <= h * h}

\* One rung of nearest_node's ladder.
Search(i) ==
    /\ q.kind = "nearest" /\ q.pc = "first" /\ q.at = i
    /\ LET c == Accepted(Ladder[i])
       IN  IF c # {}
           THEN \E v \in c : /\ \A u \in c : Sq(v) <= Sq(u)
                             /\ q' = [q EXCEPT !.best = v, !.pc = "done"]
           ELSE q' = [q EXCEPT !.at = @ + 1, !.pc = IF i < Len(Ladder) THEN "first" ELSE "done"]
    /\ UNCHANGED <<held, rel, track, broken>>

Next ==
    \/ \E r \in Regions : Break(r) \/ CountWays(r) \/ DecodeWays(r) \/ MergeRelation(r)
    \/ \E i \in DOMAIN Ladder : Search(i)

Spec == Init /\ [][Next]_vars
-----------------------------------------------------------------------------
\* The merged answer stays within the worker's memory ceiling when two regions
\* hold copies of different length of one way (an OSM edit between their
\* dates); unless a file fails between the counting and the decoding pass.
WithinCeiling == q.kind = "ways" /\ ~q.failed => Total(q.ways) <= Ceiling

\* A finished answer has each way of each region that could be read, once.
EveryWayOnce ==
    q.kind = "ways" /\ q.pc = "done" /\ ~q.failed
        => q.ways = q.counts /\ DOMAIN q.ways = UNION {DOMAIN Copy(r) : r \in q.stores}

\* Merging a cross-border relation never splices two memberships: the merged
\* list names the members of one region's copy; and where the copies agree,
\* a member is held as soon as one region holds it.
MergedOneMembership ==
    q.kind = "relation" /\ q.rel # None =>
        LET refs(ms) == [i \in DOMAIN ms |-> ms[i].ref]
        IN  /\ \E r \in q.stores : refs(q.rel) = refs(rel[r])
            /\ (\A r, s \in q.stores : refs(rel[r]) = refs(rel[s]))
                 => \A i \in DOMAIN q.rel :
                      q.rel[i].held = \E r \in q.stores : rel[r][i].held

\* nearest_node finds what a scan of every vertex would: nothing nearer exists,
\* and it gives up only when nothing lies within the last rung.
NearestIsNearest ==
    q.kind = "nearest" /\ q.pc = "done" =>
        IF q.best = None THEN \A v \in UNION track : Sq(v) > Ladder[Len(Ladder)] * Ladder[Len(Ladder)]
        ELSE \A v \in UNION track : Sq(q.best) <= Sq(v)
=============================================================================
