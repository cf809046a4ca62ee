--------------------------- MODULE RelationGraph ---------------------------
(***************************************************************************)
(* The line a route relation gives for a leg.                              *)
(*                                                                         *)
(*   src/services/overpass_service.py   _extract_relation_geometry and the *)
(*                                      graph functions it calls           *)
(*                                                                         *)
(* The relation's member ways make a graph that may be in pieces.  Pieces  *)
(* are joined at a stop the relation names near an end of the leg, the     *)
(* ends are snapped inside one piece, and Dijkstra's search runs one pop   *)
(* per step.  Nodes lie on a line, so that distance is a difference.       *)
(***************************************************************************)
EXTENDS Integers, FiniteSets, FiniteSetsExt, Sequences, Graphs

CONSTANTS
    Nodes,    \* graph nodes
    Pos,      \* node -> where it lies
    Ends,     \* <<from, to>>: where the leg's two stops lie
    Places,   \* where a named stop may lie
    Anchor,   \* _STOP_ANCHOR_KM
    Bridge,   \* _COMPONENT_BRIDGE_M
    None

VARIABLES
    ways,     \* the edges of the member ways
    named,    \* where the relation's stops lie
    edges,    \* the graph searched: ways and bridges
    pc, snap, \* the step, and the two nodes to route between
    homes,    \* components already bridged
    dist,     \* node -> length of the best path found to it
    prev,     \* node -> the node before it on that path
    visited, path

vars == <<ways, named, edges, pc, snap, homes, dist, prev, visited, path>>

Abs(x) == IF x < 0 THEN -x ELSE x
Dist(m, n) == Abs(Pos[m] - Pos[n])
Both(e) == {<<e[1], e[2]>>, <<e[2], e[1]>>}

\* _components
Components(E) ==
    LET C == ConnectionsIn([node |-> Nodes, edge |-> E])
    IN  {{n \in Nodes : n = m \/ C[m, n]} : m \in Nodes}

\* min(component, key = squared distance): any of the nearest.
NearestIn(S, x) == {n \in S : \A m \in S : Abs(Pos[n] - x) <= Abs(Pos[m] - x)}

Init ==
    /\ \E E \in SUBSET {e \in Nodes \X Nodes : e[1] < e[2]} : ways = UNION {Both(e) : e \in E}
    /\ named \in {S \in SUBSET Places : Cardinality(S) <= 2}
    /\ edges = ways
    /\ pc = 1 /\ snap = None /\ homes = {}
    /\ dist = [n \in {} |-> 0] /\ prev = [n \in {} |-> 0]
    /\ visited = {} /\ path = None

\* _relation_stop_near: the named stop nearest this end, within the anchor.
StopsNear(x) ==
    {s \in named : Abs(s - x) <= Anchor /\ \A t \in named : Abs(s - x) <= Abs(t - x)}

ClosestAnyGap(home, other) ==
    {<<a, b>> \in home \X other : \A c \in home, d \in other : Dist(a, b) <= Dist(c, d)}

\* _closest_approaches: one pair per other component, within the limit.
Closest(home, other) ==
    {<<a, b>> \in home \X other :
        Dist(a, b) <= Bridge /\ \A c \in home, d \in other : Dist(a, b) <= Dist(c, d)}

\* _bridge_to_named_stops, one end of the leg; components are the ways' own.
Join(i) ==
    /\ pc = i /\ i \in {1, 2}
    /\ pc' = i + 1
    /\ LET comps == Components(ways)
           none == edges' = edges /\ homes' = homes
       IN  IF Cardinality(comps) < 2 \/ StopsNear(Ends[i]) = {} THEN none
           ELSE \E s \in StopsNear(Ends[i]) : \E near \in NearestIn(Nodes, s) :
                  \E home \in {c \in comps : near \in c} :
                    IF home \in homes THEN none
                    ELSE /\ homes' = homes \cup {home}
                         /\ LET others == {c \in comps \ {home} : Closest(home, c) # {}}
                                One(c) == CHOOSE e \in Closest(home, c) : TRUE
                            IN  edges' = edges \cup UNION {Both(One(c)) : c \in others}
    /\ UNCHANGED <<ways, named, snap, dist, prev, visited, path>>

SnapNearest == {<<a, b>> : a \in NearestIn(Nodes, Ends[1]), b \in NearestIn(Nodes, Ends[2])}

\* _snap_endpoints: inside the component whose own two nearest are nearest.
Snaps ==
    LET Sq(a, b) == (Pos[a] - Ends[1]) * (Pos[a] - Ends[1]) + (Pos[b] - Ends[2]) * (Pos[b] - Ends[2])
        of(c) == {<<a, b>> : a \in NearestIn(c, Ends[1]), b \in NearestIn(c, Ends[2])}
        all == UNION {of(c) : c \in {c \in Components(edges) : Cardinality(c) >= 2}}
    IN  {p \in all : \A r \in all : Sq(p[1], p[2]) <= Sq(r[1], r[2])}

Snap ==
    /\ pc = 3
    /\ IF Snaps = {} THEN pc' = 5 /\ UNCHANGED <<snap, dist, prev>>
       ELSE \E p \in Snaps : /\ snap' = p /\ pc' = 4
                             /\ dist' = [n \in {p[1]} |-> 0]
                             /\ prev' = [n \in {p[1]} |-> None]
    /\ UNCHANGED <<ways, named, edges, homes, visited, path>>

\* The chain of prev back from the end.
Back(n) ==
    LET f[k \in 0..Cardinality(Nodes)] ==
          IF k = 0 THEN <<n>>
          ELSE IF prev[f[k - 1][1]] = None THEN f[k - 1] ELSE <<prev[f[k - 1][1]]>> \o f[k - 1]
    IN  f[Cardinality(Nodes)]

Improves(v, d) == v \notin DOMAIN dist \/ d < dist[v]

ImprovesUnseen(v, d) == v \notin DOMAIN dist

\* Whether a longer way round is replaced by a shorter one found later.
Relaxes(v, d) == Improves(v, d)

\* _dijkstra: pop the nearest unvisited node; stop at the end, or when the heap
\* is empty.
Pop ==
    /\ pc = 4
    /\ LET heap == DOMAIN dist \ visited
       IN  \/ /\ heap = {} /\ pc' = 5
              /\ UNCHANGED <<dist, prev, visited, path>>
           \/ \E u \in heap :
                /\ \A v \in heap : dist[u] <= dist[v]
                /\ visited' = visited \cup {u}
                /\ IF u = snap[2] THEN pc' = 5 /\ path' = Back(u) /\ UNCHANGED <<dist, prev>>
                   ELSE LET new == {v \in Nodes : <<u, v>> \in edges /\ Relaxes(v, dist[u] + Dist(u, v))}
                        IN  /\ dist' = [v \in DOMAIN dist \cup new |->
                                          IF v \in new THEN dist[u] + Dist(u, v) ELSE dist[v]]
                            /\ prev' = [v \in DOMAIN dist \cup new |-> IF v \in new THEN u ELSE prev[v]]
                            /\ UNCHANGED <<pc, path>>
    /\ UNCHANGED <<ways, named, edges, homes, snap>>

Next == (\E i \in {1, 2} : Join(i)) \/ Snap \/ Pop

Spec == Init /\ [][Next]_vars
-----------------------------------------------------------------------------
\* The line never jumps: two neighbours on it are joined by a member way, or
\* lie within the bridge limit with one of them in a piece that holds a stop
\* the relation names near an end of this leg.
NoTeleport ==
    path # None => \A i \in 1..(Len(path) - 1) :
        LET a == path[i] b == path[i + 1]
        IN  \/ <<a, b>> \in ways
            \/ /\ Dist(a, b) <= Bridge
               /\ \E c \in Components(ways), e \in {1, 2} :
                    /\ {a, b} \cap c # {}
                    /\ \E s \in StopsNear(Ends[e]) : NearestIn(Nodes, s) \cap c # {}

\* A relation in pieces gives its best piece, not nothing: the search fails only
\* where no two nodes are joined.
PieceIsRouted == pc = 5 /\ path = None => edges = {}

\* The search finds a shortest path: no simple path between the snapped nodes
\* is shorter (a reference over all of them).
Shortest ==
    pc = 5 /\ path # None =>
        LET Length(p) == MapThenSumSet(LAMBDA i : Dist(p[i], p[i + 1]), 1..(Len(p) - 1))
            Runs(p) == \A i \in 1..(Len(p) - 1) : <<p[i], p[i + 1]>> \in edges
        IN  /\ Runs(path) /\ path[1] = snap[1] /\ path[Len(path)] = snap[2]
            /\ \A p \in {q \in UNION {[1..k -> Nodes] : k \in 1..Cardinality(Nodes)} :
                           q[1] = snap[1] /\ q[Len(q)] = snap[2]} :
                 Runs(p) => Length(path) <= Length(p)
=============================================================================
