---------------------------- MODULE RailExtract -----------------------------
(***************************************************************************)
(* One region's map, filtered into one layer's file and built into a store. *)
(*                                                                         *)
(*   scripts/build_rail_extract.py   prefilter and select, in CI           *)
(*   src/rail/builder.py             build_store, on the box               *)
(*                                                                         *)
(* The two halves share the file and nothing else, and must agree on what  *)
(* is in it.  An element is its tags and what it names; a file holds some  *)
(* of the nodes, ways and relations there are, as an extract clipped at a  *)
(* border does.  A node's place is its number, on a line.  Each action is  *)
(* one pass over the file.                                                 *)
(***************************************************************************)
EXTENDS Integers, FiniteSets, FiniteSetsExt, Functions

CONSTANTS
    NodeTags,     \* node -> the tag sets it may have
    WayTags,      \* way -> the tag sets it may have
    Refs,         \* way -> its nodes
    RelTags,      \* the tag sets a relation may have
    MemberWays,   \* the sets of ways a relation may name
    MemberNodes,  \* the sets of nodes a relation may name
    Clips,        \* [nodes, ways] an extract may lack
    None

VARIABLES
    layer,   \* the layer built
    world,   \* the raw extract
    file,    \* the file read or written: prefiltered, then selected
    sel,     \* what select gathers in its first two passes
    entry,   \* the manifest entry, or None
    store,   \* the store being built
    pc

vars == <<layer, world, file, sel, entry, store, pc>>

Layers == {"rail", "ferry", "bus"}
Rel == 1   \* the one relation
-----------------------------------------------------------------------------
IsRailWay(tags) == "rail" \in tags /\ "service" \notin tags
IsStation(tags) == "station" \in tags /\ "uic" \in tags

IsUicNodeStationsOnly(tags) == IsStation(tags)

\* A node a UIC lookup can land on: station or bare stop.
IsUicNode(tags) == "uic" \in tags

\* The route= values of a layer's relations.
RouteTag(l) == CASE l = "rail" -> "route=train" [] l = "ferry" -> "route=ferry" [] OTHER -> "route=bus"
IsRoute(l, tags) == RouteTag(l) \in tags
KeepsRelation(l, tags) == IsRoute(l, tags) \/ (l = "rail" /\ IsStation(tags))

\* The class bits, and each layer's routable set.
Routable(l) == CASE l = "rail" -> {"route"}
                 [] l = "ferry" -> {"route", "ferry", "member"}
                 [] OTHER -> {"route", "member"}
RouteClass(l, tags) == IF l = "rail" THEN IsRailWay(tags) ELSE RouteTag(l) \in tags
OwnClass(l, tags) == (IF RouteClass(l, tags) THEN {"route"} ELSE {})
                     \cup (IF "ferry=yes" \in tags THEN {"ferry"} ELSE {})
WayClass(l, tags, member) == OwnClass(l, tags) \cup (IF member THEN {"member"} ELSE {})
IsRoutable(l, cls) == cls \cap Routable(l) # {}

\* Rail keeps station polygons and what its relations name as geometry too.
KeepsWay(l, tags, member) ==
    IF l = "rail" THEN IsRailWay(tags) \/ IsStation(tags) \/ member
    ELSE IsRoutable(l, WayClass(l, tags, member))

\* LAYER_TAGS: all the builder reads.  Rail keeps every tag.
KeptTags == {"route=train", "route=ferry", "route=bus", "ferry=yes", "uic", "rail", "station"}
Stripped(l, tags) == IF l = "rail" THEN tags ELSE tags \cap KeptTags

Nodes(f) == DOMAIN f.nodes
WaysOf(f) == DOMAIN f.ways
Part(f, ns, ws, rs) == [nodes |-> Restrict(f.nodes, ns), ways |-> Restrict(f.ways, ws),
                        rels |-> Restrict(f.rels, rs)]
RefsOf(ws) == UNION {Refs[w] : w \in ws}
NamedWays(f, rs) == UNION {f.rels[r].ways : r \in rs}
NamedNodes(f, rs) == UNION {f.rels[r].nodes : r \in rs}

\* The box of a set of nodes, and twice its centre.
Box(ns) == IF ns = {} THEN None ELSE <<Min(ns), Max(ns)>>
Centre(ns) == Min(ns) + Max(ns)

EmptyStore == [ways |-> [w \in {} |-> {}], uic |-> {}, located |-> {}, stations |-> {},
               partial |-> 0, pending |-> {}, calls |-> {}, serves |-> {}, memberWays |-> {},
               extent |-> {}, missing |-> 0, refs |-> 0, routable |-> 0]
-----------------------------------------------------------------------------
Init ==
    /\ layer \in Layers
    /\ \E clip \in Clips, ms \in MemberWays, ns \in MemberNodes, rt \in RelTags :
       \E wt \in {f \in [DOMAIN WayTags -> UNION Range(WayTags)] : \A w \in DOMAIN f : f[w] \in WayTags[w]} :
       \E nt \in {f \in [DOMAIN NodeTags -> UNION Range(NodeTags)] : \A n \in DOMAIN f : f[n] \in NodeTags[n]} :
          world = [nodes |-> Restrict(nt, DOMAIN NodeTags \ clip.nodes),
                   ways |-> Restrict(wt, DOMAIN WayTags \ clip.ways),
                   rels |-> [r \in {Rel} |-> [tags |-> rt, ways |-> ms, nodes |-> ns]]]
    /\ file = world
    /\ sel = [named |-> {}, wanted |-> {}, stops |-> {}, routable |-> {}]
    /\ entry = None /\ store = EmptyStore /\ pc = "prefilter"

\* prefilter: osmium tags-filter, every row ORed, with what the matches name.
PrefilterWayTagsNoHoppers == {"rail", "station", "route=bus", "route=ferry"}
PrefilterWayTags == {"rail", "station", "route=bus", "route=ferry", "ferry=yes"}
PrefilterRelTags == {"route=train", "route=bus", "route=ferry", "station"}

Prefilter ==
    /\ pc = "prefilter"
    /\ LET rs == {r \in DOMAIN world.rels : world.rels[r].tags \cap PrefilterRelTags # {}}
           ws == {w \in WaysOf(world) : \/ world.ways[w] \cap PrefilterWayTags # {}
                                        \/ w \in NamedWays(world, rs)}
           ns == {n \in Nodes(world) : "uic" \in world.nodes[n]} \cup NamedNodes(world, rs) \cup RefsOf(ws)
       IN  file' = Part(world, ns \cap Nodes(world), ws, rs)
    /\ pc' = "relations"
    /\ UNCHANGED <<layer, world, sel, entry, store>>

\* select, pass 1: what the kept relations need.
RelationPass ==
    /\ pc = "relations"
    /\ LET kept == {r \in DOMAIN file.rels : KeepsRelation(layer, file.rels[r].tags)}
           stations == {r \in kept : layer = "rail" /\ IsStation(file.rels[r].tags)}
       IN  sel' = [sel EXCEPT !.named = NamedWays(file, kept),
                              !.wanted = NamedNodes(file, stations),
                              !.stops = IF layer = "rail" THEN {} ELSE NamedNodes(file, kept)]
    /\ pc' = "ways"
    /\ UNCHANGED <<layer, world, file, entry, store>>

Kept(f) == {w \in WaysOf(f) : KeepsWay(layer, f.ways[w], w \in sel.named)}
Counted(f) == {w \in Kept(f) : IsRoutable(layer, WayClass(layer, f.ways[w], w \in sel.named))}

\* select, pass 2: what the kept ways need.  Ferry and bus share one set for
\* their wanted and their routable nodes.
WayPass ==
    /\ pc = "ways"
    /\ LET wanted == sel.wanted \cup RefsOf(Kept(file))
       IN  sel' = [sel EXCEPT !.wanted = wanted,
                              !.routable = IF layer = "rail" THEN RefsOf(Counted(file)) ELSE wanted]
    /\ pc' = "write"
    /\ UNCHANGED <<layer, world, file, entry, store>>

WrittenNodes ==
    {n \in Nodes(file) : \/ n \in sel.wanted \cup sel.stops
                         \/ layer = "rail" /\ IsUicNode(file.nodes[n])}

\* The manifest's box is over the routable nodes the file holds.
Measured == Box(sel.routable \cap WrittenNodes)

\* select, pass 3, and build: an empty routable set publishes no file.
WritePass ==
    /\ pc = "write"
    /\ LET rs == {r \in DOMAIN file.rels : KeepsRelation(layer, file.rels[r].tags)}
           part == Part(file, WrittenNodes, Kept(file), rs)
           ok == Counted(file) # {}
       IN  /\ file' = [nodes |-> [n \in DOMAIN part.nodes |-> Stripped(layer, part.nodes[n])],
                       ways |-> [w \in DOMAIN part.ways |-> Stripped(layer, part.ways[w])],
                       rels |-> [r \in rs |-> [part.rels[r] EXCEPT !.tags = Stripped(layer, @)]]]
           /\ entry' = [status |-> IF ok THEN "ok" ELSE "empty",
                        ways |-> Cardinality(Counted(file)),
                        bbox |-> IF ok THEN Measured ELSE None]
           /\ pc' = IF ok THEN "nodes" ELSE "done"
    /\ UNCHANGED <<layer, world, sel, store>>
-----------------------------------------------------------------------------
Station(type, id, at) == [type |-> type, id |-> id, at |-> at]

\* build_store: the nodes.
BuildNodes ==
    /\ pc = "nodes"
    /\ LET uic == {n \in Nodes(file) : "uic" \in file.nodes[n]}
       IN  store' = [store EXCEPT !.uic = uic,
                                  !.stations = {Station("node", n, 2 * n) :
                                                n \in {n \in uic : IsStation(file.nodes[n])}}]
    /\ pc' = "buildWays"
    /\ UNCHANGED <<layer, world, file, sel, entry>>

\* The nodes of a way that the file locates.
Points(w) == Refs[w] \cap Nodes(file)

\* A way left with fewer than two points is dropped; the extent is over the
\* ways whose own tags make them routable.
BuildWays ==
    /\ pc = "buildWays"
    /\ LET held == {w \in WaysOf(file) : Cardinality(Points(w)) >= 2}
           cls == [w \in held |-> OwnClass(layer, file.ways[w])]
           own == {w \in held : IsRoutable(layer, cls[w])}
           missing(w) == Cardinality(Refs[w] \ Nodes(file))
           stations == {w \in held : IsStation(file.ways[w])}
       IN  store' = [store EXCEPT
               !.ways = cls,
               !.extent = UNION {Points(w) : w \in own},
               !.stations = @ \cup {Station("way", w, Centre(Points(w))) : w \in stations},
               !.missing = MapThenSumSet(missing, WaysOf(file)),
               !.refs = MapThenSumSet(LAMBDA w : Cardinality(Refs[w]), WaysOf(file))]
    /\ pc' = "buildRelations"
    /\ UNCHANGED <<layer, world, file, sel, entry>>

\* A stop's location: rail knows the uic_ref nodes' alone, ferry and bus any
\* node's the file holds.
PlacedStops(f) == IF layer = "rail" THEN store.uic ELSE Nodes(f)

BuildRelations ==
    /\ pc = "buildRelations"
    /\ LET routes == {r \in DOMAIN file.rels : IsRoute(layer, file.rels[r].tags)}
           calls == UNION {{[rel |-> r, node |-> n, located |-> n \in PlacedStops(file)] :
                            n \in file.rels[r].nodes} : r \in routes}
       IN  store' = [store EXCEPT
               !.pending = {r \in DOMAIN file.rels : IsStation(file.rels[r].tags)},
               !.memberWays = NamedWays(file, routes),
               !.calls = calls,
               !.serves = {c \in calls : c.node \in store.uic}]
    /\ pc' = "stations"
    /\ UNCHANGED <<layer, world, file, sel, entry>>

\* _members_extent: the ways the store holds and the nodes it can locate.
MembersHeld(r) == (UNION {Points(w) : w \in file.rels[r].ways \cap DOMAIN store.ways})
                  \cup (file.rels[r].nodes \cap store.uic)
PartialNever(r) == FALSE
Partial(r) == ~(file.rels[r].ways \subseteq DOMAIN store.ways /\ file.rels[r].nodes \subseteq store.uic)

\* The station relations, once every way is in.
PlaceStations ==
    /\ pc = "stations"
    /\ LET placed == {r \in store.pending : MembersHeld(r) # {}}
       IN  store' = [store EXCEPT
               !.stations = @ \cup {Station("relation", r, Centre(MembersHeld(r))) : r \in placed},
               !.partial = Cardinality({r \in placed : Partial(r)})]
    /\ pc' = "classify"
    /\ UNCHANGED <<layer, world, file, sel, entry>>

ClassifyExtentKept ==
    /\ pc = "classify"
    /\ LET cls == [w \in DOMAIN store.ways |->
                     store.ways[w] \cup (IF w \in store.memberWays THEN {"member"} ELSE {})]
       IN  store' = [store EXCEPT
               !.ways = cls,
               !.routable = Cardinality({w \in DOMAIN cls : IsRoutable(layer, cls[w])})]
    /\ pc' = "judge"
    /\ UNCHANGED <<layer, world, file, sel, entry>>

\* Bit 2, and the extent of the ways only membership makes routable.
Classify ==
    /\ pc = "classify"
    /\ LET cls == [w \in DOMAIN store.ways |->
                     store.ways[w] \cup (IF w \in store.memberWays THEN {"member"} ELSE {})]
           byMembership == {w \in DOMAIN cls : /\ "member" \in cls[w] \cap Routable(layer)
                                               /\ ~IsRoutable(layer, cls[w] \ {"member"})}
       IN  store' = [store EXCEPT
               !.ways = cls,
               !.extent = @ \cup UNION {Points(w) : w \in byMembership},
               !.routable = Cardinality({w \in DOMAIN cls : IsRoutable(layer, cls[w])})]
    /\ pc' = "judge"
    /\ UNCHANGED <<layer, world, file, sel, entry>>

\* Refused: nothing routable, or over 1 % of the ways' nodes not located.
Judge ==
    /\ pc = "judge"
    /\ pc' = IF store.routable = 0 \/ store.missing * 100 > store.refs THEN "refused" ELSE "built"
    /\ UNCHANGED <<layer, world, file, sel, entry, store>>

Next == Prefilter \/ RelationPass \/ WayPass \/ WritePass \/ BuildNodes \/ BuildWays
        \/ BuildRelations \/ PlaceStations \/ Classify \/ Judge

Spec == Init /\ [][Next]_vars
-----------------------------------------------------------------------------
TypeOK ==
    /\ layer \in Layers
    /\ file.ways \in [WaysOf(file) -> SUBSET UNION UNION Range(WayTags)] /\ WaysOf(file) \subseteq WaysOf(world)
    /\ Nodes(file) \subseteq Nodes(world)
    /\ sel.routable \subseteq sel.wanted /\ store.serves \subseteq store.calls
    /\ pc \in {"prefilter", "relations", "ways", "write", "nodes", "buildWays", "buildRelations",
               "stations", "classify", "judge", "built", "refused", "done"}

\* A way's nodes are all in the raw extract: what `osmium extract` guarantees of
\* the ways it keeps.
Complete == RefsOf(WaysOf(world)) \subseteq Nodes(world)

Routes == {r \in DOMAIN world.rels : IsRoute(layer, world.rels[r].tags)}

\* "One table, so CI never publishes a file the builder refuses and the
\* manifest's box is the store's": the two halves class the ways separately,
\* one from the raw tags before the relations are written, one from the tags
\* that survive the file.
PublishedIsAccepted ==
    Complete =>
        /\ pc # "refused"
        /\ pc = "built" => /\ store.routable = entry.ways
                           /\ Box(store.extent) = entry.bbox

\* Nothing a query could route over is lost on the way: an empty layer is one
\* whose raw extract has no way of the routable set.
EmptyIsEmpty ==
    pc = "done" =>
        \A w \in WaysOf(world) : ~IsRoutable(layer, WayClass(layer, world.ways[w], w \in NamedWays(world, Routes)))

\* A relation is found from the codes of the stops it calls at, tagged as
\* stations or not, and a ferry or bus stop the extract holds is placed.
StopsKnown ==
    pc = "built" =>
        \A r \in Routes : \A n \in world.rels[r].nodes \cap Nodes(world) :
            /\ layer = "rail" /\ "uic" \in world.nodes[n] => \E c \in store.serves : c.rel = r /\ c.node = n
            /\ layer # "rail" => \E c \in store.calls : c.rel = r /\ c.node = n /\ c.located

\* A station mapped as a polygon or a relation is where the map service puts it,
\* at the centre of all its members, unless the store counts it as partial.
StationsPlaced ==
    layer = "rail" /\ pc = "built" /\ Complete =>
        /\ \A w \in WaysOf(world) : IsStation(world.ways[w]) => Station("way", w, Centre(Refs[w])) \in store.stations
        /\ \A r \in DOMAIN world.rels :
            LET here == RefsOf(world.rels[r].ways) \cup world.rels[r].nodes
            IN  IsStation(world.rels[r].tags) /\ here # {} =>
                    \/ Station("relation", r, Centre(here)) \in store.stations
                    \/ store.partial > 0
                    \/ MembersHeld(r) = {}
=============================================================================
