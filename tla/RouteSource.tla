----------------------------- MODULE RouteSource -----------------------------
(***************************************************************************)
(* Finding the line of a rail, ferry or bus leg.                           *)
(*                                                                         *)
(*   src/services/overpass_service.py  the strategies, and _overpass       *)
(*   src/services/route_source.py      the local ferry and bus stores      *)
(*                                                                         *)
(* A resolve tries its strategies against the local stores and then, by    *)
(* one query at a time, against the Overpass hosts, which all resolves     *)
(* share.  What a leg's data can give is chosen as it is asked for.       *)
(***************************************************************************)
EXTENDS Naturals, FiniteSets, Sequences

CONSTANTS
    Procs,        \* workers resolving legs
    Hosts,        \* _OVERPASS_ENDPOINTS: 1..n
    Concurrency,  \* _OVERPASS_CONCURRENCY, per host
    MaxAsked,     \* bound: legs resolved
    None

VARIABLES
    leg,      \* worker -> its leg
    qry,      \* worker -> the query it is waiting for
    slots,    \* host -> workers holding a slot
    cooling,  \* hosts that are cooling down
    asked,    \* legs asked so far
    begun,    \* history: host -> workers past its cooldown check when it began to cool
    again     \* history: host -> requests it got while cooling

vars == <<leg, qry, slots, cooling, asked, begun, again>>

NoLeg == [kind |-> None, step |-> None, stations |-> 0, uic |-> TRUE, tried |-> {},
          overload |-> FALSE, failed |-> FALSE, out |-> None]
NoQuery == [pc |-> "none", host |-> 0]
Settled(p, out) == leg' = [leg EXCEPT ![p].step = "done", ![p].out = out]
To(p, step) == leg' = [leg EXCEPT ![p].step = step]

Init ==
    /\ leg = [p \in Procs |-> NoLeg]
    /\ qry = [p \in Procs |-> NoQuery]
    /\ slots = [h \in Hosts |-> {}]
    /\ cooling = {}
    /\ asked = 0
    /\ begun = [h \in Hosts |-> {}]
    /\ again = [h \in Hosts |-> 0]

\* A job resolves a leg.
Ask(p) ==
    /\ leg[p].step \in {None, "done"} /\ asked < MaxAsked
    /\ \E kind \in {"rail", "ferry", "bus"} :
         leg' = [leg EXCEPT ![p] = [NoLeg EXCEPT !.kind = kind, !.step = "local"]]
    /\ asked' = asked + 1
    /\ UNCHANGED <<qry, slots, cooling, begun, again>>

FirstStep(kind) == IF kind = "rail" THEN "station" ELSE "A"

LocalNoFallback(p, end) ==
    CASE end = "none" -> To(p, FirstStep(leg[p].kind))
      [] end = "route" -> Settled(p, "route")
      [] OTHER -> Settled(p, "straight")

LocalOverloadFallsBack(p, end) ==
    IF end = "route" THEN Settled(p, "route")
    ELSE leg' = [leg EXCEPT ![p].step = FirstStep(leg[p].kind), ![p].overload = end = "overload"]

\* How the local attempt ends: no local source, a route, none (then Overpass
\* is asked), or a box refused for memory, drawn straight and asked nowhere.
Local(p, end) ==
    CASE end \in {"none", "miss"} -> To(p, FirstStep(leg[p].kind))
      [] end = "route" -> Settled(p, "route")
      [] end = "overload" ->
           leg' = [leg EXCEPT ![p].step = "done", ![p].out = "straight", ![p].overload = TRUE]

TryLocal(p) ==
    /\ leg[p].step = "local"
    /\ \E end \in {"none", "route", "miss", "overload"} : Local(p, end)
    /\ UNCHANGED <<qry, slots, cooling, asked, begun, again>>
-----------------------------------------------------------------------------
(* The strategies.  After(p, ok) is where the chain goes with the answer to *)
(* the step's query: its elements (ok), or OverpassError.                   *)

\* What a query's elements come to: nothing fits, or one candidate is judged to
\* run between the stops at a plausible length.
Judged(ok) == {FALSE, ok}

\* _enrich_uic of both ends: a station, none near, or a lookup that failed.
AfterStation(p, ok) ==
    \E found \in Judged(ok) :
      LET n == leg[p].stations + 1
          uic == leg[p].uic /\ found
      IN  leg' = [leg EXCEPT ![p].stations = n, ![p].failed = @ \/ ~ok, ![p].uic = uic,
                             ![p].step = CASE n < 2 -> "station" [] uic -> "A" [] OTHER -> "B"]

\* A strategy with no acceptable geometry gives way to the next, else `miss'.
Chain(p, ok, last, miss) ==
    \E hit \in Judged(ok) :
      LET s == leg[p].step
          over == hit \/ s = last
      IN  leg' = [leg EXCEPT ![p].failed = @ \/ ~ok,
                    ![p].tried = IF hit THEN @ ELSE @ \cup {s},
                    ![p].step = CASE over -> "done" [] s = "A" -> "B" [] OTHER -> "C",
                    ![p].out = CASE hit -> "route" [] over -> miss [] OTHER -> @]

\* _resolve_rail: A, then B, then C, whose failure is the straight chord.
AfterRail(p, ok) == Chain(p, ok, "C", "straight")

\* _resolve_route: a relation, a tagged way, for a ferry also ferry=yes; a
\* miss raises.
AfterRoute(p, ok) == Chain(p, ok, IF leg[p].kind = "bus" THEN "B" ELSE "C", "raised")

After(p, ok) == CASE leg[p].step = "station" -> AfterStation(p, ok)
                  [] leg[p].kind = "rail" -> AfterRail(p, ok)
                  [] OTHER -> AfterRoute(p, ok)

\* _via_coordinate_fallback refuses a box that is too large without asking.
TooBig(p) ==
    /\ leg[p].kind = "rail" /\ leg[p].step = "C" /\ qry[p] = NoQuery
    /\ leg' = [leg EXCEPT ![p].step = "done", ![p].out = "straight", ![p].tried = @ \cup {"C"}]
    /\ UNCHANGED <<qry, slots, cooling, asked, begun, again>>

\* _overpass: a cached answer, or the first host.
Issue(p) ==
    /\ leg[p].step \in {"station", "A", "B", "C"} /\ qry[p] = NoQuery
    /\ \/ After(p, TRUE) /\ UNCHANGED qry
       \/ qry' = [qry EXCEPT ![p] = [pc |-> "look", host |-> 1]] /\ UNCHANGED leg
    /\ UNCHANGED <<slots, cooling, asked, begun, again>>

NextHost(p) ==
    IF qry[p].host + 1 \in Hosts
    THEN qry' = [qry EXCEPT ![p] = [pc |-> "look", host |-> qry[p].host + 1]] /\ UNCHANGED leg
    ELSE qry' = [qry EXCEPT ![p] = NoQuery] /\ After(p, FALSE)

SkipsNone(h) == FALSE

\* is_cooling, before the wait for a slot.
Skips(h) == h \in cooling

Look(p) ==
    /\ qry[p].pc = "look"
    /\ IF Skips(qry[p].host) THEN NextHost(p)
       ELSE qry' = [qry EXCEPT ![p].pc = "wait"] /\ UNCHANGED leg
    /\ UNCHANGED <<slots, cooling, asked, begun, again>>

\* slot: taken, and the request goes out; or not in time.
Wait(p) ==
    LET h == qry[p].host
    IN  /\ qry[p].pc = "wait"
        /\ \/ /\ Cardinality(slots[h]) < Concurrency
              /\ slots' = [slots EXCEPT ![h] = @ \cup {p}]
              /\ qry' = [qry EXCEPT ![p].pc = "posted"]
              /\ again' = IF h \in cooling THEN [again EXCEPT ![h] = @ + 1] ELSE again
              /\ UNCHANGED leg
           \/ NextHost(p) /\ UNCHANGED <<slots, again>>
        /\ UNCHANGED <<cooling, asked, begun>>

\* mark_cooling.  What has looked already is not told.
Cools(h) ==
    /\ cooling' = cooling \cup {h}
    /\ begun' = IF h \in cooling THEN begun
                ELSE [begun EXCEPT ![h] = {p \in Procs : qry[p].host = h /\ qry[p].pc # "look"}]
    /\ again' = IF h \in cooling THEN again ELSE [again EXCEPT ![h] = 0]

\* The host answers and the slot is free: elements, a refusal or an
\* unreadable body (which will cool it), a client error (which will not); or
\* it cannot be reached, which cools it before the slot is freed.
Answer(p) ==
    LET h == qry[p].host
    IN  /\ qry[p].pc = "posted"
        /\ slots' = [slots EXCEPT ![h] = @ \ {p}]
        /\ \/ /\ qry' = [qry EXCEPT ![p] = NoQuery] /\ After(p, TRUE)
              /\ UNCHANGED <<cooling, begun, again>>
           \/ /\ qry' = [qry EXCEPT ![p].pc = "refused"]
              /\ UNCHANGED <<leg, cooling, begun, again>>
           \/ NextHost(p) /\ UNCHANGED <<cooling, begun, again>>
           \/ NextHost(p) /\ Cools(h)
        /\ UNCHANGED asked

Refused(p) ==
    /\ qry[p].pc = "refused"
    /\ Cools(qry[p].host)
    /\ NextHost(p)
    /\ UNCHANGED <<slots, asked>>

\* A cooldown is over.
Warm(h) ==
    /\ h \in cooling
    /\ cooling' = cooling \ {h}
    /\ begun' = [begun EXCEPT ![h] = {}]
    /\ again' = [again EXCEPT ![h] = 0]
    /\ UNCHANGED <<leg, qry, slots, asked>>

Next ==
    \/ \E p \in Procs : \/ Ask(p) \/ TryLocal(p) \/ TooBig(p) \/ Issue(p) \/ Look(p)
                        \/ Wait(p) \/ Answer(p) \/ Refused(p)
    \/ \E h \in Hosts : Warm(h)

Spec == Init /\ [][Next]_vars
-----------------------------------------------------------------------------
\* Types; a slot is held exactly while its request is out.
TypeOK ==
    /\ \A p \in Procs : /\ leg[p].step \in {None, "local", "station", "A", "B", "C", "done"}
                         /\ (leg[p].step = "done") = (leg[p].out # None)
                         /\ leg[p].out \in {None, "route", "straight", "raised"}
    /\ \A h \in Hosts : /\ Cardinality(slots[h]) <= Concurrency
                         /\ slots[h] = {p \in Procs : qry[p].host = h /\ qry[p].pc = "posted"}
    /\ cooling \subseteq Hosts

\* Strategies that apply to a leg.
Applies(l) == CASE l.kind = "rail" -> (IF l.uic THEN {"A"} ELSE {}) \cup {"B", "C"}
                [] l.kind = "ferry" -> {"A", "B", "C"}
                [] l.kind = "bus" -> {"A", "B"}

\* A miss in the local stores is never why a route is lost: a leg that ends as
\* a straight line or an error had a box refused locally, a query unanswered,
\* or every strategy that applies tried against Overpass in vain.
RealRouteFound ==
    \A p \in Procs : leg[p].out \in {"straight", "raised"} =>
        leg[p].overload \/ leg[p].failed \/ Applies(leg[p]) \subseteq leg[p].tried

\* A box the worker's memory refused is never asked of Overpass instead.
OverloadAsksNobody ==
    \A p \in Procs : leg[p].overload => leg[p].step = "done" /\ qry[p] = NoQuery

\* A host that refused gets, while it cools, at most one more request from each
\* worker that had already passed its check: no retry adds to the refusals.
CoolingBounded ==
    \A h \in Hosts : again[h] <= Cardinality(begun[h])
=============================================================================
