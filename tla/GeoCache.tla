------------------------------ MODULE GeoCache ------------------------------
(***************************************************************************)
(* The payload caches of one trip: gzipped bytes per endpoint, and the     *)
(* trip prepared for simplification, in every process that serves it.      *)
(*                                                                         *)
(*   api/geo.py              the caches, the generation counter, the       *)
(*                           simplified route with its build lock          *)
(*   api/project_shared.py   bust_project_payloads, the /meta warmer       *)
(*   api/projects.py         the routes served from the same cache         *)
(*                                                                         *)
(* A payload is the version of the trip it was built from.  Nothing is     *)
(* locked across a read of the database or of Redis, so every lookup,      *)
(* generation read, load and store below is a step of its own.  Expiry and *)
(* the size bounds only ever remove an entry: Evict does, at any time.     *)
(***************************************************************************)
EXTENDS Naturals

CONSTANTS
    Procs,       \* the processes that serve or change the trip
    Reqs,        \* requests under way
    Muts,        \* mutating requests under way
    MaxVersion,  \* bound: mutations of the trip
    MaxReqs,     \* bound: requests served
    None

VARIABLES
    db,        \* the trip's version
    working,   \* the processes at work: without Redis no worker can be
               \* dispatched to, and one process does everything
    redis,     \* the generation in Redis
    gen,       \* _geo_gen: the generation each process counts itself
    bytes,     \* _geo_cache: per process and endpoint, the entry or None
    track,     \* _track_cache: per process, the entry or None
    holder,    \* per process, the request inside the build lock, or None
    req,       \* per slot, a request
    mut,       \* per slot, a mutating request
    done,      \* history: the newest version whose bust has finished
    served     \* requests begun so far

vars == <<db, working, redis, gen, bytes, track, holder, req, mut, done, served>>
caches == <<bytes, track>>

\* "plain" stands for the routes built straight from the database (/project,
\* low-res, /meta, details, elevation), "simp" for the simplified one.
Keys  == {"plain", "simp"}
Entry == [v : Nat, gen : Nat]
Idle  == [pc |-> "idle"]

\* Where a request is between taking the build lock and leaving it.
Inside == {"track2", "trackcheck2", "trackgen", "trackload", "trackstorecheck", "trackstore"}

\* Whether Redis is configured.
shared == working = Procs

\* Mutant (issue #173): every process trusts its own counter.
LocalGeneration(p) == gen[p]

\* _geo_generation
Generation(p) == IF shared THEN redis ELSE gen[p]
-----------------------------------------------------------------------------
Goto(r, next) == req' = [req EXCEPT ![r].pc = next]

\* A request arrives; a warmer starts where a miss does.  floor is what had
\* been changed and busted before.
Begin(r, p, kind) ==
    /\ req[r] = Idle /\ served < MaxReqs /\ p \in working
    /\ served' = served + 1
    /\ req' = [req EXCEPT ![r] =
                 [pc |-> IF kind = "warm" THEN "gen" ELSE "get",
                  p |-> p, key |-> IF kind = "simp" THEN "simp" ELSE "plain",
                  floor |-> done, gen |-> 0, seen |-> 0, v |-> 0]]
    /\ UNCHANGED <<db, working, redis, gen, caches, holder, mut, done>>

Answer(r) == req' = [req EXCEPT ![r].pc = "answer"]

\* _geo_cache_get: the entry is read under the lock...
GetBytes(r) ==
    LET e == bytes[req[r].p][req[r].key]
    IN  /\ req[r].pc = "get"
        /\ req' = [req EXCEPT ![r] =
                     IF e = None THEN [@ EXCEPT !.pc = "gen"]
                     ELSE [@ EXCEPT !.pc = "check", !.v = e.v, !.seen = e.gen]]
        /\ UNCHANGED <<db, working, redis, gen, caches, holder, mut, done, served>>

\* ...and its generation compared outside it; a superseded one is dropped.
CheckBytes(r) ==
    LET p == req[r].p
        fresh == req[r].seen = Generation(p)
    IN  /\ req[r].pc = "check"
        /\ req' = [req EXCEPT ![r] = IF fresh THEN [@ EXCEPT !.pc = "answer"]
                                    ELSE [@ EXCEPT !.pc = "gen", !.v = 0, !.seen = 0]]
        /\ bytes' = IF fresh THEN bytes ELSE [bytes EXCEPT ![p][req[r].key] = None]
        /\ UNCHANGED <<db, working, redis, gen, track, holder, mut, done, served>>

\* The generation is captured before anything is read.
Capture(r) ==
    /\ req[r].pc = "gen"
    /\ req' = [req EXCEPT ![r].gen = Generation(req[r].p),
                          ![r].pc = IF req[r].key = "simp" THEN "track" ELSE "load"]
    /\ UNCHANGED <<db, working, redis, gen, caches, holder, mut, done, served>>

\* The payload is built from the database.
Load(r) ==
    /\ req[r].pc = "load"
    /\ req' = [req EXCEPT ![r].v = db, ![r].pc = "storecheck"]
    /\ UNCHANGED <<db, working, redis, gen, caches, holder, mut, done, served>>

\* _geo_cache_store: refused when the generation moved since it was captured...
CheckStore(r) ==
    /\ req[r].pc = "storecheck"
    /\ Goto(r, IF Generation(req[r].p) = req[r].gen THEN "store" ELSE "answer")
    /\ UNCHANGED <<db, working, redis, gen, caches, holder, mut, done, served>>

\* Mutant (issue #132): the entry is stamped with the generation of now.
StoreStampedLate(r) ==
    /\ req[r].pc = "store"
    /\ bytes' = [bytes EXCEPT ![req[r].p][req[r].key] =
                   [v |-> req[r].v, gen |-> Generation(req[r].p)]]
    /\ Answer(r)
    /\ UNCHANGED <<db, working, redis, gen, track, holder, mut, done, served>>

\* ...and written, under the lock, with the generation it was built against.
Store(r) ==
    /\ req[r].pc = "store"
    /\ bytes' = [bytes EXCEPT ![req[r].p][req[r].key] = [v |-> req[r].v, gen |-> req[r].gen]]
    /\ Answer(r)
    /\ UNCHANGED <<db, working, redis, gen, track, holder, mut, done, served>>
-----------------------------------------------------------------------------
\* serve_simplified_geo, after its byte cache missed.  The first lookup of the
\* prepared trip is made without the build lock, the second inside it.
GetTrack(r) ==
    LET e == track[req[r].p]
        inside == req[r].pc = "track2"
    IN  /\ req[r].pc \in {"track", "track2"}
        /\ req' = [req EXCEPT ![r] =
                     IF e = None THEN [@ EXCEPT !.pc = IF inside THEN "trackgen" ELSE "lock"]
                     ELSE [@ EXCEPT !.pc = IF inside THEN "trackcheck2" ELSE "trackcheck",
                                    !.v = e.v, !.seen = e.gen]]
        /\ UNCHANGED <<db, working, redis, gen, caches, holder, mut, done, served>>

\* Mutant: a hit inside the build lock leaves without releasing it.
CheckTrackKeepsLock(r) ==
    /\ req[r].pc \in {"trackcheck", "trackcheck2"}
    /\ Goto(r, "storecheck")
    /\ UNCHANGED <<db, working, redis, gen, caches, holder, mut, done, served>>

\* Its generation, compared outside the cache's lock.
CheckTrack(r) ==
    LET p == req[r].p
        fresh == req[r].seen = Generation(p)
        inside == req[r].pc = "trackcheck2"
    IN  /\ req[r].pc \in {"trackcheck", "trackcheck2"}
        /\ Goto(r, IF fresh THEN "storecheck" ELSE IF inside THEN "trackgen" ELSE "lock")
        /\ track' = IF fresh THEN track ELSE [track EXCEPT ![p] = None]
        /\ holder' = IF fresh /\ inside THEN [holder EXCEPT ![p] = None] ELSE holder
        /\ UNCHANGED <<db, working, redis, gen, bytes, mut, done, served>>

\* One preparation per trip and process at a time.
LockBuild(r) ==
    /\ req[r].pc = "lock" /\ holder[req[r].p] = None
    /\ holder' = [holder EXCEPT ![req[r].p] = r]
    /\ Goto(r, "track2")
    /\ UNCHANGED <<db, working, redis, gen, caches, mut, done, served>>

CaptureTrack(r) ==
    /\ req[r].pc = "trackgen"
    /\ req' = [req EXCEPT ![r].seen = Generation(req[r].p), ![r].pc = "trackload"]
    /\ UNCHANGED <<db, working, redis, gen, caches, holder, mut, done, served>>

LoadTrack(r) ==
    /\ req[r].pc = "trackload"
    /\ req' = [req EXCEPT ![r].v = db, ![r].pc = "trackstorecheck"]
    /\ UNCHANGED <<db, working, redis, gen, caches, holder, mut, done, served>>

\* _track_cache_store, and out of the lock.
CheckTrackStore(r) ==
    LET p == req[r].p
        fresh == Generation(p) = req[r].seen
    IN  /\ req[r].pc = "trackstorecheck"
        /\ Goto(r, IF fresh THEN "trackstore" ELSE "storecheck")
        /\ holder' = IF fresh THEN holder ELSE [holder EXCEPT ![p] = None]
        /\ UNCHANGED <<db, working, redis, gen, caches, mut, done, served>>

StoreTrack(r) ==
    /\ req[r].pc = "trackstore"
    /\ track' = [track EXCEPT ![req[r].p] = [v |-> req[r].v, gen |-> req[r].seen]]
    /\ holder' = [holder EXCEPT ![req[r].p] = None]
    /\ Goto(r, "storecheck")
    /\ UNCHANGED <<db, working, redis, gen, bytes, mut, done, served>>

\* The answer has gone out.
Finish(r) ==
    /\ req[r].pc = "answer"
    /\ req' = [req EXCEPT ![r] = Idle]
    /\ UNCHANGED <<db, working, redis, gen, caches, holder, mut, done, served>>

\* Expiry, the byte and entry bounds, a payload too big to keep.
Evict(p) ==
    /\ \/ \E k \in Keys : /\ bytes[p][k] # None
                          /\ bytes' = [bytes EXCEPT ![p][k] = None]
                          /\ UNCHANGED track
       \/ /\ track[p] # None
          /\ track' = [track EXCEPT ![p] = None]
          /\ UNCHANGED bytes
    /\ UNCHANGED <<db, working, redis, gen, holder, req, mut, done, served>>
-----------------------------------------------------------------------------
\* A mutating request, in any process, commits...
Commit(m, p) ==
    /\ mut[m] = Idle /\ db < MaxVersion /\ p \in working
    /\ db' = db + 1
    /\ mut' = [mut EXCEPT ![m] = [pc |-> "incr", p |-> p, v |-> db + 1]]
    /\ UNCHANGED <<working, redis, gen, caches, holder, req, done, served>>

\* ...and busts: the counter in Redis first,
BustShared(m) ==
    /\ mut[m].pc = "incr"
    /\ redis' = IF shared THEN redis + 1 ELSE redis
    /\ mut' = [mut EXCEPT ![m].pc = "drop"]
    /\ UNCHANGED <<db, working, gen, caches, holder, req, done, served>>

\* then this process's bytes and its own counter, under the lock,
BustLocal(m) ==
    /\ mut[m].pc = "drop"
    /\ bytes' = [bytes EXCEPT ![mut[m].p] = [k \in Keys |-> None]]
    /\ gen' = [gen EXCEPT ![mut[m].p] = @ + 1]
    /\ mut' = [mut EXCEPT ![m].pc = "track"]
    /\ UNCHANGED <<db, working, redis, track, holder, req, done, served>>

\* and last its prepared trip; only then is the request answered.
BustTrack(m) ==
    /\ mut[m].pc = "track"
    /\ track' = [track EXCEPT ![mut[m].p] = None]
    /\ mut' = [mut EXCEPT ![m] = Idle]
    /\ done' = IF mut[m].v > done THEN mut[m].v ELSE done
    /\ UNCHANGED <<db, working, redis, gen, bytes, holder, req, served>>
-----------------------------------------------------------------------------
Init ==
    /\ db = 0 /\ redis = 0
    /\ working \in {Procs} \cup {{p} : p \in Procs}
    /\ gen = [p \in Procs |-> 0]
    /\ bytes = [p \in Procs |-> [k \in Keys |-> None]]
    /\ track = [p \in Procs |-> None]
    /\ holder = [p \in Procs |-> None]
    /\ req = [r \in Reqs |-> Idle]
    /\ mut = [m \in Muts |-> Idle]
    /\ done = 0 /\ served = 0

Next ==
    \/ \E r \in Reqs :
         \/ \E p \in Procs, kind \in Keys \cup {"warm"} : Begin(r, p, kind)
         \/ GetBytes(r) \/ CheckBytes(r) \/ Capture(r) \/ Load(r)
         \/ CheckStore(r) \/ Store(r)
         \/ GetTrack(r) \/ CheckTrack(r) \/ LockBuild(r) \/ CaptureTrack(r)
         \/ LoadTrack(r) \/ CheckTrackStore(r) \/ StoreTrack(r) \/ Finish(r)
    \/ \E p \in Procs : Evict(p)
    \/ \E m \in Muts :
         \/ \E p \in Procs : Commit(m, p)
         \/ BustShared(m) \/ BustLocal(m) \/ BustTrack(m)

Spec == Init /\ [][Next]_vars
-----------------------------------------------------------------------------
\* The caches hold entries, and the build lock is held by exactly the requests
\* that are between taking and leaving it.
TypeOK ==
    /\ db \in Nat /\ done \in 0..db /\ redis \in Nat
    /\ gen \in [Procs -> Nat]
    /\ \A p \in Procs : /\ bytes[p] \in [Keys -> Entry \cup {None}]
                        /\ track[p] \in Entry \cup {None}
    /\ \A r \in Reqs : /\ req[r] # Idle => req[r].p \in working
                       /\ (\E p \in Procs : holder[p] = r) <=> req[r].pc \in Inside

\* An answer is never older than the last change whose request had been
\* answered when this one arrived: a read that began before a change cannot
\* refill any process's cache with what the change evicted (issue #132), and a
\* bust in one process is honoured by the others (issue #173).
ServedFresh ==
    \A r \in Reqs : req[r].pc = "answer" => req[r].v >= req[r].floor

\* What a later lookup would accept is current: an entry of the live
\* generation reflects every change whose bust has finished.
AcceptedIsCurrent ==
    \A p \in working :
        /\ \A k \in Keys : bytes[p][k] # None /\ bytes[p][k].gen = Generation(p)
                              => bytes[p][k].v >= done
        /\ track[p] # None /\ track[p].gen = Generation(p) => track[p].v >= done
=============================================================================
