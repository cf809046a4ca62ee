--------------------------- MODULE UpstreamPacing ---------------------------
(***************************************************************************)
(* How worker processes share a rate-limited upstream (Overpass).          *)
(*                                                                         *)
(*   src/jobs/upstream_slots.py     slot(), mark_cooling(), is_cooling()   *)
(*   src/services/overpass_service.py   _overpass(), the caller            *)
(*                                                                         *)
(* A slot is a lease in a Redis sorted set: the score is the wall clock    *)
(* read before the claim, ties are broken by the random token.  Each Redis *)
(* command is one atomic step and everything between two commands may      *)
(* interleave with the other workers.  A request tries the endpoints in    *)
(* order, one attempt each, skipping a host that is cooling down.          *)
(***************************************************************************)
EXTENDS Integers, FiniteSetTheorems, TLAPS

CONSTANTS
    Workers,          \* processes that call _overpass
    NumHosts,         \* len(_OVERPASS_ENDPOINTS); host h is the h-th endpoint
    Limit,            \* _OVERPASS_CONCURRENCY
    LeaseTtl,         \* _SLOT_LEASE_TTL_S
    AcquireTimeout,   \* _SLOT_ACQUIRE_TIMEOUT_S
    CoolRateLimited,  \* _COOLDOWN_RATE_LIMITED_S
    CoolUnreachable,  \* _COOLDOWN_UNREACHABLE_S
    Tokens,           \* uuid4 values, as numbers: their order is the tie-break
    MaxTime,          \* bound: the clock stops here
    MaxFaults         \* bound: broker errors and killed processes

ASSUME PacingAssumption ==
    /\ IsFiniteSet(Workers)
    /\ NumHosts \in Nat \ {0}
    /\ Limit \in Nat \ {0}
    /\ LeaseTtl \in Nat \ {0}
    /\ AcquireTimeout \in Nat
    /\ CoolRateLimited \in Nat
    /\ CoolUnreachable \in Nat
    /\ Tokens \subseteq Nat \ {0}
    /\ MaxTime \in Nat
    /\ MaxFaults \in Nat

VARIABLES
    now,         \* time.time(), one clock: all processes share a host
    leases,      \* [Hosts -> set of [token, score]], the sorted sets
    keyExpiry,   \* [Hosts -> Nat], when Redis drops the set; 0: no TTL
    cooling,     \* [Hosts -> Nat], when Redis drops the cooldown key
    localCool,   \* [Workers -> [Hosts -> Nat]], _local_cooldowns
    pc,          \* where each worker is
    host,        \* the endpoint it is trying
    token,       \* the token of its slot() call; NoToken: it goes unpaced
    stamp,       \* the `now` its latest claim was scored with
    deadline,    \* when its slot() call gives up
    overtook,    \* history: it acquired ahead of a lease already acquired
    lost,        \* history: tokens whose call ended without its zrem
    faults       \* how many faults have struck

redis  == <<leases, keyExpiry, cooling>>
locals == <<token, stamp, deadline, overtook>>  \* of one slot() call
worker == <<host, localCool>>
ghosts == <<lost, faults>>
vars   == <<now, redis, pc, locals, worker, ghosts>>

Hosts == 1..NumHosts
NoToken == 0
Lease == [token : Nat, score : Nat]

(* Inside the loop of slot().                                              *)
Waiting == {"stamp", "reclaim", "claim", "expire", "rank", "unclaim"}
(* Inside the with block of _overpass.                                     *)
InSlot == {"post", "inflight", "coolHeld", "release", "releaseCool"}
Steps == {"idle", "check", "cool"} \union Waiting \union InSlot

(* p passed the rank check and has not run its zrem.                       *)
Holding(p) == pc[p] \in InSlot /\ token[p] # NoToken
(* p ran its zadd and has not run its zrem: its lease may be in the set.   *)
Claiming(p) == Holding(p) \/ pc[p] \in {"expire", "rank", "unclaim"}

Before(l, m) == l.score < m.score \/ (l.score = m.score /\ l.token < m.token)
MyLease(p) == [token |-> token[p], score |-> stamp[p]]
(* zrank: how many members sort before mine.                               *)
Rank(p) == Cardinality({l \in leases[host[p]] : Before(l, MyLease(p))})
Unexpired(p) == now < stamp[p] + LeaseTtl
-----------------------------------------------------------------------------
Goto(p, step) == pc' = [pc EXCEPT ![p] = step]
NextHost(p) == Goto(p, "check") /\ host' = [host EXCEPT ![p] = @ + 1]
Finish(p) == Goto(p, "idle") /\ host' = [host EXCEPT ![p] = 1]
(* slot() returns and its local variables are gone.                        *)
LeaveSlot(p) == /\ token' = [token EXCEPT ![p] = NoToken]
                /\ stamp' = [stamp EXCEPT ![p] = 0]
                /\ deadline' = [deadline EXCEPT ![p] = 0]
                /\ overtook' = [overtook EXCEPT ![p] = FALSE]

(* _overpass is called (no cached answer) and looks at the first endpoint. *)
StartQuery(p) ==
    /\ pc[p] = "idle"
    /\ now < MaxTime
    /\ Goto(p, "check")
    /\ UNCHANGED <<now, redis, locals, worker, ghosts>>

(* Endpoints exhausted: raise OverpassError.                               *)
QueryFails(p) ==
    /\ pc[p] = "check"
    /\ host[p] > NumHosts
    /\ Finish(p)
    /\ UNCHANGED <<now, redis, locals, localCool, ghosts>>

(* is_cooling(): the process's own copy first, then Redis.                 *)
IsCooling(p, h) == now < localCool[p][h] \/ now < cooling[h]

SkipCooling(p) ==
    /\ pc[p] = "check"
    /\ host[p] \in Hosts
    /\ IsCooling(p, host[p])
    /\ NextHost(p)
    /\ UNCHANGED <<now, redis, locals, localCool, ghosts>>

(* A uuid4 nobody else has: no lease and no running call carries it.       *)
Fresh(t) == /\ \A h \in Hosts : \A l \in leases[h] : l.token # t
            /\ \A q \in Workers : token[q] # t

(* Not cooling, or Redis could not say: is_cooling() is False on any doubt. *)
(* slot() is entered: a fresh token, and the deadline it will wait to.     *)
EnterSlot(p) ==
    /\ pc[p] = "check"
    /\ host[p] \in Hosts
    /\ now >= localCool[p][host[p]]
    /\ \/ now >= cooling[host[p]] /\ UNCHANGED faults
       \/ faults < MaxFaults /\ faults' = faults + 1
    /\ now + AcquireTimeout <= MaxTime
    /\ \E t \in Tokens : /\ Fresh(t)
                         /\ token' = [token EXCEPT ![p] = t]
                         /\ lost' = lost \ {t}
    /\ deadline' = [deadline EXCEPT ![p] = now + AcquireTimeout]
    /\ Goto(p, "stamp")
    /\ UNCHANGED <<now, redis, stamp, overtook, worker>>

ReadClock(p) ==
    /\ pc[p] = "stamp"
    /\ stamp' = [stamp EXCEPT ![p] = now]
    /\ Goto(p, "reclaim")
    /\ UNCHANGED <<now, redis, token, deadline, overtook, worker, ghosts>>

(* Writing a sorted set: a set that becomes empty is gone, TTL and all.    *)
SetLeases(h, ls) ==
    /\ leases' = [leases EXCEPT ![h] = ls]
    /\ keyExpiry' = [keyExpiry EXCEPT ![h] = IF ls = {} THEN 0 ELSE @]

(* Mutant: the reclaim takes leases that have one second left.             *)
ReclaimEarly(p) ==
    /\ pc[p] = "reclaim"
    /\ SetLeases(host[p], {l \in leases[host[p]] : l.score > stamp[p] - LeaseTtl + 1})
    /\ Goto(p, "claim")
    /\ UNCHANGED <<now, cooling, locals, worker, ghosts>>

(* zremrangebyscore -inf, now - lease_ttl_s (inclusive).                   *)
Reclaim(p) ==
    /\ pc[p] = "reclaim"
    /\ SetLeases(host[p], {l \in leases[host[p]] : l.score > stamp[p] - LeaseTtl})
    /\ Goto(p, "claim")
    /\ UNCHANGED <<now, cooling, locals, worker, ghosts>>

Others(p) == {l \in leases[host[p]] : l.token # token[p]}

(* zadd: Claim first, then check the rank.                                 *)
Claim(p) ==
    /\ pc[p] = "claim"
    /\ SetLeases(host[p], Others(p) \union {MyLease(p)})
    /\ Goto(p, "expire")
    /\ UNCHANGED <<now, cooling, locals, worker, ghosts>>

(* expire key int(lease_ttl_s)+1; a key that is gone has nothing to expire *)
ExtendKey(p) ==
    /\ pc[p] = "expire"
    /\ keyExpiry' = IF leases[host[p]] = {} THEN keyExpiry
                    ELSE [keyExpiry EXCEPT ![host[p]] = now + LeaseTtl + 1]
    /\ Goto(p, "rank")
    /\ UNCHANGED <<now, leases, cooling, locals, worker, ghosts>>

(* Mutant: one slot too many.                                              *)
AcquiredOneMore(p) == MyLease(p) \in leases[host[p]] /\ Rank(p) <= Limit

(* zrank is None when the token was reclaimed or the key expired.          *)
Acquired(p) == MyLease(p) \in leases[host[p]] /\ Rank(p) < Limit

Overtakes(p) == \E q \in Workers \ {p} :
                   /\ Holding(q)
                   /\ host[q] = host[p]
                   /\ Before(MyLease(p), MyLease(q))

CheckRank(p) ==
    /\ pc[p] = "rank"
    /\ Goto(p, IF Acquired(p) THEN "post" ELSE "unclaim")
    /\ overtook' = [overtook EXCEPT ![p] = Overtakes(p)]
    /\ UNCHANGED <<now, redis, token, stamp, deadline, worker, ghosts>>

(* zrem of the caller's own token.                                         *)
DropLease(p) == SetLeases(host[p], Others(p))

(* Mutant: giving up leaves the claim in the set.                          *)
UnclaimKeepsLease(p) ==
    /\ pc[p] = "unclaim"
    /\ \/ /\ now >= deadline[p] /\ NextHost(p) /\ LeaveSlot(p)
          /\ UNCHANGED <<leases, keyExpiry>>
       \/ /\ now < deadline[p] /\ Goto(p, "stamp") /\ UNCHANGED <<host, locals>>
          /\ DropLease(p)
    /\ UNCHANGED <<now, cooling, localCool, ghosts>>

(* Mutant: the deadline is never looked at.                                *)
UnclaimForever(p) ==
    /\ pc[p] = "unclaim"
    /\ DropLease(p)
    /\ Goto(p, "stamp")
    /\ UNCHANGED <<now, cooling, host, locals, localCool, ghosts>>

(* Mutant: giving up goes on to the next endpoint inside the same call.    *)
UnclaimSameCall(p) ==
    /\ pc[p] = "unclaim"
    /\ DropLease(p)
    /\ host' = [host EXCEPT ![p] = IF now >= deadline[p] THEN @ + 1 ELSE @]
    /\ Goto(p, "stamp")
    /\ UNCHANGED <<now, cooling, locals, localCool, ghosts>>

(* No slot: past the deadline the caller moves on to the next endpoint,    *)
(* otherwise the loop sleeps and claims again.                             *)
Unclaim(p) ==
    /\ pc[p] = "unclaim"
    /\ DropLease(p)
    /\ \/ now >= deadline[p] /\ NextHost(p) /\ LeaveSlot(p)
       \/ now < deadline[p] /\ Goto(p, "stamp") /\ UNCHANGED <<host, locals>>
    /\ UNCHANGED <<now, cooling, localCool, ghosts>>

(* requests.post is sent.                                                  *)
Post(p) ==
    /\ pc[p] = "post"
    /\ Goto(p, "inflight")
    /\ UNCHANGED <<now, redis, locals, worker, ghosts>>

(* How the attempt ends decides what is still to do: an unreachable host   *)
(* is cooled while the slot is held, a refusal only after the release.     *)
Answer(p) ==
    /\ pc[p] = "inflight"
    /\ \E next \in {"release", "releaseCool", "coolHeld"} : Goto(p, next)
    /\ UNCHANGED <<now, redis, locals, worker, ghosts>>

(* mark_cooling(): the local copy always, Redis (setex int(seconds)+1)     *)
(* unless the broker errors.                                               *)
MarkCooling(p, h, seconds) ==
    /\ localCool' = [localCool EXCEPT ![p][h] = now + seconds]
    /\ \/ cooling' = [cooling EXCEPT ![h] = now + seconds + 1]
          /\ UNCHANGED faults
       \/ faults < MaxFaults /\ faults' = faults + 1 /\ UNCHANGED cooling

(* The exception path: mark_cooling runs inside the with block.            *)
CoolUnreachableHost(p) ==
    /\ pc[p] = "coolHeld"
    /\ MarkCooling(p, host[p], CoolUnreachable)
    /\ Goto(p, "release")
    /\ UNCHANGED <<now, leases, keyExpiry, host, locals, lost>>

(* The finally block of slot(): its zrem may fail, the lease then ages out.*)
ReleaseSlot(p) ==
    \/ /\ DropLease(p)
       /\ UNCHANGED <<lost, faults>>
    \/ /\ Holding(p)
       /\ faults < MaxFaults
       /\ faults' = faults + 1
       /\ lost' = lost \union {token[p]}
       /\ UNCHANGED <<leases, keyExpiry>>

(* A good answer returns; a rejected query or an unreachable host moves on.*)
Release(p) ==
    /\ pc[p] = "release"
    /\ ReleaseSlot(p)
    /\ LeaveSlot(p)
    /\ Finish(p) \/ NextHost(p)
    /\ UNCHANGED <<now, cooling, localCool>>

(* A refusal (_BACK_OFF_STATUSES, unparseable body) leaves the with block  *)
(* and only then cools the host.                                           *)
ReleaseThenCool(p) ==
    /\ pc[p] = "releaseCool"
    /\ ReleaseSlot(p)
    /\ LeaveSlot(p)
    /\ Goto(p, "cool")
    /\ UNCHANGED <<now, cooling, worker>>

CoolRefusingHost(p) ==
    /\ pc[p] = "cool"
    /\ MarkCooling(p, host[p], CoolRateLimited)
    /\ NextHost(p)
    /\ UNCHANGED <<now, leases, keyExpiry, locals, lost>>

(* A Redis command of the loop raises: the request goes out unpaced, and   *)
(* the lease, if one was written, is not removed by its owner.             *)
BrokerError(p) ==
    /\ pc[p] \in Waiting \ {"stamp"}
    /\ faults < MaxFaults
    /\ faults' = faults + 1
    /\ lost' = lost \union {token[p]}
    /\ LeaveSlot(p)
    /\ Goto(p, "post")
    /\ UNCHANGED <<now, redis, worker>>

(* The process is killed and a new one takes its place.                    *)
Crash(p) ==
    /\ pc[p] # "idle"
    /\ faults < MaxFaults
    /\ faults' = faults + 1
    /\ lost' = lost \union ({token[p]} \ {NoToken})
    /\ localCool' = [localCool EXCEPT ![p] = [h \in Hosts |-> 0]]
    /\ LeaveSlot(p)
    /\ Finish(p)
    /\ UNCHANGED <<now, redis>>

(* Time passes, and Redis drops a set whose time-to-live has run out.      *)
KeyGone(h) == keyExpiry[h] # 0 /\ now + 1 >= keyExpiry[h]

Tick ==
    /\ now < MaxTime
    /\ now' = now + 1
    /\ leases' = [h \in Hosts |-> IF KeyGone(h) THEN {} ELSE leases[h]]
    /\ keyExpiry' = [h \in Hosts |-> IF KeyGone(h) THEN 0 ELSE keyExpiry[h]]
    /\ UNCHANGED <<cooling, pc, locals, worker, ghosts>>
-----------------------------------------------------------------------------
Init ==
    /\ now = 0
    /\ leases = [h \in Hosts |-> {}]
    /\ keyExpiry = [h \in Hosts |-> 0]
    /\ cooling = [h \in Hosts |-> 0]
    /\ localCool = [p \in Workers |-> [h \in Hosts |-> 0]]
    /\ pc = [p \in Workers |-> "idle"]
    /\ host = [p \in Workers |-> 1]
    /\ token = [p \in Workers |-> NoToken]
    /\ stamp = [p \in Workers |-> 0]
    /\ deadline = [p \in Workers |-> 0]
    /\ overtook = [p \in Workers |-> FALSE]
    /\ lost = {}
    /\ faults = 0

SlotLoop(p) == \/ ReadClock(p) \/ Reclaim(p) \/ Claim(p) \/ ExtendKey(p)
               \/ CheckRank(p) \/ Unclaim(p)
Request(p) == \/ Post(p) \/ Answer(p) \/ CoolUnreachableHost(p) \/ Release(p)
              \/ ReleaseThenCool(p) \/ CoolRefusingHost(p)
Endpoint(p) == QueryFails(p) \/ SkipCooling(p) \/ EnterSlot(p)

Next == \/ Tick
        \/ \E p \in Workers : \/ StartQuery(p) \/ Endpoint(p) \/ SlotLoop(p)
                              \/ Request(p) \/ BrokerError(p) \/ Crash(p)

Spec == Init /\ [][Next]_vars

(* The clock advances and the scheduler runs every process.                *)
Fairness == WF_vars(Tick) /\ \A p \in Workers : WF_vars(SlotLoop(p) \/ Request(p))
FairSpec == Spec /\ Fairness
-----------------------------------------------------------------------------
TypeOK ==
    /\ now \in 0..MaxTime
    /\ leases \in [Hosts -> SUBSET Lease]
    /\ keyExpiry \in [Hosts -> Nat]
    /\ cooling \in [Hosts -> Nat]
    /\ localCool \in [Workers -> [Hosts -> Nat]]
    /\ pc \in [Workers -> Steps]
    /\ host \in [Workers -> 1..(NumHosts + 1)]
    /\ \A p \in Workers : pc[p] \notin {"idle", "check"} => host[p] \in Hosts
    /\ token \in [Workers -> Tokens \union {NoToken}]
    /\ stamp \in [Workers -> 0..MaxTime]
    /\ deadline \in [Workers -> 0..MaxTime]
    /\ overtook \in [Workers -> BOOLEAN]
    /\ lost \subseteq Tokens
    /\ faults \in 0..MaxFaults

(* A worker that was given a slot keeps it for the whole lease: until its  *)
(* own lease_ttl_s is over, neither the reclaim of another process nor the *)
(* expiry of the key may take its member out of the sorted set.            *)
HolderLeaseKept ==
    \A p \in Workers :
        Holding(p) /\ Unexpired(p) => MyLease(p) \in leases[host[p]]

(* No member of a sorted set is forgotten: its owner is still between its  *)
(* zadd and its zrem, or died or met a broker error on the way.  A waiter  *)
(* that loses the rank check, and a request that ends, leave nothing.      *)
NoOrphanLease ==
    \A h \in Hosts : \A l \in leases[h] :
        l.token \in lost \/ \E p \in Workers : /\ Claiming(p)
                                               /\ host[p] = h
                                               /\ token[p] = l.token

Holders(h) == {p \in Workers : Holding(p) /\ host[p] = h /\ Unexpired(p)}

(* The cap, for slots granted in the order of their scores: among the live *)
(* holders of a host, those that did not overtake one another never exceed *)
(* the limit, whatever dies and whatever expires.                          *)
CapWithoutOvertaking ==
    \A h \in Hosts : Cardinality({p \in Holders(h) : ~overtook[p]}) <= Limit

(* slot() always answers: a caller that entered the claim loop leaves it,  *)
(* with a slot, unpaced, or by giving up at its deadline.                  *)
WaitEnds == \A p \in Workers : pc[p] \in Waiting ~> pc[p] \notin Waiting

(* upstream_slots.py says that two processes racing for the last slot      *)
(* cannot both conclude that they hold it: no more live holders than slots.*)
SlotCap == \A h \in Hosts : Cardinality(Holders(h)) <= Limit
-----------------------------------------------------------------------------
(***************************************************************************)
(* Proofs: what slot() of upstream_slots.py promises,                      *)
(* for any finite set of processes, any number of endpoints and slots, any *)
(* lease and cooldown times, and any mix of broker errors and kills.       *)
(*                                                                         *)
(* None of the properties is inductive alone.  A lease stays in its set    *)
(* because the reclaim of another process works with a clock reading that  *)
(* is not ahead (StampPast), because its own expire gave the key more time *)
(* than the lease has (KeyOutlives, which needs LeaseSets: a key that is   *)
(* gone has no time-to-live), and because no other process holds its token *)
(* (TokensOwned).  The cap then follows from the rank: every live holder   *)
(* has its lease in the set, so a rank below the limit counts them.        *)
(***************************************************************************)
(* A token belongs to one slot() call: every waiting call has one, a       *)
(* worker outside slot() has none, and no two workers have the same.       *)
TokensOwned ==
    /\ \A p \in Workers : pc[p] \in Waiting => token[p] # NoToken
    /\ \A p \in Workers : pc[p] \in {"idle", "check", "cool"} => token[p] = NoToken
    /\ \A p, q \in Workers : token[p] = token[q] /\ token[p] # NoToken => p = q

(* No claim is scored with a clock reading of the future.                  *)
StampPast == \A p \in Workers : stamp[p] <= now

(* The sorted sets are finite, and an empty one has no time-to-live.       *)
LeaseSets == \A h \in Hosts : /\ IsFiniteSet(leases[h])
                              /\ leases[h] = {} => keyExpiry[h] = 0

(* A worker past its expire command knows that the key is kept for longer  *)
(* than its own lease runs.                                                *)
KeyOutlives ==
    \A p \in Workers : Holding(p) \/ pc[p] = "rank" =>
        \/ keyExpiry[host[p]] = 0
        \/ keyExpiry[host[p]] > stamp[p] + LeaseTtl

(* The inductive invariant.                                                *)
IInv == /\ TypeOK
        /\ TokensOwned
        /\ StampPast
        /\ LeaseSets
        /\ KeyOutlives
        /\ NoOrphanLease
        /\ HolderLeaseKept
        /\ CapWithoutOvertaking

(* It holds initially.                                                     *)
LEMMA InitIInv == Init => IInv
<1> SUFFICES ASSUME Init PROVE IInv OBVIOUS
<1> USE PacingAssumption DEF Init
<1>1. TypeOK  BY DEF TypeOK, Hosts, Steps, NoToken
<1>2. TokensOwned BY DEF TokensOwned, Waiting
<1>3. StampPast BY DEF StampPast
<1>4. LeaseSets BY FS_EmptySet DEF LeaseSets
<1>5. \A p \in Workers : ~Holding(p) BY DEF Holding
<1>6. KeyOutlives BY <1>5 DEF KeyOutlives
<1>7. NoOrphanLease BY DEF NoOrphanLease
<1>8. HolderLeaseKept BY <1>5 DEF HolderLeaseKept
<1>9. CapWithoutOvertaking
  <2>1. ASSUME NEW h \in Hosts  PROVE {p \in Holders(h) : ~overtook[p]} = {}
    BY <1>5 DEF Holders
  <2>2. 0 <= Limit  OBVIOUS
  <2>3. ASSUME NEW h \in Hosts  PROVE Cardinality({p \in Holders(h) : ~overtook[p]}) = 0
    BY <2>1, FS_EmptySet, Zenon
  <2> QED BY <2>2, <2>3 DEF CapWithoutOvertaking
<1> QED BY <1>1, <1>2, <1>3, <1>4, <1>6, <1>7, <1>8, <1>9 DEF IInv

(* TypeOK, by the part of the state a conjunct is about.                   *)
TypeClock == now \in 0..MaxTime /\ faults \in 0..MaxFaults
TypeSets == leases \in [Hosts -> SUBSET Lease] /\ keyExpiry \in [Hosts -> Nat]
TypeCool == /\ cooling \in [Hosts -> Nat]
            /\ localCool \in [Workers -> [Hosts -> Nat]]
TypePlace == /\ pc \in [Workers -> Steps]
             /\ host \in [Workers -> 1..(NumHosts + 1)]
             /\ \A p \in Workers : pc[p] \notin {"idle", "check"} => host[p] \in Hosts
TypeCall == /\ token \in [Workers -> Tokens \union {NoToken}]
            /\ stamp \in [Workers -> 0..MaxTime]
            /\ deadline \in [Workers -> 0..MaxTime]
            /\ overtook \in [Workers -> BOOLEAN]

(* The parts make up TypeOK.                                               *)
LEMMA TypeParts ==
    TypeOK <=> /\ TypeClock /\ TypeSets /\ TypeCool /\ TypePlace /\ TypeCall
               /\ lost \subseteq Tokens
BY DEF TypeOK, TypeClock, TypeSets, TypeCool, TypePlace, TypeCall

(* The clock and the fault counter stay in their bounds.                   *)
LEMMA ClockStep == ASSUME TypeClock, [Next]_vars PROVE TypeClock'
<1> USE PacingAssumption DEF TypeClock
<1>1. CASE Tick \/ UNCHANGED vars
  BY <1>1 DEF Tick, ghosts, vars
<1>2. ASSUME NEW p \in Workers, StartQuery(p) \/ Endpoint(p)  PROVE TypeClock'
  BY <1>2 DEF StartQuery, Endpoint, QueryFails, SkipCooling, EnterSlot, ghosts
<1>3. ASSUME NEW p \in Workers, SlotLoop(p)  PROVE TypeClock'
  BY <1>3 DEF SlotLoop, ReadClock, Reclaim, Claim, ExtendKey, CheckRank, Unclaim, ghosts
<1>4. ASSUME NEW p \in Workers, Request(p)  PROVE TypeClock'
  BY <1>4 DEF Request, Post, Answer, CoolUnreachableHost, MarkCooling, Release,
      ReleaseSlot,
              ReleaseThenCool, CoolRefusingHost, ghosts
<1>5. ASSUME NEW p \in Workers, BrokerError(p) \/ Crash(p)  PROVE TypeClock'
  BY <1>5 DEF BrokerError, Crash
<1> QED BY <1>1, <1>2, <1>3, <1>4, <1>5 DEF Next

(* A worker inside slot() or a request is at an endpoint that exists.      *)
LEMMA PlaceStep == ASSUME TypePlace, [Next]_vars PROVE TypePlace'
<1> USE PacingAssumption DEF TypePlace
<1>1. CASE Tick \/ UNCHANGED vars
  BY <1>1 DEF Tick, worker, vars
<1>2. ASSUME NEW p \in Workers, NEW s \in Steps, Goto(p, s), UNCHANGED host,
             host[p] \in Hosts \/ s \in {"idle", "check"}
      PROVE  TypePlace'
  BY <1>2 DEF Goto
<1>3. ASSUME NEW p \in Workers, NextHost(p), host[p] \in Hosts
      PROVE  TypePlace'
  <2>1. host[p] + 1 \in 1..(NumHosts + 1) BY <1>3 DEF Hosts
  <2> QED BY <1>3, <2>1 DEF NextHost, Goto, Steps
<1>4. ASSUME NEW p \in Workers, Finish(p)
      PROVE  TypePlace'
  <2>1. 1 \in 1..(NumHosts + 1) OBVIOUS
  <2> QED BY <1>4, <2>1 DEF Finish, Goto, Steps
<1>5. ASSUME NEW p \in Workers, StartQuery(p) \/ Endpoint(p)  PROVE TypePlace'
  BY <1>2, <1>3, <1>4, <1>5 DEF StartQuery, Endpoint, QueryFails, SkipCooling,
      EnterSlot, worker, Steps, Waiting
<1>6. ASSUME NEW p \in Workers, SlotLoop(p)  PROVE TypePlace'
  <2> host[p] \in Hosts
    BY <1>6 DEF SlotLoop, ReadClock, Reclaim, Claim, ExtendKey, CheckRank, Unclaim
  <2> QED BY <1>2, <1>3, <1>6
      DEF SlotLoop, ReadClock, Reclaim, Claim, ExtendKey, CheckRank, Unclaim, worker,
          Steps, Waiting, InSlot
<1>7. ASSUME NEW p \in Workers, Request(p)  PROVE TypePlace'
  <2> host[p] \in Hosts
    BY <1>7 DEF Request, Post, Answer, CoolUnreachableHost, Release, ReleaseThenCool,
        CoolRefusingHost
  <2> QED BY <1>2, <1>3, <1>4, <1>7
      DEF Request, Post, Answer, CoolUnreachableHost, Release, ReleaseThenCool,
          CoolRefusingHost, worker, Steps, InSlot
<1>8. ASSUME NEW p \in Workers, BrokerError(p)  PROVE TypePlace'
  BY <1>2, <1>8 DEF BrokerError, worker, Steps, Waiting, InSlot
<1>9. ASSUME NEW p \in Workers, Crash(p)  PROVE TypePlace'
  BY <1>4, <1>9 DEF Crash
<1> QED BY <1>1, <1>5, <1>6, <1>7, <1>8, <1>9 DEF Next

(* What a step does to the sorted sets.                                    *)
LEMMA SetsFrame ==
    ASSUME TypePlace, [Next]_vars
    PROVE  \/ Tick
           \/ UNCHANGED <<leases, keyExpiry>>
           \/ \E p \in Workers : Reclaim(p) \/ Claim(p) \/ ExtendKey(p)
           \/ \E p \in Workers : DropLease(p) /\ host[p] \in Hosts
                                 /\ (Unclaim(p) \/ Release(p) \/ ReleaseThenCool(p))
<1>1. ASSUME NEW p \in Workers, Unclaim(p) \/ Release(p) \/ ReleaseThenCool(p)
      PROVE  host[p] \in Hosts /\ (DropLease(p) \/ UNCHANGED <<leases, keyExpiry>>)
  BY <1>1 DEF Unclaim, Release, ReleaseThenCool, ReleaseSlot, TypePlace
<1>2. ASSUME NEW p \in Workers,
             \/ StartQuery(p) \/ Endpoint(p) \/ ReadClock(p) \/ CheckRank(p) \/ Post(p) \/ Answer(p)
             \/ CoolUnreachableHost(p) \/ CoolRefusingHost(p) \/ BrokerError(p) \/ Crash(p)
      PROVE  UNCHANGED <<leases, keyExpiry>>
  BY <1>2 DEF StartQuery, Endpoint, QueryFails, SkipCooling, EnterSlot, ReadClock,
      CheckRank, Post,
       Answer, CoolUnreachableHost, CoolRefusingHost, BrokerError, Crash, redis
<1>3. CASE UNCHANGED vars BY <1>3 DEF vars, redis
<1> QED BY <1>1, <1>2, <1>3 DEF Next, SlotLoop, Request

(* The member a worker writes is a lease.                                  *)
LEMMA MyLeaseType ==
    ASSUME TypeCall, NEW p \in Workers  PROVE MyLease(p) \in Lease
<1>0. Tokens \subseteq Nat BY PacingAssumption
<1>1. token[p] \in Nat
  <2>1. CASE token[p] \in Tokens BY <1>0, <2>1, Zenon
  <2>2. CASE token[p] = NoToken BY <2>2 DEF NoToken
  <2> QED BY <2>1, <2>2 DEF TypeCall
<1>2. stamp[p] \in Nat BY PacingAssumption DEF TypeCall
<1> QED BY <1>1, <1>2 DEF MyLease, Lease

(* The sorted sets hold leases.                                            *)
LEMMA SetsStep == ASSUME TypeClock, TypeSets, TypePlace, TypeCall, [Next]_vars PROVE TypeSets'
<1> USE PacingAssumption DEF TypeSets
<1>1. CASE Tick
  BY <1>1 DEF Tick
<1>2. ASSUME NEW g \in Hosts, NEW ls \in SUBSET Lease, SetLeases(g, ls)
      PROVE  TypeSets'
  BY <1>2 DEF SetLeases
<1>3. ASSUME NEW p \in Workers, Reclaim(p)  PROVE TypeSets'
  <2>1. host[p] \in Hosts BY <1>3 DEF Reclaim, TypePlace
  <2> QED BY <1>2, <1>3, <2>1 DEF Reclaim
<1>4. ASSUME NEW p \in Workers, Claim(p)  PROVE TypeSets'
  <2>1. host[p] \in Hosts BY <1>4 DEF Claim, TypePlace
  <2>2. MyLease(p) \in Lease BY MyLeaseType
  <2>3. Others(p) \union {MyLease(p)} \in SUBSET Lease BY <2>1, <2>2 DEF Others
  <2> QED BY <1>2, <1>4, <2>1, <2>3 DEF Claim
<1>5. ASSUME NEW p \in Workers, DropLease(p), host[p] \in Hosts  PROVE TypeSets'
  BY <1>2, <1>5 DEF DropLease, Others
<1>6. ASSUME NEW p \in Workers, ExtendKey(p)  PROVE TypeSets'
  <2>1. now + LeaseTtl + 1 \in Nat BY DEF TypeClock
  <2> QED BY <1>6, <2>1 DEF ExtendKey
<1>7. ASSUME UNCHANGED <<leases, keyExpiry>>  PROVE TypeSets'
  BY <1>7
<1> QED BY <1>1, <1>3, <1>4, <1>5, <1>6, <1>7, SetsFrame DEF TypePlace

(* The cooldowns are times.                                                *)
LEMMA CoolStep == ASSUME TypeClock, TypeCool, TypePlace, [Next]_vars PROVE TypeCool'
<1> USE PacingAssumption DEF TypeCool
<1>1. ASSUME NEW p \in Workers, NEW n \in Nat, host[p] \in Hosts, MarkCooling(p, host[p], n)
      PROVE  TypeCool'
  <2>1. now + n \in Nat /\ now + n + 1 \in Nat BY DEF TypeClock
  <2>2. localCool' = [localCool EXCEPT ![p] = [localCool[p] EXCEPT ![host[p]] = now + n]]
    BY <1>1 DEF MarkCooling
  <2>3. [localCool[p] EXCEPT ![host[p]] = now + n] \in [Hosts -> Nat] BY <2>1
  <2> QED BY <1>1, <2>1, <2>2, <2>3 DEF MarkCooling
<1>2. ASSUME UNCHANGED <<cooling, localCool>>  PROVE TypeCool'
  BY <1>2
<1>3. ASSUME NEW p \in Workers, CoolUnreachableHost(p) \/ CoolRefusingHost(p)
      PROVE  TypeCool'
  <2>1. host[p] \in Hosts BY <1>3 DEF CoolUnreachableHost, CoolRefusingHost, TypePlace
  <2> QED BY <1>1, <1>3, <2>1 DEF CoolUnreachableHost, CoolRefusingHost
<1>4. ASSUME NEW p \in Workers, Crash(p)  PROVE TypeCool'
  BY <1>4 DEF Crash, redis
<1>5. ASSUME NEW p \in Workers, StartQuery(p) \/ Endpoint(p) \/ SlotLoop(p) \/ BrokerError(p)
      PROVE  UNCHANGED <<cooling, localCool>>
  BY <1>5 DEF StartQuery, Endpoint, QueryFails, SkipCooling, EnterSlot, SlotLoop,
      ReadClock, Reclaim,
              Claim, ExtendKey, CheckRank, Unclaim, BrokerError, redis, worker
<1>6. ASSUME NEW p \in Workers, Post(p) \/ Answer(p) \/ Release(p) \/ ReleaseThenCool(p)
      PROVE  UNCHANGED <<cooling, localCool>>
  BY <1>6 DEF Post, Answer, Release, ReleaseThenCool, redis, worker
<1>7. CASE Tick \/ UNCHANGED vars
  BY <1>2, <1>7 DEF Tick, vars, redis, worker
<1> QED BY <1>2, <1>3, <1>4, <1>5, <1>6, <1>7 DEF Next, Request

(* The local variables of slot() keep their types.                         *)
LEMMA CallStep == ASSUME TypeClock, TypeCall, [Next]_vars PROVE TypeCall'
<1> USE PacingAssumption DEF TypeCall
<1>1. ASSUME NEW p \in Workers, LeaveSlot(p)  PROVE TypeCall'
  BY <1>1 DEF LeaveSlot
<1>2. ASSUME UNCHANGED locals  PROVE TypeCall'
  BY <1>2 DEF locals
<1>3. ASSUME NEW p \in Workers, EnterSlot(p)  PROVE TypeCall'
  <2>1. now + AcquireTimeout \in 0..MaxTime BY <1>3 DEF EnterSlot, TypeClock
  <2> QED BY <1>3, <2>1 DEF EnterSlot
<1>4. ASSUME NEW p \in Workers, ReadClock(p)  PROVE TypeCall'
  BY <1>4 DEF ReadClock, TypeClock
<1>5. ASSUME NEW p \in Workers, CheckRank(p)  PROVE TypeCall'
  BY <1>5 DEF CheckRank, Overtakes
<1>6. ASSUME NEW p \in Workers,
             \/ StartQuery(p) \/ QueryFails(p) \/ SkipCooling(p)
             \/ Reclaim(p) \/ Claim(p) \/ ExtendKey(p) \/ Unclaim(p)
      PROVE  LeaveSlot(p) \/ UNCHANGED locals
  BY <1>6 DEF StartQuery, QueryFails, SkipCooling, Reclaim, Claim, ExtendKey, Unclaim
<1>7. ASSUME NEW p \in Workers, Request(p) \/ BrokerError(p) \/ Crash(p)
      PROVE  LeaveSlot(p) \/ UNCHANGED locals
  BY <1>7 DEF Request, Post, Answer, CoolUnreachableHost, Release, ReleaseThenCool,
      CoolRefusingHost,
              BrokerError, Crash
<1>8. CASE Tick \/ UNCHANGED vars
  BY <1>2, <1>8 DEF Tick, vars
<1> QED BY <1>1, <1>2, <1>3, <1>4, <1>5, <1>6, <1>7, <1>8 DEF Next, Endpoint, SlotLoop

(* Only tokens are lost.                                                   *)
LEMMA LostStep ==
    ASSUME TypeCall, TokensOwned, lost \subseteq Tokens, [Next]_vars
    PROVE  (lost \subseteq Tokens)'
<1> USE DEF TypeCall, TokensOwned
<1>1. ASSUME NEW p \in Workers, token[p] # NoToken  PROVE lost \union {token[p]} \subseteq Tokens
  BY <1>1
<1>2. ASSUME NEW p \in Workers, StartQuery(p) \/ Endpoint(p) \/ SlotLoop(p)  PROVE lost' \subseteq lost
  BY <1>2 DEF StartQuery, Endpoint, QueryFails, SkipCooling, EnterSlot, SlotLoop,
      ReadClock, Reclaim,
              Claim, ExtendKey, CheckRank, Unclaim, ghosts
<1>3. ASSUME NEW p \in Workers, Request(p) \/ BrokerError(p) \/ Crash(p)
      PROVE  lost' = lost \/ (lost' = lost \union {token[p]} /\ token[p] # NoToken)
  <2>1. CASE Request(p)
    BY <2>1 DEF Request, Post, Answer, CoolUnreachableHost, Release, ReleaseSlot,
        Holding, ReleaseThenCool, CoolRefusingHost, ghosts
  <2>2. CASE BrokerError(p)
    BY <2>2 DEF BrokerError
  <2>3. CASE Crash(p)
    BY <2>3 DEF Crash
  <2> QED BY <1>3, <2>1, <2>2, <2>3
<1>4. CASE Tick \/ UNCHANGED vars
  BY <1>4 DEF Tick, vars, ghosts
<1> QED BY <1>1, <1>2, <1>3, <1>4 DEF Next

(* A fresh token is nobody else's, and leaving slot() gives it up.         *)
LEMMA TokensStep ==
    ASSUME TypeOK, TokensOwned, [Next]_vars
    PROVE  TokensOwned'
<1> USE PacingAssumption DEF Goto, NextHost, Finish, LeaveSlot, TokensOwned
<1> pc \in [Workers -> Steps] /\ token \in [Workers -> Tokens \union {NoToken}] BY DEF TypeOK
<1>1. CASE Tick \/ UNCHANGED vars
  BY <1>1 DEF Tick, locals, vars
<1>2. ASSUME NEW p \in Workers, StartQuery(p) \/ QueryFails(p) \/ SkipCooling(p)
      PROVE  TokensOwned'
  BY <1>2 DEF StartQuery, QueryFails, SkipCooling, Waiting, locals
<1>3. ASSUME NEW p \in Workers, EnterSlot(p)  PROVE TokensOwned'
  <2>1. PICK t \in Tokens : Fresh(t) /\ token' = [token EXCEPT ![p] = t]
    BY <1>3 DEF EnterSlot
  <2>2. t # NoToken BY DEF NoToken
  <2>3. pc' = [pc EXCEPT ![p] = "stamp"] BY <1>3 DEF EnterSlot
  <2> QED BY <2>1, <2>2, <2>3 DEF Fresh, Waiting
<1>4. ASSUME NEW p \in Workers,
             \/ ReadClock(p) \/ Reclaim(p) \/ Claim(p) \/ ExtendKey(p)
             \/ CheckRank(p) \/ Post(p) \/ Answer(p) \/ CoolUnreachableHost(p)
             \/ CoolRefusingHost(p)
      PROVE  TokensOwned'
  <2>1. token' = token
    BY <1>4 DEF ReadClock, Reclaim, Claim, ExtendKey, CheckRank, Post, Answer,
                CoolUnreachableHost, CoolRefusingHost, locals
  <2>2. CASE pc[p] \in Waiting
    BY <1>4, <2>1, <2>2
       DEF ReadClock, Reclaim, Claim, ExtendKey, CheckRank, Post, Answer,
           CoolUnreachableHost, CoolRefusingHost, Waiting
  <2>3. CASE pc[p] \notin Waiting
    BY <1>4, <2>1, <2>3
       DEF ReadClock, Reclaim, Claim, ExtendKey, CheckRank, Post, Answer,
           CoolUnreachableHost, CoolRefusingHost, Waiting
  <2> QED BY <2>2, <2>3
<1>5. ASSUME NEW p \in Workers,
             Unclaim(p) \/ Release(p) \/ ReleaseThenCool(p) \/ BrokerError(p) \/ Crash(p)
      PROVE  TokensOwned'
  <2>1. CASE token' = token
    BY <1>5, <2>1 DEF Unclaim, Release, ReleaseThenCool, BrokerError, Crash, Waiting,
        locals
  <2>2. CASE token' # token
    <3>1. token' = [token EXCEPT ![p] = NoToken]
      BY <1>5, <2>2 DEF Unclaim, Release, ReleaseThenCool, BrokerError, Crash, locals
    <3>2. \E s \in {"idle", "check", "cool", "post"} : pc' = [pc EXCEPT ![p] = s]
      BY <1>5, <2>2 DEF Unclaim, Release, ReleaseThenCool, BrokerError, Crash, locals
    <3> QED BY <3>1, <3>2 DEF Waiting
  <2> QED BY <2>1, <2>2
<1> QED BY <1>1, <1>2, <1>3, <1>4, <1>5 DEF Next, Endpoint, SlotLoop, Request

(* A claim is scored with the clock as it is, and time moves on.           *)
LEMMA StampStep ==
    ASSUME TypeOK, StampPast, [Next]_vars
    PROVE  StampPast'
<1> USE PacingAssumption DEF TypeOK, StampPast, LeaveSlot
<1>1. CASE Tick \/ UNCHANGED vars
  BY <1>1 DEF Tick, locals, vars
<1>2. ASSUME NEW p \in Workers, NEW n \in {0, now}, now' = now,
             stamp' = stamp \/ stamp' = [stamp EXCEPT ![p] = n]
      PROVE  StampPast'
  BY <1>2
<1>3. ASSUME NEW p \in Workers,
             StartQuery(p) \/ Endpoint(p) \/ SlotLoop(p) \/ Request(p) \/ BrokerError(p) \/ Crash(p)
      PROVE  /\ now' = now
             /\ \E n \in {0, now} : stamp' = stamp \/ stamp' = [stamp EXCEPT ![p] = n]
  <2>1. CASE StartQuery(p) \/ Endpoint(p)
    BY <2>1 DEF StartQuery, Endpoint, QueryFails, SkipCooling, EnterSlot, locals
  <2>2. CASE SlotLoop(p)
    BY <2>2 DEF SlotLoop, ReadClock, Reclaim, Claim, ExtendKey, CheckRank, Unclaim, locals
  <2>3. CASE Request(p) \/ BrokerError(p) \/ Crash(p)
    BY <2>3 DEF Request, Post, Answer, CoolUnreachableHost, Release, ReleaseThenCool,
                CoolRefusingHost, BrokerError, Crash, locals
  <2> QED BY <1>3, <2>1, <2>2, <2>3
<1> QED BY <1>1, <1>2, <1>3 DEF Next

(* A set that becomes empty is gone, time-to-live and all.                 *)
LEMMA LeaseSetsStep ==
    ASSUME TypeSets, TypePlace, LeaseSets, [Next]_vars
    PROVE  LeaseSets'
<1> USE DEF TypeSets, LeaseSets
<1>1. CASE Tick
  <2> SUFFICES ASSUME NEW h \in Hosts
               PROVE  IsFiniteSet(leases'[h]) /\ (leases'[h] = {} => keyExpiry'[h] = 0)
    OBVIOUS
  <2>1. leases'[h] = {} \/ leases'[h] = leases[h] BY <1>1 DEF Tick
  <2> QED BY <1>1, <2>1, FS_EmptySet DEF Tick
<1>2. ASSUME NEW g \in Hosts, NEW ls, IsFiniteSet(ls), SetLeases(g, ls)
      PROVE  LeaseSets'
  BY <1>2 DEF SetLeases
<1>3. ASSUME NEW g \in Hosts, NEW ls \in SUBSET leases[g]  PROVE IsFiniteSet(ls)
  BY <1>3, FS_Subset
<1>4. ASSUME NEW p \in Workers, Reclaim(p)  PROVE LeaseSets'
  <2>1. host[p] \in Hosts BY <1>4 DEF Reclaim, TypePlace
  <2> DEFINE kept == {l \in leases[host[p]] : l.score > stamp[p] - LeaseTtl}
  <2>2. IsFiniteSet(kept) BY <1>3, <2>1
  <2> QED BY <1>2, <1>4, <2>1, <2>2 DEF Reclaim
<1>5. ASSUME NEW p \in Workers, Claim(p)  PROVE LeaseSets'
  <2>1. host[p] \in Hosts BY <1>5 DEF Claim, TypePlace
  <2>2. IsFiniteSet(Others(p)) BY <1>3, <2>1 DEF Others
  <2>3. IsFiniteSet(Others(p) \union {MyLease(p)}) BY <2>2, FS_AddElement
  <2> QED BY <1>2, <1>5, <2>1, <2>3 DEF Claim
<1>6. ASSUME NEW p \in Workers, DropLease(p), host[p] \in Hosts  PROVE LeaseSets'
  <2>1. IsFiniteSet(Others(p)) BY <1>3, <1>6 DEF Others
  <2> QED BY <1>2, <1>6, <2>1 DEF DropLease
<1>7. ASSUME NEW p \in Workers, ExtendKey(p)  PROVE LeaseSets'
  BY <1>7 DEF ExtendKey, TypePlace
<1>8. ASSUME UNCHANGED <<leases, keyExpiry>>  PROVE LeaseSets'
  BY <1>8
<1> QED BY <1>1, <1>4, <1>5, <1>6, <1>7, <1>8, SetsFrame

(* How a step moves the workers that hold a slot.  A worker that holds one *)
(* after the step, or stands before the rank check, held one before the    *)
(* step with the same lease at the same host, or it is the worker that     *)
(* just ran its expire, or the one whose rank check succeeded.             *)
LEMMA HoldFrame ==
    ASSUME TypeOK, TokensOwned, [Next]_vars, NEW q \in Workers, Holding(q)'
    PROVE  /\ host'[q] = host[q] /\ token'[q] = token[q] /\ stamp'[q] = stamp[q]
           /\ \/ Holding(q) /\ overtook'[q] = overtook[q]
              \/ CheckRank(q) /\ Acquired(q)
<1> USE DEF Goto, NextHost, Finish, LeaveSlot
<1> /\ pc \in [Workers -> Steps] /\ host \in [Workers -> 1..(NumHosts + 1)]
    /\ token \in [Workers -> Tokens \union {NoToken}] /\ stamp \in [Workers -> 0..MaxTime]
    /\ overtook \in [Workers -> BOOLEAN]
  BY DEF TypeOK
<1> DEFINE Stays == /\ host'[q] = host[q] /\ token'[q] = token[q] /\ stamp'[q] = stamp[q]
                    /\ overtook'[q] = overtook[q]
<1>1. CASE Tick \/ UNCHANGED vars
  BY <1>1 DEF Tick, Holding, locals, worker, vars
<1>2. ASSUME NEW p \in Workers, p # q,
             StartQuery(p) \/ Endpoint(p) \/ SlotLoop(p) \/ Request(p) \/ BrokerError(p) \/ Crash(p)
      PROVE  Holding(q) /\ Stays
  <2>1. CASE StartQuery(p) \/ Endpoint(p)
    BY <1>2, <2>1 DEF StartQuery, Endpoint, QueryFails, SkipCooling, EnterSlot,
        Holding, locals, worker
  <2>2. CASE SlotLoop(p)
    BY <1>2, <2>2 DEF SlotLoop, ReadClock, Reclaim, Claim, ExtendKey, CheckRank,
        Unclaim, Holding, locals, worker
  <2>3. CASE Request(p)
    BY <1>2, <2>3 DEF Request, Post, Answer, CoolUnreachableHost, Release,
        ReleaseThenCool,
                CoolRefusingHost, Holding, locals, worker
  <2>4. CASE BrokerError(p) \/ Crash(p)
    BY <1>2, <2>4 DEF BrokerError, Crash, Holding, locals, worker
  <2> QED BY <1>2, <2>1, <2>2, <2>3, <2>4
<1>3. CASE StartQuery(q) \/ Endpoint(q)
  BY <1>3 DEF StartQuery, Endpoint, QueryFails, SkipCooling, EnterSlot, Holding, InSlot
<1>4. CASE SlotLoop(q)
  BY <1>4 DEF SlotLoop, ReadClock, Reclaim, Claim, ExtendKey, CheckRank, Unclaim,
      Holding, InSlot, worker
<1>5. CASE Request(q)
  BY <1>5 DEF Request, Post, Answer, CoolUnreachableHost, Release, ReleaseThenCool,
              CoolRefusingHost, Holding, InSlot, locals, worker
<1>6. CASE BrokerError(q) \/ Crash(q)
  BY <1>6 DEF BrokerError, Crash, Holding
<1> QED BY <1>1, <1>2, <1>3, <1>4, <1>5, <1>6 DEF Next

(* The same for a worker about to check its rank.                          *)
LEMMA RankFrame ==
    ASSUME TypeOK, [Next]_vars, NEW q \in Workers, pc'[q] = "rank"
    PROVE  /\ host'[q] = host[q] /\ token'[q] = token[q] /\ stamp'[q] = stamp[q]
           /\ pc[q] = "rank" \/ ExtendKey(q)
<1> USE DEF Goto, NextHost, Finish, LeaveSlot
<1> /\ pc \in [Workers -> Steps] /\ host \in [Workers -> 1..(NumHosts + 1)]
    /\ token \in [Workers -> Tokens \union {NoToken}] /\ stamp \in [Workers -> 0..MaxTime]
  BY DEF TypeOK
<1> DEFINE Stays == /\ host'[q] = host[q] /\ token'[q] = token[q] /\ stamp'[q] = stamp[q]
<1>1. CASE Tick \/ UNCHANGED vars
  BY <1>1 DEF Tick, locals, worker, vars
<1>2. ASSUME NEW p \in Workers, StartQuery(p) \/ Endpoint(p)  PROVE pc[q] = "rank" /\ Stays
  BY <1>2 DEF StartQuery, Endpoint, QueryFails, SkipCooling, EnterSlot, locals, worker
<1>3. ASSUME NEW p \in Workers, SlotLoop(p)  PROVE (pc[q] = "rank" \/ ExtendKey(q)) /\ Stays
  BY <1>3 DEF SlotLoop, ReadClock, Reclaim, Claim, ExtendKey, CheckRank, Unclaim,
      locals, worker
<1>4. ASSUME NEW p \in Workers, Request(p)  PROVE pc[q] = "rank" /\ Stays
  BY <1>4 DEF Request, Post, Answer, CoolUnreachableHost, Release, ReleaseThenCool,
              CoolRefusingHost, locals, worker
<1>5. ASSUME NEW p \in Workers, BrokerError(p) \/ Crash(p)  PROVE pc[q] = "rank" /\ Stays
  BY <1>5 DEF BrokerError, Crash, worker
<1> QED BY <1>1, <1>2, <1>3, <1>4, <1>5 DEF Next

(* A key with a time-to-live outlives the lease of every worker that ran   *)
(* its expire.                                                             *)
LEMMA KeyStep ==
    ASSUME TypeOK, TokensOwned, StampPast, LeaseSets, KeyOutlives, [Next]_vars
    PROVE  KeyOutlives'
<1> TypeClock /\ TypeSets /\ TypePlace /\ TypeCall BY TypeParts
<1> USE PacingAssumption
<1> SUFFICES ASSUME NEW q \in Workers, Holding(q)' \/ pc'[q] = "rank"
             PROVE  \/ keyExpiry'[host'[q]] = 0
                    \/ keyExpiry'[host'[q]] > stamp'[q] + LeaseTtl
  BY DEF KeyOutlives
<1>1. /\ host'[q] = host[q] /\ stamp'[q] = stamp[q]
      /\ Holding(q) \/ pc[q] = "rank" \/ ExtendKey(q)
  BY HoldFrame, RankFrame DEF CheckRank
<1>2. host[q] \in Hosts
  BY <1>1 DEF ExtendKey, TypePlace, Holding, InSlot
<1> DEFINE h == host[q]
<1>3. /\ now \in Nat /\ stamp[q] \in Nat /\ stamp[q] <= now /\ LeaseTtl \in Nat
      /\ keyExpiry[h] \in Nat
  BY <1>2 DEF TypeClock, TypeSets, TypeCall, StampPast
<1>4. CASE ExtendKey(q)
  BY <1>1, <1>2, <1>3, <1>4 DEF ExtendKey, LeaseSets, TypeSets
<1>5. CASE ~ExtendKey(q)
  <2>1. keyExpiry[h] = 0 \/ keyExpiry[h] > stamp[q] + LeaseTtl
    BY <1>1, <1>5 DEF KeyOutlives
  <2>2. keyExpiry'[h] \in {0, keyExpiry[h], now + LeaseTtl + 1}
    <3>1. ASSUME NEW g \in Hosts, NEW ls, SetLeases(g, ls)
          PROVE  keyExpiry'[h] \in {0, keyExpiry[h]}
      BY <1>2, <3>1 DEF SetLeases, TypeSets
    <3>2. CASE Tick BY <1>2, <3>2 DEF Tick
    <3>3. ASSUME NEW p \in Workers, Reclaim(p) \/ Claim(p) \/ ExtendKey(p)
          PROVE  host[p] \in Hosts
      BY <3>3 DEF Reclaim, Claim, ExtendKey, TypePlace
    <3>4. ASSUME NEW p \in Workers, Reclaim(p) \/ Claim(p)
          PROVE  keyExpiry'[h] \in {0, keyExpiry[h]}
      BY <3>1, <3>3, <3>4 DEF Reclaim, Claim
    <3>5. ASSUME NEW p \in Workers, ExtendKey(p)
          PROVE  keyExpiry'[h] \in {keyExpiry[h], now + LeaseTtl + 1}
      BY <1>2, <3>5 DEF ExtendKey, TypeSets
    <3>6. ASSUME NEW p \in Workers, DropLease(p), host[p] \in Hosts
          PROVE  keyExpiry'[h] \in {0, keyExpiry[h]}
      BY <3>1, <3>6 DEF DropLease
    <3> QED BY <3>2, <3>4, <3>5, <3>6, SetsFrame
  <2> HIDE DEF h
  <2> QED BY <1>1, <1>3, <2>1, <2>2 DEF h
<1> QED BY <1>4, <1>5

(* Time never goes back, and by at most one second a step.                 *)
LEMMA TimeFrame == ASSUME [Next]_vars PROVE now' = now \/ now' = now + 1
<1>1. CASE Tick \/ UNCHANGED vars BY <1>1 DEF Tick, vars
<1>2. ASSUME NEW p \in Workers, StartQuery(p) \/ Endpoint(p) \/ SlotLoop(p)  PROVE now' = now
  BY <1>2 DEF StartQuery, Endpoint, QueryFails, SkipCooling, EnterSlot, SlotLoop,
      ReadClock,
              Reclaim, Claim, ExtendKey, CheckRank, Unclaim
<1>3. ASSUME NEW p \in Workers, Request(p) \/ BrokerError(p) \/ Crash(p)  PROVE now' = now
  BY <1>3 DEF Request, Post, Answer, CoolUnreachableHost, Release, ReleaseThenCool,
              CoolRefusingHost, BrokerError, Crash
<1> QED BY <1>1, <1>2, <1>3 DEF Next

(* A holder whose lease runs after a step had one that ran before it.      *)
LEMMA UnexpiredBefore ==
    ASSUME TypeOK, TokensOwned, [Next]_vars, NEW q \in Workers, Holding(q)', Unexpired(q)'
    PROVE  Unexpired(q)
<1>1. now \in Nat /\ stamp[q] \in Nat /\ LeaseTtl \in Nat BY PacingAssumption DEF TypeOK
<1>2. stamp'[q] = stamp[q] BY HoldFrame
<1> QED BY <1>1, <1>2, TimeFrame DEF Unexpired

(* Another process never takes the lease of a worker out of its set before *)
(* the lease has run out.                                                  *)
LEMMA LeaseStays ==
    ASSUME TypeOK, TokensOwned, StampPast, KeyOutlives, [Next]_vars,
           NEW q \in Workers, Holding(q), Holding(q)', Unexpired(q)',
           MyLease(q) \in leases[host[q]]
    PROVE  MyLease(q) \in leases'[host[q]]
<1> TypeClock /\ TypeSets /\ TypePlace /\ TypeCall BY TypeParts
<1> USE PacingAssumption
<1> DEFINE m == MyLease(q)
           h == host[q]
<1>0. /\ h \in Hosts /\ token[q] # NoToken BY DEF Holding, InSlot, TypePlace
<1>1. stamp'[q] = stamp[q] BY HoldFrame
<1>2. m.token = token[q] /\ m.score = stamp[q] BY DEF MyLease
<1>3. /\ now \in Nat /\ stamp[q] \in Nat /\ LeaseTtl \in Nat /\ keyExpiry[h] \in Nat
  BY <1>0 DEF TypeClock, TypeCall, TypeSets
<1>4. now' = now \/ now' = now + 1 BY TimeFrame
<1>5. now' < stamp[q] + LeaseTtl BY <1>1 DEF Unexpired
<1>6. CASE Tick
  <2>1. ~KeyGone(h)
    BY <1>3, <1>5, <1>6, KeyOutlives DEF KeyOutlives, KeyGone, Tick
  <2> QED BY <1>0, <1>6, <2>1 DEF Tick
<1>7. ASSUME NEW p \in Workers, Reclaim(p)  PROVE m \in leases'[h]
  <2>1. /\ stamp[p] \in Nat /\ stamp[p] <= now BY DEF StampPast, TypeCall
  <2>2. stamp[q] > stamp[p] - LeaseTtl  BY <1>3, <1>4, <1>5, <2>1
  <2> QED BY <1>0, <1>2, <1>7, <2>2 DEF Reclaim, SetLeases, TypeSets
<1>8. ASSUME NEW p \in Workers, p # q  PROVE host[p] = h => m \in Others(p)
  BY <1>0, <1>2, <1>8 DEF Others, TokensOwned
<1>9. ASSUME NEW p \in Workers, Claim(p)  PROVE m \in leases'[h]
  <2>1. p # q BY <1>9 DEF Claim, Holding, InSlot
  <2> QED BY <1>0, <1>8, <1>9, <2>1 DEF Claim, SetLeases, TypeSets
<1>10. ASSUME NEW p \in Workers, Unclaim(p) \/ Release(p) \/ ReleaseThenCool(p), DropLease(p)
       PROVE  m \in leases'[h]
  <2>1. p # q
    <3>1. CASE Unclaim(p) BY <3>1 DEF Unclaim, Holding, InSlot
    <3>2. CASE Release(p) \/ ReleaseThenCool(p)
      <4>1. token' = [token EXCEPT ![p] = NoToken] BY <3>2 DEF Release,
          ReleaseThenCool, LeaveSlot
      <4> QED BY <4>1 DEF Holding, TypeCall
    <3> QED BY <1>10, <3>1, <3>2
  <2> QED BY <1>0, <1>8, <1>10, <2>1 DEF DropLease, SetLeases, TypeSets
<1>11. ASSUME NEW p \in Workers, ExtendKey(p)  PROVE m \in leases'[h]
  BY <1>11 DEF ExtendKey
<1> QED BY <1>6, <1>7, <1>9, <1>10, <1>11, SetsFrame

(* A lease that was acquired is in its set until it runs out.              *)
LEMMA KeptStep ==
    ASSUME TypeOK, TokensOwned, StampPast, KeyOutlives, HolderLeaseKept, [Next]_vars
    PROVE  HolderLeaseKept'
<1> SUFFICES ASSUME NEW q \in Workers, Holding(q)', Unexpired(q)'
             PROVE  MyLease(q)' \in leases'[host'[q]]
  BY DEF HolderLeaseKept
<1>1. /\ host'[q] = host[q] /\ token'[q] = token[q] /\ stamp'[q] = stamp[q]
      /\ Holding(q) \/ (CheckRank(q) /\ Acquired(q))
  BY HoldFrame
<1>2. MyLease(q)' = MyLease(q) BY <1>1 DEF MyLease
<1>3. CASE Holding(q)
  <2>1. Unexpired(q) BY UnexpiredBefore
  <2>2. MyLease(q) \in leases[host[q]] BY <1>3, <2>1 DEF HolderLeaseKept
  <2> QED BY <1>1, <1>2, <1>3, <2>2, LeaseStays
<1>4. CASE CheckRank(q) /\ Acquired(q)
  BY <1>1, <1>2, <1>4 DEF CheckRank, Acquired, redis
<1> QED BY <1>1, <1>3, <1>4

(* A member of a sorted set was there before, or its owner just added it.  *)
LEMMA LeaseOrigin ==
    ASSUME TypeOK, [Next]_vars, NEW h \in Hosts, NEW l \in leases'[h]
    PROVE  \/ l \in leases[h]
           \/ \E p \in Workers : Claim(p) /\ host[p] = h /\ l = MyLease(p)
<1> TypeSets /\ TypePlace BY TypeParts
<1> USE DEF TypeSets
<1>1. CASE Tick BY <1>1 DEF Tick
<1>2. ASSUME NEW p \in Workers, Reclaim(p)  PROVE l \in leases[h]
  BY <1>2 DEF Reclaim, SetLeases
<1>3. ASSUME NEW p \in Workers, Claim(p)
      PROVE  l \in leases[h] \/ (host[p] = h /\ l = MyLease(p))
  BY <1>3 DEF Claim, SetLeases, Others
<1>4. ASSUME NEW p \in Workers, DropLease(p)  PROVE l \in leases[h]
  BY <1>4 DEF DropLease, SetLeases, Others
<1>5. ASSUME NEW p \in Workers, ExtendKey(p)  PROVE l \in leases[h]
  BY <1>5 DEF ExtendKey
<1> QED BY <1>1, <1>2, <1>3, <1>4, <1>5, SetsFrame

(* A worker between its zadd and its zrem stays there with the same token, *)
(* removes its own lease, or is lost on the way.                           *)
LEMMA ClaimFrame ==
    ASSUME TypeOK, TokensOwned, [Next]_vars, NEW q \in Workers, Claiming(q)
    PROVE  \/ Claiming(q)' /\ host'[q] = host[q] /\ token'[q] = token[q]
           \/ token[q] \in lost'
           \/ DropLease(q)
<1> USE DEF Goto, NextHost, Finish, LeaveSlot
<1> /\ pc \in [Workers -> Steps] /\ host \in [Workers -> 1..(NumHosts + 1)]
    /\ token \in [Workers -> Tokens \union {NoToken}]
  BY DEF TypeOK
<1> DEFINE Stays == Claiming(q)' /\ host'[q] = host[q] /\ token'[q] = token[q]
<1>0. token[q] # NoToken BY DEF Claiming, Holding, TokensOwned, Waiting
<1>1. CASE Tick \/ UNCHANGED vars
  BY <1>1 DEF Tick, Claiming, Holding, locals, worker, vars
<1>2. ASSUME NEW p \in Workers, p # q, StartQuery(p) \/ Endpoint(p) \/ SlotLoop(p)  PROVE Stays
  BY <1>2 DEF StartQuery, Endpoint, QueryFails, SkipCooling, EnterSlot, SlotLoop,
      ReadClock, Reclaim,
              Claim, ExtendKey, CheckRank, Unclaim, Claiming, Holding, locals, worker
<1>3. ASSUME NEW p \in Workers, p # q, Request(p) \/ BrokerError(p) \/ Crash(p)  PROVE Stays
  BY <1>3 DEF Request, Post, Answer, CoolUnreachableHost, Release, ReleaseThenCool,
      CoolRefusingHost,
              BrokerError, Crash, Claiming, Holding, locals, worker
<1>4. CASE StartQuery(q) \/ Endpoint(q)
  BY <1>4 DEF StartQuery, Endpoint, QueryFails, SkipCooling, EnterSlot, Claiming,
      Holding, InSlot
<1>5. CASE SlotLoop(q)
  BY <1>0, <1>5 DEF SlotLoop, ReadClock, Reclaim, Claim, ExtendKey, CheckRank, Unclaim,
      Claiming, Holding,
              InSlot, locals, worker
<1>6. CASE Post(q) \/ Answer(q) \/ CoolUnreachableHost(q) \/ CoolRefusingHost(q)
  BY <1>6 DEF Post, Answer, CoolUnreachableHost, CoolRefusingHost, Claiming, Holding,
      InSlot, locals, worker
<1>7. CASE Release(q) \/ ReleaseThenCool(q)
  BY <1>7 DEF Release, ReleaseThenCool, ReleaseSlot
<1>8. CASE BrokerError(q) \/ Crash(q)
  BY <1>0, <1>8 DEF BrokerError, Crash
<1> QED BY <1>1, <1>2, <1>3, <1>4, <1>5, <1>6, <1>7, <1>8 DEF Next, Request

(* A lost token is forgotten only when a new call draws it, and then no    *)
(* lease carries it.                                                       *)
LEMMA LostFrame ==
    ASSUME [Next]_vars, NEW h \in Hosts, NEW l \in leases[h], l.token \in lost
    PROVE  l.token \in lost'
<1>1. ASSUME NEW p \in Workers, EnterSlot(p)  PROVE l.token \in lost'
  BY <1>1 DEF EnterSlot, Fresh
<1>2. ASSUME NEW p \in Workers, StartQuery(p) \/ QueryFails(p) \/ SkipCooling(p) \/ SlotLoop(p)
      PROVE  lost' = lost
  BY <1>2 DEF StartQuery, QueryFails, SkipCooling, SlotLoop, ReadClock, Reclaim, Claim,
      ExtendKey,
              CheckRank, Unclaim, ghosts
<1>3. ASSUME NEW p \in Workers, Request(p) \/ BrokerError(p) \/ Crash(p)  PROVE lost \subseteq lost'
  BY <1>3 DEF Request, Post, Answer, CoolUnreachableHost, Release, ReleaseSlot,
      ReleaseThenCool,
              CoolRefusingHost, BrokerError, Crash, ghosts
<1>4. CASE Tick \/ UNCHANGED vars
  BY <1>4 DEF Tick, vars, ghosts
<1> QED BY <1>1, <1>2, <1>3, <1>4 DEF Next, Endpoint

(* Every lease keeps an owner, or its owner was lost.                      *)
LEMMA OrphanStep ==
    ASSUME TypeOK, TokensOwned, NoOrphanLease, [Next]_vars
    PROVE  NoOrphanLease'
<1> SUFFICES ASSUME NEW h \in Hosts, NEW l \in leases'[h]
             PROVE  \/ l.token \in lost'
                    \/ \E p \in Workers : Claiming(p)' /\ host'[p] = h /\ token'[p] = l.token
  BY DEF NoOrphanLease
<1>1. CASE l \in leases[h]
  <2>1. CASE l.token \in lost BY <1>1, <2>1, LostFrame
  <2>2. ASSUME NEW p \in Workers, Claiming(p), host[p] = h, token[p] = l.token
        PROVE  \/ l.token \in lost'
               \/ Claiming(p)' /\ host'[p] = h /\ token'[p] = l.token
    <3>1. CASE DropLease(p)
      BY <2>2, <3>1 DEF DropLease, SetLeases, Others, TypeOK
    <3> QED BY <2>2, <3>1, ClaimFrame
  <2> QED BY <1>1, <2>1, <2>2 DEF NoOrphanLease
<1>2. ASSUME NEW p \in Workers, Claim(p), host[p] = h, l = MyLease(p)
      PROVE  Claiming(p)' /\ host'[p] = h /\ token'[p] = l.token
  BY <1>2 DEF Claim, Goto, Claiming, MyLease, locals, worker, TypeOK
<1> QED BY <1>1, <1>2, LeaseOrigin

(* A rank check that succeeds without overtaking a holder: the leases of   *)
(* all other live holders sort before it, so there are fewer of them than  *)
(* slots.                                                                  *)
LEMMA RankBoundsHolders ==
    ASSUME IInv, [Next]_vars, NEW h \in Hosts, NEW q \in Workers,
           CheckRank(q), Acquired(q), ~Overtakes(q), host[q] = h
    PROVE  Cardinality(Holders(h)') <= Limit
<1> TypeOK /\ TypeSets /\ TypePlace /\ TypeCall /\ TokensOwned BY TypeParts DEF IInv
<1> DEFINE T == {l \in leases[h] : Before(l, MyLease(q))}
           S == Holders(h)' \ {q}
           f == [p \in S |-> MyLease(p)]
<1>0. token[q] # NoToken BY DEF CheckRank, TokensOwned, Waiting
<1>1. IsFiniteSet(T) /\ Cardinality(T) < Limit /\ Cardinality(T) \in Nat
  <2>1. IsFiniteSet(leases[h]) BY DEF IInv, LeaseSets
  <2>2. T \subseteq leases[h] OBVIOUS
  <2>3. IsFiniteSet(T) BY <2>1, <2>2, FS_Subset
  <2>4. Cardinality(T) \in Nat BY <2>3, FS_CardinalityType
  <2> QED BY <2>3, <2>4 DEF Acquired, Rank
<1>2. ASSUME NEW p \in S
      PROVE  /\ p \in Workers /\ p # q /\ token[p] # NoToken
             /\ MyLease(p) \in T
  <2>1. p \in Workers /\ p # q /\ Holding(p)' /\ Unexpired(p)' /\ host'[p] = h BY DEF Holders
  <2>2. pc'[p] = pc[p] BY <2>1 DEF CheckRank, Goto, TypePlace
  <2>3. Holding(p) /\ host[p] = h
    <3>1. ~CheckRank(p) BY <2>1, <2>2 DEF CheckRank, Holding, InSlot
    <3> QED BY <2>1, <3>1, HoldFrame
  <2>4. Unexpired(p) BY <2>1, UnexpiredBefore
  <2>5. MyLease(p) \in leases[h] BY <2>1, <2>3, <2>4 DEF IInv, HolderLeaseKept
  <2>6. token[p] # NoToken BY <2>3 DEF Holding
  <2>7. ~Before(MyLease(q), MyLease(p)) BY <2>1, <2>3 DEF Overtakes
  <2>8. token[p] # token[q] BY <1>0, <2>1 DEF TokensOwned
  <2>9. Before(MyLease(p), MyLease(q))
    <3>1. MyLease(p) \in Lease /\ MyLease(q) \in Lease BY <2>1, MyLeaseType
    <3>2. MyLease(p).token # MyLease(q).token BY <2>8 DEF MyLease
    <3> QED BY <2>7, <3>1, <3>2 DEF Before, Lease
  <2> QED BY <2>1, <2>5, <2>6, <2>9
<1>3. f \in Injection(S, T)
  <2>1. f \in [S -> T] BY <1>2
  <2>2. ASSUME NEW a \in S, NEW b \in S, f[a] = f[b]  PROVE a = b
    <3>1. MyLease(a).token = token[a] /\ MyLease(b).token = token[b] BY DEF MyLease
    <3>2. token[a] = token[b] BY <2>2, <3>1
    <3> QED BY <1>2, <3>2 DEF TokensOwned
  <2> QED BY <2>1, <2>2 DEF Injection, IsInjective
<1> HIDE DEF S, T, f
<1>4. IsFiniteSet(S) /\ Cardinality(S) <= Cardinality(T)
  BY <1>1, <1>3, FS_Injection
<1>5. Cardinality(S) \in Nat BY <1>4, FS_CardinalityType
<1>6. IsFiniteSet(S \union {q}) /\ Cardinality(S \union {q}) <= Cardinality(S) + 1
  <2>1. IsFiniteSet(S \union {q}) BY <1>4, FS_AddElement
  <2>2. Cardinality(S \union {q}) = IF q \in S THEN Cardinality(S) ELSE Cardinality(S) + 1
    BY <1>4, FS_AddElement
  <2> QED BY <1>5, <2>1, <2>2
<1>7. Holders(h)' \subseteq S \union {q} BY DEF S
<1>8. /\ Cardinality(Holders(h)') <= Cardinality(S \union {q})
      /\ Cardinality(Holders(h)') \in Nat /\ Cardinality(S \union {q}) \in Nat
  BY <1>6, <1>7, FS_Subset, FS_CardinalityType
<1>9. Limit \in Nat BY PacingAssumption
<1> QED BY <1>1, <1>4, <1>5, <1>6, <1>8, <1>9

(* The cap survives every step: only a rank check that succeeds adds a     *)
(* holder.                                                                 *)
LEMMA CapStep == ASSUME IInv, [Next]_vars PROVE CapWithoutOvertaking'
<1> TypeOK /\ TokensOwned /\ TypeCall BY TypeParts DEF IInv
<1> SUFFICES ASSUME NEW h \in Hosts
             PROVE  Cardinality({p \in Holders(h)' : ~overtook'[p]}) <= Limit
  BY DEF CapWithoutOvertaking
<1> DEFINE N == {p \in Holders(h) : ~overtook[p]}
           M == {p \in Holders(h)' : ~overtook'[p]}
<1>0. Limit \in Nat BY PacingAssumption
<1>1. CASE \E q \in Workers : CheckRank(q) /\ Acquired(q) /\ ~Overtakes(q) /\ host[q] = h
  <2>1. Cardinality(Holders(h)') <= Limit BY <1>1, RankBoundsHolders
  <2>2. Holders(h)' \subseteq Workers BY DEF Holders
  <2>3. IsFiniteSet(Holders(h)') BY <2>2, PacingAssumption, FS_Subset
  <2>4. M \subseteq Holders(h)' OBVIOUS
  <2>5. Cardinality(M) <= Cardinality(Holders(h)') /\ Cardinality(M) \in Nat /\ Cardinality(Holders(h)') \in Nat
    BY <2>3, <2>4, FS_Subset, FS_CardinalityType
  <2> HIDE DEF M
  <2>6. Cardinality(M) <= Limit BY <1>0, <2>1, <2>5
  <2> QED BY <2>6 DEF M
<1>2. CASE ~ \E q \in Workers : CheckRank(q) /\ Acquired(q) /\ ~Overtakes(q) /\ host[q] = h
  <2>1. ASSUME NEW p \in M  PROVE p \in N
    <3>1. p \in Workers /\ Holding(p)' /\ Unexpired(p)' /\ host'[p] = h /\ ~overtook'[p]
      BY DEF Holders
    <3>2. Unexpired(p) BY <3>1, UnexpiredBefore
    <3>3. host[p] = h /\ ((Holding(p) /\ overtook'[p] = overtook[p]) \/ (CheckRank(p) /\ Acquired(p)))
      BY <3>1, HoldFrame
    <3>4. CheckRank(p) => overtook'[p] = Overtakes(p) BY <3>1 DEF CheckRank, TypeCall
    <3>5. ~(CheckRank(p) /\ Acquired(p)) BY <1>2, <3>1, <3>3, <3>4
    <3> QED BY <3>1, <3>2, <3>3, <3>5 DEF Holders
  <2>2. N \subseteq Workers /\ M \subseteq N BY <2>1 DEF Holders
  <2>3. IsFiniteSet(N) BY <2>2, PacingAssumption, FS_Subset
  <2>4. Cardinality(M) <= Cardinality(N) /\ Cardinality(M) \in Nat /\ Cardinality(N) \in Nat
    BY <2>2, <2>3, FS_Subset, FS_CardinalityType
  <2>5. Cardinality(N) <= Limit BY DEF IInv, CapWithoutOvertaking
  <2> HIDE DEF M, N
  <2>6. Cardinality(M) <= Limit BY <1>0, <2>4, <2>5
  <2> QED BY <2>6 DEF M
<1> QED BY <1>1, <1>2

(* Every step keeps the inductive invariant.                               *)
LEMMA StepIInv == IInv /\ [Next]_vars => IInv'
<1> SUFFICES ASSUME IInv, [Next]_vars PROVE IInv' OBVIOUS
<1>0. TypeClock /\ TypeSets /\ TypeCool /\ TypePlace /\ TypeCall /\ lost \subseteq Tokens
  BY TypeParts DEF IInv
<1>1. TypeClock' /\ TypePlace' /\ TypeSets' /\ TypeCool' /\ TypeCall' /\ (lost \subseteq Tokens)'
  BY <1>0, ClockStep, PlaceStep, SetsStep, CoolStep, CallStep, LostStep DEF IInv
<1>2. TypeOK'
  BY <1>1 DEF TypeOK, TypeClock, TypeSets, TypeCool, TypePlace, TypeCall
<1>3. TokensOwned' BY TokensStep DEF IInv
<1>4. StampPast' BY StampStep DEF IInv
<1>5. LeaseSets' BY <1>0, LeaseSetsStep DEF IInv
<1>6. KeyOutlives' BY KeyStep DEF IInv
<1>7. NoOrphanLease' BY OrphanStep DEF IInv
<1>8. HolderLeaseKept' BY KeptStep DEF IInv
<1>9. CapWithoutOvertaking' BY CapStep
<1> QED BY <1>2, <1>3, <1>4, <1>5, <1>6, <1>7, <1>8, <1>9 DEF IInv

(* It holds always.                                                        *)
LEMMA Inductive == Spec => []IInv
BY InitIInv, StepIInv, PTL DEF Spec

(* TypeOK of _overpass and slot(): an endpoint index, a token or a         *)
(* deadline never leaves its range, whatever fails.                        *)
THEOREM TypeCorrect == Spec => []TypeOK
BY Inductive, PTL DEF IInv

(* A worker inside the with block of slot() keeps its member of the sorted *)
(* set until lease_ttl_s is over: no zremrangebyscore of another process   *)
(* and no expiry of the key takes it away.                                 *)
THEOREM LeaseKept == Spec => []HolderLeaseKept
BY Inductive, PTL DEF IInv

(* Every member of a sorted set has its owner between zadd and zrem, or an *)
(* owner that was killed or met a broker error.                            *)
THEOREM NoLeaseForgotten == Spec => []NoOrphanLease
BY Inductive, PTL DEF IInv

(* The cap of slot() in score order: the live holders of an endpoint that  *)
(* overtook nobody are never more than limit, for every number of workers. *)
THEOREM CapHolds == Spec => []CapWithoutOvertaking
BY Inductive, PTL DEF IInv
=============================================================================
