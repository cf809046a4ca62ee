---------------------------- MODULE TilePrefetch ----------------------------
(***************************************************************************)
(* Fetching a render's map tiles ahead of the frame loop.                  *)
(*                                                                         *)
(*   src/video/tile_prefetch.py   _Pool, TilePrefetcher                    *)
(*                                                                         *)
(* The frame loop (the consumer) asks for tiles one at a time; a few       *)
(* threads fetch the planned requests ahead of it, a window at a time; a   *)
(* third party may close the pool at any moment.  Request i of the plan is *)
(* submitted at most once, so i names its slot.                            *)
(***************************************************************************)
EXTENDS Naturals, Sequences, FiniteSets, SequencesExt

CONSTANTS
    Keys,     \* tiles
    Plan,     \* the requests, in order
    Calls,    \* the sequences of tiles the consumer may ask for
    Threads,
    Window,   \* bound: live slots
    None

VARIABLES
    asks,     \* the tiles asked for: [all, left]
    call,     \* the consumer's call
    ahead,    \* the consumer's tables: next, pending, order, live
    slot,     \* request -> its slot, once submitted
    queue,    \* the pool's queue of requests; 0 wakes a thread to exit
    thread,   \* thread -> what it does
    pool,     \* [started, closed, drained]
    seen      \* history: [taken, missed, answer]

vars == <<asks, call, ahead, slot, queue, thread, pool, seen>>

Requests == DOMAIN Plan
Wake == 0
Off == [pc |-> "off", at |-> 0]
Call(pc, key, at, then) == [pc |-> pc, key |-> key, at |-> at, then |-> then]
Fresh == [done |-> FALSE, cancelled |-> FALSE, data |-> None]
-----------------------------------------------------------------------------
Init ==
    /\ asks \in {[all |-> c, left |-> c] : c \in Calls}
    /\ call = Call("ask", None, 0, "ask")
    /\ ahead = [next |-> 1, pending |-> {}, order |-> <<>>, live |-> 0]
    /\ slot = [i \in {} |-> Fresh] /\ queue = <<>>
    /\ thread = [t \in Threads |-> Off]
    /\ pool = [started |-> FALSE, closed |-> FALSE, drained |-> FALSE]
    /\ seen = [taken |-> {}, missed |-> FALSE, answer |-> None]

\* __call__, up to the first statement that touches the pool.  start() does
\* nothing to a pool already closed.
Ask ==
    /\ call.pc = "ask" /\ asks.left # <<>>
    /\ asks' = [asks EXCEPT !.left = Tail(@)]
    /\ call' = Call(IF pool.closed THEN "direct" ELSE IF pool.started THEN "match" ELSE "start",
                    Head(asks.left), 0, "match")
    /\ UNCHANGED <<ahead, slot, queue, thread, pool, seen>>

Start ==
    /\ call.pc = "start"
    /\ pool' = [pool EXCEPT !.started = TRUE]
    /\ thread' = IF pool.closed THEN thread ELSE [t \in Threads |-> [pc |-> "idle", at |-> 0]]
    /\ call' = [call EXCEPT !.pc = "fill"]
    /\ UNCHANGED <<asks, ahead, slot, queue, seen>>

FillsOverWindow == ahead.live <= Window /\ ahead.next \in Requests
Fills == ahead.live < Window /\ ahead.next \in Requests

\* _top_up, one submit at a time: refused by a closed pool.
Fill ==
    /\ call.pc = "fill"
    /\ IF Fills /\ ~pool.closed
       THEN /\ slot' = [i \in DOMAIN slot \cup {ahead.next} |-> IF i = ahead.next THEN Fresh ELSE slot[i]]
            /\ queue' = Append(queue, ahead.next)
            /\ ahead' = [next |-> ahead.next + 1, live |-> ahead.live + 1,
                         pending |-> ahead.pending \cup {ahead.next},
                         order |-> Append(ahead.order, ahead.next)]
            /\ UNCHANGED call
       ELSE call' = [call EXCEPT !.pc = call.then] /\ UNCHANGED <<ahead, slot, queue>>
    /\ UNCHANGED <<asks, thread, pool, seen>>

\* The requests pending for a key, and the first of them.
PendingFor(key) == {i \in ahead.pending : Plan[i] = key}
Least(S) == CHOOSE i \in S : \A j \in S : i <= j

\* _discard_before: the live slots the render has moved past.
Behind(index) == {i \in ahead.pending \cap ToSet(ahead.order) : i < index}
Discarded(index) ==
    [i \in DOMAIN slot |-> IF i \in Behind(index) THEN [slot[i] EXCEPT !.cancelled = TRUE] ELSE slot[i]]
Past(index, taken) ==
    [ahead EXCEPT !.pending = (@ \ Behind(index)) \ taken,
                  !.live = @ - Cardinality(Behind(index)) - Cardinality(taken),
                  !.order = SelectSeq(@, LAMBDA i : i > index)]

TakeNext(key) == Least(ahead.pending)
TakeLast(key) == CHOOSE i \in PendingFor(key) : \A j \in PendingFor(key) : j <= i

\* The slot a call is given.
Take(key) == Least(PendingFor(key))

Hit ==
    /\ call.pc = "match" /\ PendingFor(call.key) # {}
    /\ LET index == Take(call.key)
       IN  /\ slot' = Discarded(index) /\ ahead' = Past(index, {index})
           /\ call' = [call EXCEPT !.pc = "wait", !.at = index]
           /\ seen' = [seen EXCEPT !.taken = @ \cup {index}]
    /\ UNCHANGED <<asks, queue, thread, pool>>

\* Where the missed tile is still to come.
Later(key) == {i \in Requests : i >= ahead.next /\ Plan[i] = key}

\* _skip_to: the render jumped ahead.
Miss ==
    /\ call.pc = "match" /\ PendingFor(call.key) = {}
    /\ IF Later(call.key) = {} THEN UNCHANGED <<slot, ahead>>
       ELSE LET index == Least(Later(call.key))
            IN  /\ slot' = Discarded(index)
                /\ ahead' = [Past(index, {}) EXCEPT !.next = index + 1]
    /\ call' = [call EXCEPT !.pc = "fill", !.then = "direct"]
    /\ seen' = [seen EXCEPT !.missed = TRUE]
    /\ UNCHANGED <<asks, queue, thread, pool>>

\* slot.done.wait()
Woken ==
    /\ call.pc = "wait" /\ slot[call.at].done
    /\ call' = [call EXCEPT !.pc = "fill", !.then = "return"]
    /\ UNCHANGED <<asks, ahead, slot, queue, thread, pool, seen>>

Return ==
    /\ call.pc = "return"
    /\ IF slot[call.at].cancelled THEN call' = [call EXCEPT !.pc = "direct"] /\ UNCHANGED seen
       ELSE /\ seen' = [seen EXCEPT !.answer = <<call.key, slot[call.at].data>>]
            /\ call' = [call EXCEPT !.pc = IF slot[call.at].data = None THEN "failed" ELSE "ask"]
    /\ UNCHANGED <<asks, ahead, slot, queue, thread, pool>>

\* _direct: fetched on the consumer's own thread.
Direct ==
    /\ call.pc = "direct"
    /\ \E data \in {call.key, None} :
          /\ seen' = [seen EXCEPT !.answer = <<call.key, data>>]
          /\ call' = [call EXCEPT !.pc = IF data = None THEN "failed" ELSE "ask"]
    /\ UNCHANGED <<asks, ahead, slot, queue, thread, pool>>
-----------------------------------------------------------------------------
\* A thread takes the queue's head, or its wake-up.
Get(t) ==
    /\ thread[t].pc = "idle" /\ queue # <<>>
    /\ thread' = [thread EXCEPT ![t] = IF Head(queue) = Wake THEN [pc |-> "gone", at |-> 0]
                                       ELSE [pc |-> "got", at |-> Head(queue)]]
    /\ queue' = Tail(queue)
    /\ UNCHANGED <<asks, call, ahead, slot, pool, seen>>

\* Fetched unless the pool has stopped or the slot was discarded.
Check(t) ==
    /\ thread[t].pc = "got"
    /\ LET i == thread[t].at
           skip == pool.closed \/ slot[i].cancelled
       IN  /\ slot' = IF skip THEN [slot EXCEPT ![i].cancelled = TRUE, ![i].done = TRUE] ELSE slot
           /\ thread' = [thread EXCEPT ![t].pc = IF ~skip THEN "fetch" ELSE IF pool.closed THEN "gone" ELSE "idle"]
    /\ UNCHANGED <<asks, call, ahead, queue, pool, seen>>

\* The fetcher answers, or raises (None).
Fetched(t) ==
    /\ thread[t].pc = "fetch"
    /\ \E data \in {Plan[thread[t].at], None} :
          slot' = [slot EXCEPT ![thread[t].at].data = data, ![thread[t].at].done = TRUE]
    /\ thread' = [thread EXCEPT ![t].pc = IF pool.closed THEN "gone" ELSE "idle"]
    /\ UNCHANGED <<asks, call, ahead, queue, pool, seen>>

\* close(): by the render's end or the finalizer, on any thread.
Close ==
    /\ ~pool.closed
    /\ pool' = [pool EXCEPT !.closed = TRUE]
    /\ UNCHANGED <<asks, call, ahead, slot, queue, thread, seen>>

DroppedAsleep(s) == [s EXCEPT !.cancelled = TRUE]

\* What was queued is dropped, and its waiter woken.
Dropped(s) == [s EXCEPT !.cancelled = TRUE, !.done = TRUE]

Drain ==
    /\ pool.closed /\ ~pool.drained /\ queue # <<>>
    /\ slot' = [slot EXCEPT ![Head(queue)] = Dropped(@)]
    /\ queue' = Tail(queue)
    /\ UNCHANGED <<asks, call, ahead, thread, pool, seen>>

Started == {t \in Threads : thread[t].pc # "off"}
WakesOne == IF Started = {} THEN <<>> ELSE <<Wake>>
Wakes == [n \in 1..Cardinality(Started) |-> Wake]

\* The queue found empty: a wake-up for every thread.
Drained ==
    /\ pool.closed /\ ~pool.drained /\ queue = <<>>
    /\ queue' = Wakes
    /\ pool' = [pool EXCEPT !.drained = TRUE]
    /\ UNCHANGED <<asks, call, ahead, slot, thread, seen>>

Next ==
    \/ Ask \/ Start \/ Fill \/ Hit \/ Miss \/ Woken \/ Return \/ Direct
    \/ Close \/ Drain \/ Drained
    \/ \E t \in Threads : Get(t) \/ Check(t) \/ Fetched(t)

Spec == Init /\ [][Next]_vars
-----------------------------------------------------------------------------
TypeOK ==
    /\ DOMAIN slot \subseteq Requests /\ \A i \in DOMAIN slot : slot[i].data \in Keys \cup {None}
    /\ ahead.pending = ToSet(ahead.order) /\ ahead.live = Cardinality(ahead.pending)
    /\ ahead.pending \subseteq DOMAIN slot
    /\ \A t \in Threads : thread[t].pc \in {"off", "idle", "got", "fetch", "gone"}

\* Tiles fetched or being fetched and not yet asked for never exceed the
\* window, whatever the render asks for, skips or lets be discarded; a slot no
\* longer counted is consumed or will be dropped unfetched by the thread that
\* reaches it.
WindowKept ==
    Cardinality({i \in DOMAIN slot : ~slot[i].cancelled /\ i \notin seen.taken}) <= Window

\* A call gets the tile it asked for, the plan being right or wrong.
OwnTile == seen.answer # None /\ seen.answer[2] # None => seen.answer[1] = seen.answer[2]

\* The frame loop never waits for a request nobody will serve: it is done, or a
\* thread holds it, or it is queued where a thread or the closing drain takes it.
NoStrandedCall ==
    call.pc = "wait" /\ ~slot[call.at].done =>
        \/ \E t \in Threads : thread[t].pc \in {"got", "fetch"} /\ thread[t].at = call.at
        \/ /\ call.at \in ToSet(queue)
           /\ (\E t \in Threads : thread[t].pc \in {"idle", "got", "fetch"}) \/ ~pool.drained

\* Once closed, every thread blocked on the queue has a wake-up in it, so the
\* process keeps no thread of a finished render.
ThreadsLeave ==
    pool.drained => Cardinality({t \in Threads : thread[t].pc = "idle"}) <= Len(queue)

\* A render that asks in the planned order never fetches for itself while the
\* pool is open.
InOrderNeverMisses == IsPrefix(asks.all, Plan) /\ seen.missed => pool.closed
============================================================================
