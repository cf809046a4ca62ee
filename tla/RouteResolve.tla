---------------------------- MODULE RouteResolve ----------------------------
(***************************************************************************)
(* The life of one segment's route: requested, queued, resolved by a       *)
(* worker process, retried, edited by hand, recovered after a restart.     *)
(*                                                                         *)
(*   api/segments.py           resolve_segment_route, _resolve_route_job,  *)
(*                             edit_segment_track, update_segment,         *)
(*                             delete_segment, _mark_segment_failed        *)
(*   src/jobs/route_jobs.py    create_job, _set_status, sweep_orphaned_jobs*)
(*                             sweep_degraded_segments,                    *)
(*                             sweep_stale_resolver_segments,              *)
(*                             _requeue_resolve                            *)
(*   src/project/repo_items.py update_segment_fields                       *)
(*   src/jobs/queue.py         enqueue (RQ, with its retries)              *)
(*   src/jobs/worker.py        the worker, started with_scheduler=False    *)
(*                                                                         *)
(* update_segment_fields reads the row, checks its guards and merges in    *)
(* Python, and then writes the whole row back.  SQLite holds no lock       *)
(* between the SELECT and the UPDATE, so these are two steps.  Structural  *)
(* saves are one step: TripStore shows that their compare-and-swap detects *)
(* every write made since the load.                                        *)
(*                                                                         *)
(* A resolve attempt is named by its token, the route_started_at its       *)
(* trigger stamped; its DBRouteJob row and its queue entries carry it.     *)
(***************************************************************************)
EXTENDS Integers, TLC, FiniteSetTheorems, SequenceTheorems, TLAPS

CONSTANTS
    Tokens,             \* route_started_at values, with the job ids they name
    Requests,           \* threads of the API process
    Workers,            \* worker processes of the resolve queue
    Kinds,              \* bound: which requests and sweeps occur
    MaxAttempts,        \* MAX_ATTEMPTS
    MaxDegradeRetries,  \* MAX_DEGRADE_RETRIES
    MaxRqRetries,       \* len(_RETRY_INTERVALS)
    WithScheduler,      \* some RQ worker runs with a scheduler; worker.py: no
    MaxOps,             \* bound: user operations
    MaxQueue,           \* bound: entries in the queue
    NoToken             \* None

AllKinds == {"trigger", "force", "degraded", "stale", "edit", "move",
             "delete", "rename", "restart", "crash", "lose", "die"}

ASSUME ResolveAssumption ==
    /\ IsFiniteSet(Tokens)
    /\ Kinds \subseteq AllKinds
    /\ WithScheduler \in BOOLEAN
    /\ MaxAttempts \in Nat \ {0}
    /\ MaxDegradeRetries \in Nat
    /\ MaxRqRetries \in Nat
    /\ MaxOps \in Nat
    /\ NoToken \notin Tokens

VARIABLES
    present,  \* the segment's item row exists
    seg,      \* its segment_json, the route_* fields
    name,     \* the project's name, which job arguments carry
    jobs,     \* [Tokens -> DBRouteJob row]
    queue,    \* the RQ queue of entries [tok, left]
    parked,   \* RQ's scheduled registry: failed entries waiting out an interval
    rpc,      \* per request: where it is
    req,      \* per request: [kind, tok, data, retries, name]
    wpc,      \* per worker: idle, computing, writing, written
    wrk,      \* per worker: [tok, left, ends, data]
    consent,  \* history: the user agreed to discard the hand-drawn track
    ops       \* how many user operations there were

rq == <<queue, parked>>
reqVars == <<rpc, req>>
wrkVars == <<wpc, wrk>>
vars == <<present, seg, name, jobs, rq, reqVars, wrkVars, consent, ops>>

TokenOrNone == Tokens \union {NoToken}

(* ends: which endpoints the segment has, counted by the moves so far;     *)
(* drawn: the endpoints its stored polyline was drawn for.                 *)
Segment == [status : {"idle", "pending", "resolved", "failed"},
            tok : TokenOrNone, degraded : BOOLEAN, hafas : BOOLEAN,
            edited : BOOLEAN, retries : Nat, current : BOOLEAN,
            line : {"none", "auto", "hand"}, ends : Nat, drawn : Nat]

Job == [status : {"none", "pending", "running", "done", "failed"},
        attempts : Nat, name : Nat]
RequestState == [kind : {"none", "trigger", "force", "degraded", "stale", "edit",
                         "abandon"},
                 tok : TokenOrNone, data : Segment, retries : Nat, name : Nat]
WorkState == [tok : TokenOrNone, left : Nat, ends : Nat, data : Segment]
QueueEntry == [tok : Tokens, left : Nat]
Terminal == {"none", "done", "failed"}
Owed(t) == jobs[t].status \notin Terminal
-----------------------------------------------------------------------------
(* The field updates, each a merge into the row's JSON.                    *)

(* resolve_segment_route                                                   *)
Triggered(d, t) == [d EXCEPT !.status = "pending", !.degraded = FALSE,
                             !.hafas = FALSE, !.tok = t, !.retries = 0]
(* _requeue_resolve, with the degraded sweep's extra field or without      *)
Requeued(d, t, r) == [d EXCEPT !.status = "pending", !.tok = t, !.retries = r]
(* Mutant (issue #207): every resolved verdict restarts the budget.        *)
ResolvedRearms(d, degraded, hafas, ends) ==
    [d EXCEPT !.status = "resolved", !.tok = NoToken, !.degraded = degraded,
              !.hafas = hafas, !.edited = FALSE, !.current = TRUE,
              !.retries = 0, !.line = "auto", !.drawn = ends]

(* _resolve_route_job: a resolved verdict.  Only a real route restarts the *)
(* automatic-retry budget.                                                 *)
Resolved(d, degraded, hafas, ends) ==
    [d EXCEPT !.status = "resolved", !.tok = NoToken, !.degraded = degraded,
              !.hafas = hafas, !.edited = FALSE, !.current = TRUE,
              !.retries = IF degraded \/ hafas THEN @ ELSE 0,
              !.line = "auto", !.drawn = ends]

(* Mutants: the token, or the status, is left as it was.                   *)
NoRouteKeepsToken(d) == [d EXCEPT !.status = "failed", !.degraded = FALSE,
                                  !.hafas = FALSE]
NoRouteKeepsStatus(d) == [d EXCEPT !.tok = NoToken, !.degraded = FALSE,
                                   !.hafas = FALSE]
(* _resolve_route_job: no route exists.                                    *)
NoRoute(d) == [d EXCEPT !.status = "failed", !.tok = NoToken,
                        !.degraded = FALSE, !.hafas = FALSE]
(* _mark_segment_failed                                                    *)
Abandoned(d) == [d EXCEPT !.status = "failed", !.tok = NoToken,
                          !.degraded = FALSE]

(* Mutant: the edit leaves the provisional flag.                           *)
EditedKeepsDegraded(d) ==
    [d EXCEPT !.status = "resolved", !.tok = NoToken, !.hafas = FALSE,
              !.edited = TRUE, !.line = "hand", !.drawn = d.ends]
(* edit_segment_track                                                      *)
Edited(d) == [d EXCEPT !.status = "resolved", !.tok = NoToken,
                       !.degraded = FALSE, !.hafas = FALSE, !.edited = TRUE,
                       !.line = "hand", !.drawn = d.ends]
-----------------------------------------------------------------------------
(* Tokens are never given twice: one is free when nothing mentions it.     *)
Fresh(t) ==
    /\ ~Owed(t)
    /\ seg.tok # t
    /\ \A i \in DOMAIN queue : queue[i].tok # t
    /\ \A e \in parked : e.tok # t
    /\ \A r \in Requests : req[r].tok # t /\ req[r].data.tok # t
    /\ \A w \in Workers : wrk[w].tok # t /\ wrk[w].data.tok # t

NewSegment == [status |-> "idle", tok |-> NoToken, degraded |-> FALSE,
               hafas |-> FALSE, edited |-> FALSE, retries |-> 0,
               current |-> FALSE, line |-> "none", ends |-> 0, drawn |-> 0]
NoRequest == [kind |-> "none", tok |-> NoToken, data |-> NewSegment,
              retries |-> 0, name |-> 0]
NoWork == [tok |-> NoToken, left |-> 0, ends |-> 0, data |-> NewSegment]

Goto(r, step) == rpc' = [rpc EXCEPT ![r] = step]
Leave(r) == Goto(r, "idle") /\ req' = [req EXCEPT ![r] = NoRequest]

(* The application serves nothing before its startup sweep has finished.   *)
Serving == \A r \in Requests : req[r].kind # "abandon"
UserOp == Serving /\ ops < MaxOps /\ ops' = ops + 1

(* A thread picks up a request: what it was asked and what it has read.    *)
Begin(r, kind, t, retries) ==
    /\ rpc[r] = "idle"
    /\ Goto(r, "select")
    /\ req' = [req EXCEPT ![r] = [kind |-> kind, tok |-> t, data |-> seg,
                                  retries |-> retries, name |-> name]]
    /\ UNCHANGED <<present, seg, name, jobs, rq, wrkVars, consent>>

(* resolve_segment_route loads the project: 404 without the segment, 409   *)
(* for an edited one unless forced.                                        *)
Trigger(r) ==
    \E kind \in Kinds \intersect {"trigger", "force"}, t \in Tokens :
        /\ present
        /\ seg.edited => kind = "force"
        /\ Fresh(t)
        /\ UserOp
        /\ Begin(r, kind, t, 0)

(* edit_segment_track *)
EditTrack(r) ==
    /\ "edit" \in Kinds
    /\ present
    /\ UserOp
    /\ Begin(r, "edit", NoToken, 0)

(* Mutant: the budget is spent once more.                                  *)
DegradedCandidateOnceMore ==
    /\ present
    /\ seg.status = "resolved"
    /\ seg.degraded \/ seg.hafas
    /\ seg.retries <= MaxDegradeRetries

(* The candidates the two hourly sweeps read off the item rows.            *)
DegradedCandidate ==
    /\ present
    /\ seg.status = "resolved"
    /\ seg.degraded \/ seg.hafas
    /\ seg.retries < MaxDegradeRetries
StaleCandidate ==
    /\ present
    /\ seg.status = "resolved"
    /\ seg.line # "none"
    /\ ~seg.edited
    /\ ~(seg.degraded \/ seg.hafas)
    /\ ~seg.current

(* Mutant: the sweep counts down a budget that starts at zero.             *)
SweepDegradedRefunds(r) ==
    /\ "degraded" \in Kinds
    /\ DegradedCandidate
    /\ Serving
    /\ \E t \in Tokens : Fresh(t) /\ Begin(r, "degraded", t, seg.retries - 1)
    /\ UNCHANGED ops

SweepDegraded(r) ==
    /\ "degraded" \in Kinds
    /\ DegradedCandidate
    /\ Serving
    /\ \E t \in Tokens : Fresh(t) /\ Begin(r, "degraded", t, seg.retries + 1)
    /\ UNCHANGED ops

SweepStale(r) ==
    /\ "stale" \in Kinds
    /\ StaleCandidate
    /\ Serving
    /\ \E t \in Tokens : Fresh(t) /\ Begin(r, "stale", t, 0)
    /\ UNCHANGED ops

(* The expect_status and expect_started_at guards of each caller.          *)
Guard(r) ==
    CASE req[r].kind \in {"degraded", "stale"} -> seg.status = "resolved"
      [] req[r].kind = "abandon" -> /\ seg.status = "pending"
                                    /\ seg.tok = req[r].tok
      [] OTHER -> TRUE

(* update_segment_fields, the SELECT.  A trigger does not look at what it  *)
(* returns and goes on without the row; everyone else stops.               *)
SelectRow(r) ==
    /\ rpc[r] = "select"
    /\ \/ /\ present /\ Guard(r)
          /\ req' = [req EXCEPT ![r].data = seg]
          /\ Goto(r, "update")
       \/ /\ ~(present /\ Guard(r))
          /\ IF req[r].kind \in {"trigger", "force"}
             THEN Goto(r, "record") /\ UNCHANGED req
             ELSE Leave(r)
    /\ UNCHANGED <<present, seg, name, jobs, rq, wrkVars, consent, ops>>

(* What the caller's fields make of the row it selected.                   *)
Merged(r) ==
    LET d == req[r].data
    IN  CASE req[r].kind \in {"trigger", "force"} -> Triggered(d, req[r].tok)
          [] req[r].kind = "degraded" -> Requeued(d, req[r].tok, req[r].retries)
          [] req[r].kind = "stale" -> Requeued(d, req[r].tok, d.retries)
          [] req[r].kind = "edit" -> Edited(d)
          [] OTHER -> Abandoned(d)

(* The UPDATE and its commit; on a row deleted meanwhile it does nothing.  *)
(* A trigger and a sweep go on to record and queue the job.                *)
UpdateRow(r) ==
    /\ rpc[r] = "update"
    /\ seg' = IF present THEN Merged(r) ELSE seg
    /\ consent' = CASE req[r].kind = "edit" -> FALSE
                    [] req[r].kind = "force" -> TRUE
                    [] OTHER -> consent
    /\ IF req[r].kind \in {"edit", "abandon"} THEN Leave(r)
       ELSE Goto(r, "record") /\ req' = [req EXCEPT ![r].data = NewSegment]
    /\ UNCHANGED <<present, name, jobs, rq, wrkVars, ops>>

(* create_job: earlier attempts for the segment are superseded.            *)
CreateJob(r) ==
    /\ rpc[r] = "record"
    /\ jobs' = [t \in Tokens |->
                  IF t = req[r].tok
                  THEN [status |-> "pending", attempts |-> 0, name |-> req[r].name]
                  ELSE IF Owed(t) THEN [jobs[t] EXCEPT !.status = "failed"]
                  ELSE jobs[t]]
    /\ Goto(r, "enqueue")
    /\ UNCHANGED <<present, seg, name, rq, req, wrkVars, consent, ops>>

(* enqueue; a broker error turns it into a run in this process, which is   *)
(* a worker like the others that dies when the process does.               *)
Entry(t) == [tok |-> t, left |-> MaxRqRetries]
Enqueue(r) ==
    /\ rpc[r] = "enqueue"
    /\ Len(queue) < MaxQueue
    /\ queue' = Append(queue, Entry(req[r].tok))
    /\ Leave(r)
    /\ UNCHANGED <<present, seg, name, jobs, parked, wrkVars, consent, ops>>
-----------------------------------------------------------------------------
(* update_segment with other coordinates, or back to the great circle: a   *)
(* structural save that drops the stored line and nothing else.            *)
MoveSegment ==
    /\ "move" \in Kinds
    /\ present
    /\ UserOp
    /\ \E moved \in {0, 1} :
          seg' = [seg EXCEPT !.line = "none", !.ends = @ + moved]
    /\ consent' = TRUE
    /\ UNCHANGED <<present, name, jobs, rq, reqVars, wrkVars>>

(* delete_segment, or the deletion of the whole trip.                      *)
DeleteSegment ==
    /\ "delete" \in Kinds
    /\ present
    /\ UserOp
    /\ present' = FALSE
    /\ UNCHANGED <<seg, name, jobs, rq, reqVars, wrkVars, consent>>

RenameProject ==
    /\ "rename" \in Kinds
    /\ UserOp
    /\ name' = name + 1
    /\ UNCHANGED <<present, seg, jobs, rq, reqVars, wrkVars, consent>>
-----------------------------------------------------------------------------
Step(w, step) == wpc' = [wpc EXCEPT ![w] = step]
Drop(w) == Step(w, "idle") /\ wrk' = [wrk EXCEPT ![w] = NoWork]
SetStatus(t, status) == jobs' = [jobs EXCEPT ![t].status = status]

(* RQ hands the job to a worker: mark_running and the load.  A project not *)
(* found under the name, or a segment that is gone, ends the job.          *)
Take(w) ==
    /\ wpc[w] = "idle"
    /\ queue # <<>>
    /\ queue' = Tail(queue)
    /\ LET entry == Head(queue)
           found == present /\ jobs[entry.tok].name = name
       IN  \/ /\ found
              /\ SetStatus(entry.tok, "running")
              /\ Step(w, "computing")
              /\ wrk' = [wrk EXCEPT ![w] = [tok |-> entry.tok, left |-> entry.left,
                                            ends |-> seg.ends, data |-> NewSegment]]
           \/ /\ ~found
              /\ SetStatus(entry.tok, "done")
              /\ UNCHANGED wrkVars
    /\ UNCHANGED <<present, seg, name, parked, reqVars, consent, ops>>

(* The geometry is computed, and the row is selected under the token guard.*)
Judge(w) ==
    /\ wpc[w] = "computing"
    /\ \/ /\ present /\ seg.tok = wrk[w].tok
          /\ wrk' = [wrk EXCEPT ![w].data = seg]
          /\ Step(w, "writing")
       \/ /\ ~(present /\ seg.tok = wrk[w].tok)
          /\ Step(w, "written")
          /\ UNCHANGED wrk
    /\ UNCHANGED <<present, seg, name, jobs, rq, reqVars, consent, ops>>

(* A route, degraded or not, with the train's stops or without; or none.   *)
Verdicts(w) ==
    {Resolved(wrk[w].data, degraded, hafas, wrk[w].ends) :
        degraded \in BOOLEAN, hafas \in BOOLEAN}
      \union {NoRoute(wrk[w].data)}

WriteVerdict(w) ==
    /\ wpc[w] = "writing"
    /\ \/ present /\ seg' \in Verdicts(w)
       \/ ~present /\ UNCHANGED seg
    /\ Step(w, "written")
    /\ wrk' = [wrk EXCEPT ![w].data = NewSegment]
    /\ UNCHANGED <<present, name, jobs, rq, reqVars, consent, ops>>

(* mark_done: the job ran to completion, whether or not its verdict counts.*)
MarkDone(w) ==
    /\ wpc[w] = "written"
    /\ SetStatus(wrk[w].tok, "done")
    /\ Drop(w)
    /\ UNCHANGED <<present, seg, name, rq, reqVars, consent, ops>>

(* The job raises or its process is killed.  RQ parks the entry until its  *)
(* retry interval is over, while it has retries and the worker survives.   *)
Die(w) ==
    /\ "die" \in Kinds
    /\ wpc[w] # "idle"
    /\ \/ /\ wrk[w].left > 0
          /\ parked' = parked \union {[tok |-> wrk[w].tok, left |-> wrk[w].left - 1]}
       \/ UNCHANGED parked
    /\ Drop(w)
    /\ UNCHANGED <<present, seg, name, jobs, queue, reqVars, consent, ops>>

(* RQ's scheduler returns a parked entry to the queue.                     *)
Unpark ==
    /\ WithScheduler
    /\ Len(queue) < MaxQueue
    /\ \E e \in parked : queue' = Append(queue, e) /\ parked' = parked \ {e}
    /\ UNCHANGED <<present, seg, name, jobs, reqVars, wrkVars, consent, ops>>

(* A broker restart without appendonly loses what Redis held.              *)
LoseQueue ==
    /\ "lose" \in Kinds
    /\ queue # <<>> \/ parked # {}
    /\ queue' = <<>>
    /\ parked' = {}
    /\ UNCHANGED <<present, seg, name, jobs, reqVars, wrkVars, consent, ops>>

Orders(S) == {f \in [1..Cardinality(S) -> S] :
                \A i, j \in DOMAIN f : f[i] = f[j] => i = j}
GivesUp(t) == Owed(t) /\ jobs[t].attempts + 1 >= MaxAttempts

(* Mutant: the job is abandoned and its segment forgotten.                 *)
AbandonsQuietly(t) == FALSE
(* The give-up whose segment still waits for it: _fail_segment_for finds   *)
(* the project by the job's name.                                          *)
Abandons(t) == GivesUp(t) /\ seg.tok = t /\ jobs[t].name = name

(* Mutant: attempts are not counted.                                       *)
SweptUncounted(t) ==
    IF GivesUp(t) THEN [jobs[t] EXCEPT !.status = "failed"] ELSE jobs[t]
(* A job row after the startup sweep.                                      *)
Swept(t) ==
    IF GivesUp(t) THEN [jobs[t] EXCEPT !.status = "failed"]
    ELSE IF Owed(t) THEN [jobs[t] EXCEPT !.attempts = @ + 1]
    ELSE jobs[t]

(* The API process restarts, between requests or in the middle of them;    *)
(* the workers are processes of their own and keep running.                *)
(* sweep_orphaned_jobs re-queues every owed job or, its attempts spent,    *)
(* abandons it and fails its segment.                                      *)
Restart ==
    /\ "restart" \in Kinds
    /\ "crash" \in Kinds \/ \A r \in Requests : rpc[r] = "idle"
    /\ \E again \in Orders({t \in Tokens : Owed(t) /\ ~GivesUp(t)}) :
          /\ Len(queue) + Len(again) <= MaxQueue
          /\ queue' = queue \o [i \in DOMAIN again |-> Entry(again[i])]
    /\ jobs' = [t \in Tokens |-> Swept(t)]
    /\ \/ \E t \in Tokens, r \in Requests :
            /\ Abandons(t)
            /\ rpc' = [q \in Requests |-> IF q = r THEN "select" ELSE "idle"]
            /\ req' = [q \in Requests |->
                         IF q = r THEN [NoRequest EXCEPT !.kind = "abandon", !.tok = t]
                         ELSE NoRequest]
       \/ /\ ~\E t \in Tokens : Abandons(t)
          /\ rpc' = [q \in Requests |-> "idle"]
          /\ req' = [q \in Requests |-> NoRequest]
    /\ UNCHANGED <<present, seg, name, parked, wrkVars, consent, ops>>
-----------------------------------------------------------------------------
(* A segment as create_segment stores it, or one that an older generation  *)
(* of the resolver drew.                                                   *)
Init ==
    /\ present = TRUE
    /\ seg \in {NewSegment,
                [NewSegment EXCEPT !.status = "resolved", !.line = "auto"]}
    /\ name = 0
    /\ jobs = [t \in Tokens |-> [status |-> "none", attempts |-> 0, name |-> 0]]
    /\ queue = <<>>
    /\ parked = {}
    /\ rpc = [r \in Requests |-> "idle"]
    /\ req = [r \in Requests |-> NoRequest]
    /\ wpc = [w \in Workers |-> "idle"]
    /\ wrk = [w \in Workers |-> NoWork]
    /\ consent = FALSE
    /\ ops = 0

Sweep(r) == SweepDegraded(r) \/ SweepStale(r)
Serve(r) == SelectRow(r) \/ UpdateRow(r) \/ CreateJob(r) \/ Enqueue(r)
Resolve(w) == Take(w) \/ Judge(w) \/ WriteVerdict(w) \/ MarkDone(w)

Next ==
    \/ \E r \in Requests : Trigger(r) \/ EditTrack(r) \/ Sweep(r) \/ Serve(r)
    \/ \E w \in Workers : Resolve(w) \/ Die(w)
    \/ MoveSegment \/ DeleteSegment \/ RenameProject
    \/ Unpark \/ LoseQueue \/ Restart

Spec == Init /\ [][Next]_vars

(* Threads and workers run, the scheduler fires every hour, and the API is *)
(* restarted again and again: the recovery is made at startup only.        *)
Fairness ==
    /\ \A r \in Requests : WF_vars(Serve(r)) /\ SF_vars(Sweep(r))
    /\ \A w \in Workers : WF_vars(Resolve(w))
    /\ WF_vars(Unpark)
    /\ SF_vars(Restart)
FairSpec == Spec /\ Fairness
-----------------------------------------------------------------------------
TypeOK ==
    /\ present \in BOOLEAN
    /\ seg \in Segment
    /\ name \in Nat
    /\ jobs \in [Tokens -> Job]
    /\ queue \in Seq(QueueEntry)
    /\ parked \subseteq QueueEntry
    /\ rpc \in [Requests -> {"idle", "select", "update", "record", "enqueue"}]
    /\ req \in [Requests -> RequestState]
    /\ wpc \in [Workers -> {"idle", "computing", "writing", "written"}]
    /\ wrk \in [Workers -> WorkState]
    /\ consent \in BOOLEAN
    /\ ops \in 0..MaxOps

(* MAX_DEGRADE_RETRIES is never exceeded, whatever sweeps, triggers and    *)
(* verdicts run at once, although the sweep computes the new count from a  *)
(* row it read in another session.                                         *)
RetryBudget == seg.retries <= MaxDegradeRetries

(* A segment is pending exactly while it carries the token of the attempt  *)
(* that owns it: a pending segment without a token could be settled by     *)
(* nobody, and a token left behind would let a late job overwrite a        *)
(* verdict or an edit.                                                     *)
StatusTokenAgree == seg.status = "pending" <=> seg.tok # NoToken

(* A hand-drawn track is never a candidate of sweep_degraded_segments,     *)
(* which does not look at route_edited: the flags it reads are never set   *)
(* together with it, in whatever order edits and verdicts are merged.      *)
EditedNotProvisional == seg.edited => ~(seg.degraded \/ seg.hafas)

(* What makes the three inductive: they hold of every copy of the row that *)
(* a request or a worker has selected and will write back, and whoever is  *)
(* about to stamp or report an attempt has a token to do it with.          *)
Attempt == {"trigger", "force", "degraded", "stale"}
Sound(d) ==
    /\ d.retries <= MaxDegradeRetries
    /\ d.status = "pending" <=> d.tok # NoToken
    /\ d.edited => ~(d.degraded \/ d.hafas)
CopiesSound ==
    /\ Sound(seg)
    /\ \A r \in Requests : Sound(req[r].data)
    /\ \A w \in Workers : Sound(wrk[w].data)
AttemptsNamed ==
    /\ \A r \in Requests :
         /\ req[r].kind \in Attempt => /\ req[r].tok \in Tokens
                                       /\ req[r].retries <= MaxDegradeRetries
         /\ rpc[r] # "idle" => req[r].kind # "none"
         /\ rpc[r] \in {"record", "enqueue"} => req[r].kind \in Attempt
    /\ \A w \in Workers : wpc[w] # "idle" => wrk[w].tok \in Tokens
IInv == TypeOK /\ CopiesSound /\ AttemptsNamed

(* The spinner ends: a pending segment is eventually resolved or failed,   *)
(* or deleted, or taken over by an edit.                                   *)
PendingSettles == (present /\ seg.status = "pending")
                    ~> (~present \/ seg.status # "pending")

(* Every job row that owes work reaches a terminal status, although        *)
(* processes die, the broker forgets and RQ does not retry.                *)
JobSettles == \A t \in Tokens : Owed(t) ~> ~Owed(t)

(* The hourly sweeps come to rest: a segment that keeps coming back        *)
(* degraded is not resolved again every hour for ever (issue #207).        *)
AutoRetryEnds == <>[]~(DegradedCandidate \/ StaleCandidate)

(* Not a property of the code, although _requeue_resolve says that an edit *)
(* racing the sweep owns the outcome: the sweep's guard compares a status  *)
(* that the edit leaves as it was.                                         *)
HandEditKept == [][seg.line = "hand" /\ seg'.line = "auto" => consent]_vars

(* Not an invariant: a resolve of the old endpoints that ends after they   *)
(* were moved stores its line, for the move changes neither status nor     *)
(* token.                                                                  *)
LineMatchesEnds == seg.line # "none" => seg.drawn = seg.ends

(* For TLC: tokens, request threads and worker processes are               *)
(* interchangeable.                                                        *)
ResolveSymmetry ==
    Permutations(Tokens) \union Permutations(Requests) \union Permutations(Workers)
-----------------------------------------------------------------------------
(***************************************************************************)
(* Proofs: the safety invariants of a segment's route for any number of    *)
(* request threads and workers, any bounds and any mix of operations and   *)
(* failures.                                                               *)
(*                                                                         *)
(* update_segment_fields writes back a copy it selected earlier, so an     *)
(* invariant of the row alone is not inductive: it has to hold of every    *)
(* copy in flight.  IInv says that, and that attempts carry tokens.        *)
(***************************************************************************)
(* Every merge of update_segment_fields keeps a sound row sound, whatever  *)
(* copy it is made on.                                                     *)
LEMMA MergesSound ==
    ASSUME NEW d \in Segment, Sound(d)
    PROVE  /\ \A t \in Tokens : Triggered(d, t) \in Segment /\ Sound(Triggered(d, t))
           /\ \A t \in Tokens, n \in Nat : n <= MaxDegradeRetries =>
                 Requeued(d, t, n) \in Segment /\ Sound(Requeued(d, t, n))
           /\ \A g, h \in BOOLEAN, e \in Nat :
                 Resolved(d, g, h, e) \in Segment /\ Sound(Resolved(d, g, h, e))
           /\ NoRoute(d) \in Segment /\ Sound(NoRoute(d))
           /\ Abandoned(d) \in Segment /\ Sound(Abandoned(d))
           /\ Edited(d) \in Segment /\ Sound(Edited(d))
<1> MaxDegradeRetries \in Nat /\ NoToken \notin Tokens  BY ResolveAssumption
<1> 0 <= MaxDegradeRetries  OBVIOUS
<1>1. ASSUME NEW t \in Tokens
      PROVE  Triggered(d, t) \in Segment /\ Sound(Triggered(d, t))
  BY <1>1 DEF Triggered, Segment, Sound, TokenOrNone
<1>2. ASSUME NEW t \in Tokens, NEW n \in Nat, n <= MaxDegradeRetries
      PROVE  Requeued(d, t, n) \in Segment /\ Sound(Requeued(d, t, n))
  BY <1>2 DEF Requeued, Segment, Sound, TokenOrNone
<1>3. ASSUME NEW g \in BOOLEAN, NEW h \in BOOLEAN, NEW e \in Nat
      PROVE  Resolved(d, g, h, e) \in Segment /\ Sound(Resolved(d, g, h, e))
  BY <1>3 DEF Resolved, Segment, Sound, TokenOrNone
<1>4. NoRoute(d) \in Segment /\ Sound(NoRoute(d))
  BY DEF NoRoute, Segment, Sound, TokenOrNone
<1>5. Abandoned(d) \in Segment /\ Sound(Abandoned(d))
  BY DEF Abandoned, Segment, Sound, TokenOrNone
<1>6. Edited(d) \in Segment /\ Sound(Edited(d))
  BY DEF Edited, Segment, Sound, TokenOrNone
<1> QED BY <1>1, <1>2, <1>3, <1>4, <1>5, <1>6

(* A segment that create_segment stored is sound.                          *)
LEMMA NewSegmentSound == NewSegment \in Segment /\ Sound(NewSegment)
BY ResolveAssumption DEF NewSegment, Segment, Sound, TokenOrNone

(* The records of an idle thread and an idle worker.                       *)
LEMMA IdleSound ==
    /\ NoRequest \in RequestState /\ Sound(NoRequest.data)
    /\ NoRequest.kind \notin Attempt
    /\ NoWork \in WorkState /\ Sound(NoWork.data)
BY NewSegmentSound
   DEF NoRequest, NoWork, RequestState, WorkState, TokenOrNone, Attempt

LEMMA InitIInv == Init => IInv
<1> SUFFICES ASSUME Init PROVE IInv OBVIOUS
<1> USE NewSegmentSound, IdleSound DEF Init
<1> MaxOps \in Nat  BY ResolveAssumption
<1>1. seg \in Segment /\ Sound(seg)
  BY DEF NewSegment, Segment, Sound, TokenOrNone
<1>2. TypeOK
  <2>1. jobs \in [Tokens -> Job]  BY DEF Job
  <2>2. queue \in Seq(QueueEntry) /\ parked \subseteq QueueEntry  OBVIOUS
  <2>3. name \in Nat /\ ops \in 0..MaxOps  OBVIOUS
  <2>4. /\ rpc \in [Requests -> {"idle", "select", "update", "record", "enqueue"}]
        /\ wpc \in [Workers -> {"idle", "computing", "writing", "written"}]
    OBVIOUS
  <2>5. req \in [Requests -> RequestState] /\ wrk \in [Workers -> WorkState]
    OBVIOUS
  <2> QED BY <1>1, <2>1, <2>2, <2>3, <2>4, <2>5 DEF TypeOK
<1>3. CopiesSound
  BY <1>1 DEF CopiesSound
<1>4. AttemptsNamed
  BY DEF AttemptsNamed
<1> QED BY <1>2, <1>3, <1>4 DEF IInv
-----------------------------------------------------------------------------
(* A thread that begins a request takes a sound copy and, for an attempt,  *)
(* a token and a count within the budget.                                  *)
LEMMA BeginIInv ==
    ASSUME IInv, NEW r \in Requests, NEW kind \in Attempt \union {"edit"},
           NEW t \in TokenOrNone, NEW n \in Nat,
           kind \in Attempt => t \in Tokens /\ n <= MaxDegradeRetries,
           Begin(r, kind, t, n), ops' \in 0..MaxOps
    PROVE  IInv'
<1> USE DEF IInv, Begin, Goto, rq, wrkVars
<1>1. req' = [req EXCEPT ![r] = [kind |-> kind, tok |-> t, data |-> seg,
                                 retries |-> n, name |-> name]]
  OBVIOUS
<1>2. req' \in [Requests -> RequestState]
  BY <1>1 DEF TypeOK, RequestState, Attempt
<1>3. TypeOK'
  BY <1>2 DEF TypeOK
<1>4. CopiesSound'
  BY <1>1 DEF TypeOK, CopiesSound, Sound
<1>5. AttemptsNamed'
  BY <1>1 DEF TypeOK, AttemptsNamed, Attempt
<1> QED BY <1>3, <1>4, <1>5

(* The row is selected: the copy is the row, or the thread gives up.       *)
LEMMA SelectRowIInv ==
    ASSUME IInv, NEW r \in Requests, SelectRow(r) PROVE IInv'
<1> USE IdleSound DEF IInv, SelectRow, Leave, Goto, rq, wrkVars
<1>1. CASE req' = [req EXCEPT ![r].data = seg] /\ Goto(r, "update")
  <2>1. req' \in [Requests -> RequestState]
    BY <1>1 DEF TypeOK, RequestState
  <2>2. TypeOK'
    BY <1>1, <2>1 DEF TypeOK
  <2>3. CopiesSound'
    BY <1>1 DEF TypeOK, CopiesSound, Sound, RequestState
  <2>4. AttemptsNamed'
    BY <1>1 DEF TypeOK, AttemptsNamed, RequestState
  <2> QED BY <2>2, <2>3, <2>4
<1>2. CASE req[r].kind \in {"trigger", "force"} /\ Goto(r, "record") /\ UNCHANGED req
  BY <1>2 DEF TypeOK, CopiesSound, Sound, AttemptsNamed, Attempt
<1>3. CASE Leave(r)
  BY <1>3 DEF TypeOK, CopiesSound, Sound, AttemptsNamed
<1> QED BY <1>1, <1>2, <1>3

(* The copy is merged and written back.                                    *)
LEMMA UpdateRowIInv ==
    ASSUME IInv, NEW r \in Requests, UpdateRow(r) PROVE IInv'
<1> USE IdleSound DEF IInv, Leave, Goto, rq, wrkVars
<1> DEFINE d == req[r].data
<1>1. d \in Segment /\ Sound(d) /\ req[r].retries \in Nat /\ req[r].tok \in TokenOrNone
  BY DEF TypeOK, RequestState, CopiesSound
<1>2. req[r].kind \in Attempt =>
         req[r].tok \in Tokens /\ req[r].retries <= MaxDegradeRetries
  BY DEF AttemptsNamed
<1>3. d.retries \in Nat /\ d.retries <= MaxDegradeRetries
  BY <1>1 DEF Segment, Sound
<1>4. Merged(r) \in Segment /\ Sound(Merged(r))
  <2> USE <1>1, MergesSound
  <2>1. CASE req[r].kind \in {"trigger", "force"}
    BY <2>1, <1>2 DEF Merged, Attempt
  <2>2. CASE req[r].kind = "degraded"
    BY <2>2, <1>2 DEF Merged, Attempt
  <2>3. CASE req[r].kind = "stale"
    BY <2>3, <1>2, <1>3 DEF Merged, Attempt
  <2>4. CASE req[r].kind = "edit"
    BY <2>4 DEF Merged
  <2>5. CASE req[r].kind \notin {"trigger", "force", "degraded", "stale", "edit"}
    BY <2>5 DEF Merged
  <2> QED BY <2>1, <2>2, <2>3, <2>4, <2>5
<1>5. seg' \in Segment /\ Sound(seg')
  BY <1>4 DEF UpdateRow, TypeOK, CopiesSound
<1>6. consent' \in BOOLEAN
  BY DEF UpdateRow, TypeOK
<1>7. rpc[r] = "update" /\ UNCHANGED <<present, name, jobs, queue, parked, wpc, wrk, ops>>
  BY DEF UpdateRow
<1>8. CASE rpc' = [rpc EXCEPT ![r] = "idle"] /\ req' = [req EXCEPT ![r] = NoRequest]
  <2>1. TypeOK'
    BY <1>5, <1>6, <1>7, <1>8 DEF TypeOK
  <2>2. CopiesSound'
    BY <1>5, <1>7, <1>8 DEF TypeOK, CopiesSound
  <2>3. AttemptsNamed'
    BY <1>7, <1>8 DEF TypeOK, AttemptsNamed
  <2> QED BY <2>1, <2>2, <2>3
<1>9. CASE /\ rpc' = [rpc EXCEPT ![r] = "record"]
           /\ req' = [req EXCEPT ![r].data = NewSegment]
           /\ req[r].kind \notin {"edit", "abandon"}
  <2>1. req' \in [Requests -> RequestState]
    BY <1>9, NewSegmentSound DEF TypeOK, RequestState
  <2>2. TypeOK'
    BY <1>5, <1>6, <1>7, <1>9, <2>1 DEF TypeOK
  <2>3. CopiesSound'
    <3>1. \A q \in Requests : Sound(req'[q].data)
      BY <1>9, NewSegmentSound DEF TypeOK, CopiesSound, RequestState
    <3> QED BY <1>5, <1>7, <3>1 DEF CopiesSound
  <2>4. req[r].kind \in Attempt
    BY <1>7, <1>9 DEF TypeOK, RequestState, AttemptsNamed, Attempt
  <2>5. \A q \in Requests : /\ req'[q].kind = req[q].kind
                            /\ req'[q].tok = req[q].tok
                            /\ req'[q].retries = req[q].retries
    BY <1>9 DEF TypeOK, RequestState
  <2>6. AttemptsNamed'
    BY <1>7, <1>9, <2>4, <2>5 DEF TypeOK, AttemptsNamed, Attempt
  <2> QED BY <2>2, <2>3, <2>6
<1> QED BY <1>8, <1>9 DEF UpdateRow

(* A job row that is failed, or counts one more attempt, is a job row.     *)
LEMMA JobUpdates ==
    ASSUME NEW j \in Job
    PROVE  /\ [j EXCEPT !.status = "failed"] \in Job
           /\ [j EXCEPT !.attempts = @ + 1] \in Job
<1>1. [j EXCEPT !.status = "failed"] \in Job  BY DEF Job
<1>2. [j EXCEPT !.attempts = @ + 1] \in Job  BY DEF Job
<1> QED BY <1>1, <1>2

(* The job row is created and queued; a waiting job keeps its token.       *)
LEMMA CreateJobIInv ==
    ASSUME IInv, NEW r \in Requests, CreateJob(r) PROVE IInv'
<1> USE DEF IInv, CreateJob, Goto, rq, wrkVars
<1>1. jobs' \in [Tokens -> Job]
  <2>1. [status |-> "pending", attempts |-> 0, name |-> req[r].name] \in Job
    <3>1. req[r].name \in Nat  BY DEF TypeOK, RequestState
    <3> QED BY <3>1 DEF Job
  <2>2. \A t \in Tokens : jobs[t] \in Job /\ [jobs[t] EXCEPT !.status = "failed"] \in Job
    BY JobUpdates DEF TypeOK
  <2>3. jobs' = [t \in Tokens |->
                   IF t = req[r].tok
                   THEN [status |-> "pending", attempts |-> 0, name |-> req[r].name]
                   ELSE IF Owed(t) THEN [jobs[t] EXCEPT !.status = "failed"]
                   ELSE jobs[t]]
    OBVIOUS
  <2> HIDE DEF IInv, CreateJob, Goto, rq, wrkVars
  <2> QED BY <2>1, <2>2, <2>3
<1>2. TypeOK'
  BY <1>1 DEF TypeOK
<1>3. CopiesSound'
  BY DEF CopiesSound, Sound
<1>4. AttemptsNamed'
  BY DEF TypeOK, AttemptsNamed
<1> QED BY <1>2, <1>3, <1>4

LEMMA EnqueueIInv ==
    ASSUME IInv, NEW r \in Requests, Enqueue(r) PROVE IInv'
<1> USE IdleSound DEF IInv, Enqueue, Goto, Leave, wrkVars
<1>1. Entry(req[r].tok) \in QueueEntry
  BY ResolveAssumption DEF AttemptsNamed, Entry, QueueEntry
<1>2. queue' \in Seq(QueueEntry)
  BY <1>1 DEF TypeOK
<1>3. TypeOK'
  BY <1>2 DEF TypeOK
<1>4. CopiesSound'
  BY DEF TypeOK, CopiesSound, Sound
<1>5. AttemptsNamed'
  BY DEF TypeOK, AttemptsNamed
<1> QED BY <1>3, <1>4, <1>5

(* A structural save of the segment touches neither status nor flags.      *)
LEMMA MoveSegmentIInv ==
    ASSUME IInv, MoveSegment PROVE IInv'
<1> USE DEF IInv, MoveSegment, UserOp, rq, reqVars, wrkVars
<1>1. PICK moved \in {0, 1} : seg' = [seg EXCEPT !.line = "none", !.ends = @ + moved]
  OBVIOUS
<1>2. seg' \in Segment
  <2>1. seg.ends + moved \in Nat  BY DEF TypeOK, Segment
  <2> QED BY <1>1, <2>1 DEF TypeOK, Segment
<1>3. Sound(seg')
  BY <1>1 DEF TypeOK, Segment, CopiesSound, Sound
<1>4. ops' \in 0..MaxOps
  BY ResolveAssumption DEF TypeOK
<1>5. TypeOK'
  BY <1>2, <1>4 DEF TypeOK
<1>6. CopiesSound'
  BY <1>3 DEF CopiesSound
<1>7. AttemptsNamed'
  BY DEF AttemptsNamed
<1> QED BY <1>5, <1>6, <1>7
-----------------------------------------------------------------------------
(* A worker takes an entry: its token is the entry's.                      *)
LEMMA TakeIInv ==
    ASSUME IInv, NEW w \in Workers, Take(w) PROVE IInv'
<1> USE DEF IInv, reqVars
<1> DEFINE entry == Head(queue)
<1>1. entry \in QueueEntry /\ Tail(queue) \in Seq(QueueEntry)
  BY HeadTailProperties DEF Take, TypeOK
<1>2. entry.tok \in Tokens /\ entry.left \in Nat
  BY <1>1 DEF QueueEntry
<1>3. jobs' \in [Tokens -> Job]
  <2>1. PICK status \in {"running", "done"} :
           jobs' = [jobs EXCEPT ![entry.tok].status = status]
    BY DEF Take, SetStatus
  <2> QED BY <1>2, <2>1 DEF TypeOK, Job
<1>4. CASE /\ wpc' = [wpc EXCEPT ![w] = "computing"]
           /\ wrk' = [wrk EXCEPT ![w] = [tok |-> entry.tok, left |-> entry.left,
                                         ends |-> seg.ends, data |-> NewSegment]]
  <2>1. wrk' \in [Workers -> WorkState]
    BY <1>2, <1>4, NewSegmentSound DEF TypeOK, WorkState, Segment, TokenOrNone
  <2>2. TypeOK'
    BY <1>1, <1>3, <1>4, <2>1 DEF Take, TypeOK
  <2>3. CopiesSound'
    BY <1>4, NewSegmentSound DEF Take, TypeOK, CopiesSound
  <2>4. AttemptsNamed'
    BY <1>2, <1>4 DEF Take, TypeOK, AttemptsNamed
  <2> QED BY <2>2, <2>3, <2>4
<1>5. CASE UNCHANGED wrkVars
  BY <1>1, <1>3, <1>5
     DEF Take, TypeOK, CopiesSound, AttemptsNamed, wrkVars
<1> QED BY <1>4, <1>5 DEF Take, Step

LEMMA JudgeIInv ==
    ASSUME IInv, NEW w \in Workers, Judge(w) PROVE IInv'
<1> USE DEF IInv, Judge, Step, rq, reqVars
<1>1. CASE wrk' = [wrk EXCEPT ![w].data = seg] /\ Step(w, "writing")
  <2>1. wrk' \in [Workers -> WorkState]
    BY <1>1 DEF TypeOK, WorkState
  <2>2. TypeOK'
    BY <1>1, <2>1 DEF TypeOK
  <2>3. CopiesSound'
    BY <1>1 DEF TypeOK, CopiesSound, WorkState
  <2>4. AttemptsNamed'
    BY <1>1 DEF TypeOK, AttemptsNamed, WorkState
  <2> QED BY <2>2, <2>3, <2>4
<1>2. CASE Step(w, "written") /\ UNCHANGED wrk
  BY <1>2 DEF TypeOK, CopiesSound, AttemptsNamed
<1> QED BY <1>1, <1>2

(* Every verdict is a merge into the copy the worker selected.             *)
LEMMA WriteVerdictIInv ==
    ASSUME IInv, NEW w \in Workers, WriteVerdict(w) PROVE IInv'
<1> USE DEF IInv, WriteVerdict, Step, rq, reqVars
<1>1. wrk[w].data \in Segment /\ Sound(wrk[w].data) /\ wrk[w].ends \in Nat
  BY DEF TypeOK, WorkState, CopiesSound
<1>2. \A v \in Verdicts(w) : v \in Segment /\ Sound(v)
  BY <1>1, MergesSound DEF Verdicts
<1>3. seg' \in Segment /\ Sound(seg')
  BY <1>2 DEF TypeOK, CopiesSound
<1>4. wrk' \in [Workers -> WorkState]
  BY NewSegmentSound DEF TypeOK, WorkState
<1>5. TypeOK'
  BY <1>3, <1>4 DEF TypeOK
<1>6. CopiesSound'
  BY <1>3, NewSegmentSound DEF TypeOK, CopiesSound, WorkState
<1>7. AttemptsNamed'
  BY DEF TypeOK, AttemptsNamed, WorkState
<1> QED BY <1>5, <1>6, <1>7

LEMMA MarkDoneIInv ==
    ASSUME IInv, NEW w \in Workers, MarkDone(w) PROVE IInv'
<1> USE IdleSound DEF IInv, MarkDone, Drop, Step, rq, reqVars
<1>1. jobs' \in [Tokens -> Job]
  BY DEF TypeOK, SetStatus, Job
<1>2. TypeOK'
  BY <1>1 DEF TypeOK
<1>3. CopiesSound'
  BY DEF TypeOK, CopiesSound
<1>4. AttemptsNamed'
  BY DEF TypeOK, AttemptsNamed
<1> QED BY <1>2, <1>3, <1>4

LEMMA DieIInv ==
    ASSUME IInv, NEW w \in Workers, Die(w) PROVE IInv'
<1> USE IdleSound DEF IInv, Die, Drop, Step, reqVars
<1>1. wrk[w].left > 0 => [tok |-> wrk[w].tok, left |-> wrk[w].left - 1] \in QueueEntry
  BY DEF TypeOK, AttemptsNamed, WorkState, QueueEntry
<1>2. parked' \subseteq QueueEntry
  BY <1>1 DEF TypeOK
<1>3. TypeOK'
  BY <1>2 DEF TypeOK
<1>4. CopiesSound'
  BY DEF TypeOK, CopiesSound
<1>5. AttemptsNamed'
  BY DEF TypeOK, AttemptsNamed
<1> QED BY <1>3, <1>4, <1>5

(* Startup: whatever the sweep re-queues is a token, and the thread that   *)
(* fails an abandoned segment starts from an empty record.                 *)
LEMMA RestartIInv ==
    ASSUME IInv, Restart PROVE IInv'
<1> USE DEF IInv
<1>1. jobs' \in [Tokens -> Job]
  <2>1. \A t \in Tokens : Swept(t) \in Job
    <3>1. \A t \in Tokens : jobs[t] \in Job  BY DEF TypeOK
    <3> QED BY <3>1, JobUpdates DEF Swept
  <2> QED BY <2>1 DEF Restart
<1>2. queue' \in Seq(QueueEntry)
  <2> DEFINE S == {t \in Tokens : Owed(t) /\ ~GivesUp(t)}
  <2>1. PICK again \in Orders(S) :
           queue' = queue \o [i \in DOMAIN again |-> Entry(again[i])]
    BY DEF Restart
  <2>2. Cardinality(S) \in Nat
    BY ResolveAssumption, FS_Subset, FS_CardinalityType
  <2>3. again \in [1..Cardinality(S) -> S]
    BY DEF Orders
  <2>4. [i \in DOMAIN again |-> Entry(again[i])] \in Seq(QueueEntry)
    <3>1. \A i \in 1..Cardinality(S) : Entry(again[i]) \in QueueEntry
      BY <2>3, ResolveAssumption DEF Entry, QueueEntry
    <3>2. DOMAIN again = 1..Cardinality(S)
      BY <2>3
    <3> QED BY <2>2, <3>1, <3>2
  <2> QED BY <2>1, <2>4 DEF TypeOK
<1>3. \A t \in Tokens : LET q == [NoRequest EXCEPT !.kind = "abandon", !.tok = t]
                        IN  q \in RequestState /\ Sound(q.data) /\ q.kind = "abandon"
  BY NewSegmentSound DEF NoRequest, RequestState, TokenOrNone
<1>4. CASE \E t \in Tokens, r \in Requests :
              /\ rpc' = [q \in Requests |-> IF q = r THEN "select" ELSE "idle"]
              /\ req' = [q \in Requests |->
                           IF q = r THEN [NoRequest EXCEPT !.kind = "abandon", !.tok = t]
                           ELSE NoRequest]
  <2>1. PICK t \in Tokens, r \in Requests :
              /\ rpc' = [q \in Requests |-> IF q = r THEN "select" ELSE "idle"]
              /\ req' = [q \in Requests |->
                           IF q = r THEN [NoRequest EXCEPT !.kind = "abandon", !.tok = t]
                           ELSE NoRequest]
    BY <1>4
  <2>2. /\ rpc' \in [Requests -> {"idle", "select", "update", "record", "enqueue"}]
        /\ req' \in [Requests -> RequestState]
    BY <1>3, <2>1, IdleSound
  <2>3. TypeOK'
    BY <1>1, <1>2, <2>2 DEF Restart, TypeOK, wrkVars
  <2>4. CopiesSound'
    BY <1>3, <2>1, IdleSound DEF Restart, CopiesSound, wrkVars
  <2>5. AttemptsNamed'
    BY <1>3, <2>1, IdleSound DEF Restart, AttemptsNamed, Attempt, wrkVars
  <2> QED BY <2>3, <2>4, <2>5
<1>5. CASE /\ rpc' = [q \in Requests |-> "idle"]
           /\ req' = [q \in Requests |-> NoRequest]
  <2>1. TypeOK'
    BY <1>1, <1>2, <1>5, IdleSound DEF Restart, TypeOK, wrkVars
  <2>2. CopiesSound'
    BY <1>5, IdleSound DEF Restart, CopiesSound, wrkVars
  <2>3. AttemptsNamed'
    BY <1>5, IdleSound DEF Restart, AttemptsNamed, wrkVars
  <2> QED BY <2>1, <2>2, <2>3
<1> QED BY <1>4, <1>5 DEF Restart

(* The retry registry returns an entry, or the broker forgets everything.  *)
LEMMA BrokerIInv ==
    ASSUME IInv, Unpark \/ LoseQueue PROVE IInv'
<1> USE DEF IInv, reqVars, wrkVars
<1>1. queue' \in Seq(QueueEntry) /\ parked' \subseteq QueueEntry
  <2>1. CASE Unpark
    BY <2>1 DEF Unpark, TypeOK
  <2>2. CASE LoseQueue
    BY <2>2 DEF LoseQueue
  <2> QED BY <2>1, <2>2
<1>2. UNCHANGED <<present, seg, name, jobs, rpc, req, wpc, wrk, consent, ops>>
  BY DEF Unpark, LoseQueue
<1> QED BY <1>1, <1>2 DEF TypeOK, CopiesSound, AttemptsNamed
-----------------------------------------------------------------------------
LEMMA NextIInv == IInv /\ [Next]_vars => IInv'
<1> SUFFICES ASSUME IInv, [Next]_vars PROVE IInv'  OBVIOUS
<1>a. MaxOps \in Nat /\ MaxDegradeRetries \in Nat
  BY ResolveAssumption
<1>b. UserOp => ops' \in 0..MaxOps
  BY <1>a DEF UserOp, IInv, TypeOK
<1>1. ASSUME NEW r \in Requests, Trigger(r) PROVE IInv'
  <2>1. PICK kind \in Kinds \intersect {"trigger", "force"}, t \in Tokens :
           UserOp /\ Begin(r, kind, t, 0)
    BY <1>1 DEF Trigger
  <2> QED BY <2>1, <1>a, <1>b, BeginIInv DEF Attempt, TokenOrNone
<1>2. ASSUME NEW r \in Requests, EditTrack(r) PROVE IInv'
  <2>1. UserOp /\ Begin(r, "edit", NoToken, 0)
    BY <1>2 DEF EditTrack
  <2> QED BY <2>1, <1>b, BeginIInv DEF Attempt, TokenOrNone
<1>3. ASSUME NEW r \in Requests, SweepDegraded(r) PROVE IInv'
  <2>1. PICK t \in Tokens : Begin(r, "degraded", t, seg.retries + 1)
    BY <1>3 DEF SweepDegraded
  <2>2. seg.retries + 1 \in Nat /\ seg.retries + 1 <= MaxDegradeRetries
    BY <1>3, <1>a DEF SweepDegraded, DegradedCandidate, IInv, TypeOK, Segment
  <2>3. ops' \in 0..MaxOps
    BY <1>3 DEF SweepDegraded, IInv, TypeOK
  <2> QED BY <2>1, <2>2, <2>3, BeginIInv DEF Attempt, TokenOrNone
<1>4. ASSUME NEW r \in Requests, SweepStale(r) PROVE IInv'
  <2>1. PICK t \in Tokens : Begin(r, "stale", t, 0)
    BY <1>4 DEF SweepStale
  <2>2. ops' \in 0..MaxOps
    BY <1>4 DEF SweepStale, IInv, TypeOK
  <2> QED BY <2>1, <2>2, <1>a, BeginIInv DEF Attempt, TokenOrNone
<1>5. ASSUME NEW r \in Requests, Serve(r) PROVE IInv'
  BY <1>5, SelectRowIInv, UpdateRowIInv, CreateJobIInv, EnqueueIInv DEF Serve
<1>6. ASSUME NEW w \in Workers, Resolve(w) \/ Die(w) PROVE IInv'
  BY <1>6, TakeIInv, JudgeIInv, WriteVerdictIInv, MarkDoneIInv, DieIInv DEF Resolve
<1>7. CASE DeleteSegment \/ RenameProject
  <2>1. name' \in Nat /\ present' \in BOOLEAN
    <3>1. CASE DeleteSegment
      BY <3>1 DEF DeleteSegment, IInv, TypeOK
    <3>2. CASE RenameProject
      BY <3>2 DEF RenameProject, IInv, TypeOK
    <3> QED BY <1>7, <3>1, <3>2
  <2>2. UNCHANGED <<seg, jobs, queue, parked, rpc, req, wpc, wrk, consent>> /\ UserOp
    BY <1>7 DEF DeleteSegment, RenameProject, rq, reqVars, wrkVars
  <2> QED BY <2>1, <2>2, <1>b DEF IInv, TypeOK, CopiesSound, AttemptsNamed
<1>8. CASE UNCHANGED vars
  BY <1>8 DEF IInv, TypeOK, CopiesSound, AttemptsNamed, vars, rq, reqVars, wrkVars
<1> QED
  BY <1>1, <1>2, <1>3, <1>4, <1>5, <1>6, <1>7, <1>8,
     MoveSegmentIInv, RestartIInv, BrokerIInv DEF Next, Sweep

(* The inductive invariant: every copy of the row in flight is sound.      *)
THEOREM ResolveInvariant == Spec => []IInv
<1>1. Init => IInv  BY InitIInv
<1>2. IInv /\ [Next]_vars => IInv'  BY NextIInv
<1> QED BY <1>1, <1>2, PTL DEF Spec

(* The state of the resolver always has its type.                          *)
THEOREM ResolveTypeCorrect == Spec => []TypeOK
<1>1. IInv => TypeOK  BY DEF IInv
<1> QED BY <1>1, ResolveInvariant, PTL

(* MAX_DEGRADE_RETRIES bounds the automatic retries of a segment.          *)
THEOREM ResolveRetryBudget == Spec => []RetryBudget
<1>1. IInv => RetryBudget  BY DEF IInv, CopiesSound, Sound, RetryBudget
<1> QED BY <1>1, ResolveInvariant, PTL

(* A segment is pending exactly while it carries an attempt's token.       *)
THEOREM ResolveStatusTokenAgree == Spec => []StatusTokenAgree
<1>1. IInv => StatusTokenAgree
  BY DEF IInv, CopiesSound, Sound, StatusTokenAgree
<1> QED BY <1>1, ResolveInvariant, PTL

(* A hand-drawn track is never a candidate of the degraded sweep.          *)
THEOREM ResolveEditedNotProvisional == Spec => []EditedNotProvisional
<1>1. IInv => EditedNotProvisional
  BY DEF IInv, CopiesSound, Sound, EditedNotProvisional
<1> QED BY <1>1, ResolveInvariant, PTL
=============================================================================
