----------------------------- MODULE RenderJobs -----------------------------
(***************************************************************************)
(* The life of a render job: trip videos and their previews                *)
(* (api/video.py, src/video/job_runner.py) and posters (api/poster.py,     *)
(* src/poster/poster_job_runner.py), against everything that can end one:  *)
(* the render itself, the killed-work-horse handler and the start sweep of *)
(* the worker (src/jobs/worker.py), and the API's hourly and start sweeps. *)
(*                                                                         *)
(* A statement on a job row is one step; so is a file deletion, and so is  *)
(* an email.  Time is what the code compares: whether a preview left its   *)
(* in-flight quarter of an hour, whether a row is past its pending limit   *)
(* and whether a render is past its running limit.                         *)
(***************************************************************************)
EXTENDS Naturals, FiniteSets

CONSTANTS
    Jobs,          \* job rows that can be created
    Clients,       \* POST requests that run at the same time
    Kinds,         \* the kinds of job asked for
    VideoLimit,    \* max_videos_per_month
    PreviewLimit,  \* PREVIEWS_PER_HOUR
    MaxCrashes,    \* bound on processes that die
    Mixed,         \* FALSE bounds a behaviour to jobs of one kind
    NoJob

ASSUME RenderConstants ==
    /\ Kinds \subseteq {"video", "preview", "poster"}
    /\ VideoLimit \in Nat /\ PreviewLimit \in Nat /\ MaxCrashes \in Nat /\ Mixed \in BOOLEAN
    /\ NoJob \notin Jobs

VARIABLES
    job,      \* [Jobs -> the row]
    geo,      \* jobs whose geometry.json is on disk
    file,     \* jobs whose result file is on disk
    mails,    \* [Jobs -> how many ready and failed emails were sent]
    queued,   \* jobs whose entry waits in Redis
    post,     \* [Clients -> the request's step]
    horse,    \* [Workers -> the render in progress]
    marker,   \* [Sweepers -> the ending of jobs in progress]
    up,       \* workers whose process runs
    crashes

vars == <<job, geo, file, mails, queued, post, horse, marker, up, crashes>>
disk == <<geo, file>>

\* One consumer per queue, and the API's own thread for a poster without broker.
Workers == {"video", "default", "poster", "api"}
Sweepers == Workers \cup {"hourly"}

QueueOf(kind) == IF kind = "preview" THEN "default" ELSE kind

NON_TERMINAL == {"pending", "running"}
Statuses == NON_TERMINAL \cup {"none", "done", "failed", "expired", "deleted"}

Row == [kind: Kinds \cup {"none"}, status: Statuses, started: BOOLEAN,
        late: BOOLEAN, age: 0..2, overrun: BOOLEAN]
NoRow == [kind |-> "none", status |-> "none", started |-> FALSE, late |-> FALSE,
          age |-> 0, overrun |-> FALSE]

IdlePost == [pc |-> "idle", kind |-> "none", job |-> NoJob]
IdleHorse == [pc |-> "idle", job |-> NoJob]
IdleMarker == [pc |-> "idle", job |-> NoJob, todo |-> {}]

IsPoster(j) == job[j].kind = "poster"

\* The mutant forgets when the row ended.
EndedInTime(old, status) == [old EXCEPT !.status = status]

\* A row that ends records whether its in-flight time was over.
Ended(old, status) == [old EXCEPT !.status = status, !.late = old.age > 0]

SetStatus(j, status) == job' = [job EXCEPT ![j] = Ended(@, status)]

\* _cas: the row moves only from one of the given states.
CanMove(j, from) == job[j].status \in from

SendMail(j, what) == mails' = [mails EXCEPT ![j][what] = @ + 1]

DeleteFiles(j) == geo' = geo \ {j} /\ file' = file \ {j}

-----------------------------------------------------------------------------
(* POST /video, /video/preview and /poster.                                *)

\* videos_this_month: every video but a failed one.
VideosUsed == {j \in Jobs: job[j].kind = "video" /\ job[j].status \notin {"none", "failed"}}

\* _counting_preview
Counting(j) ==
    /\ job[j].kind = "preview" /\ job[j].age < 2
    /\ \/ job[j].status = "done"
       \/ job[j].status = "failed" /\ job[j].started /\ ~job[j].late
       \/ job[j].status \in NON_TERMINAL /\ job[j].age = 0

\* previews_in_last_hour
PreviewsUsed == {j \in Jobs: Counting(j)}

Allowed(kind) ==
    CASE kind = "video" -> Cardinality(VideosUsed) < VideoLimit
      [] kind = "preview" -> Cardinality(PreviewsUsed) < PreviewLimit
      [] OTHER -> TRUE

\* A worker listens, and the early quota check passes; a poster asks neither.
Check(c, kind) ==
    /\ post[c].pc = "idle"
    /\ kind = "poster" \/ QueueOf(kind) \in up
    /\ Allowed(kind)
    /\ Mixed \/ \A k \in {job[j].kind: j \in Jobs} \cup {post[d].kind: d \in Clients}:
                   k \in {kind, "none"}
    /\ post' = [post EXCEPT ![c] = [IdlePost EXCEPT !.pc = "create", !.kind = kind]]
    /\ UNCHANGED <<job, geo, file, mails, queued, horse, marker, up, crashes>>

\* The mutant trusts the early check.
CreateUnchecked(c) ==
    /\ post[c].pc = "create"
    /\ LET kind == post[c].kind IN
       \E j \in Jobs:
         /\ job[j].status = "none"
         /\ job' = [job EXCEPT ![j] = [NoRow EXCEPT !.kind = kind, !.status = "pending"]]
         /\ post' = [post EXCEPT ![c].pc = "geometry", ![c].job = j]
    /\ UNCHANGED <<geo, file, mails, queued, horse, marker, up, crashes>>

\* Under lock_account: the quota again, then the row.
Create(c) ==
    /\ post[c].pc = "create"
    /\ LET kind == post[c].kind IN
       IF Allowed(kind)
       THEN \E j \in Jobs:
              /\ job[j].status = "none"
              /\ job' = [job EXCEPT ![j] = [NoRow EXCEPT !.kind = kind, !.status = "pending"]]
              /\ post' = [post EXCEPT ![c].pc = IF kind = "poster" THEN "enqueue" ELSE "geometry",
                                      ![c].job = j]
       ELSE post' = [post EXCEPT ![c] = IdlePost] /\ UNCHANGED job
    /\ UNCHANGED <<geo, file, mails, queued, horse, marker, up, crashes>>

\* The consent geometry of an encrypted trip; another trip sends none.
WriteGeometry(c) ==
    /\ post[c].pc = "geometry"
    /\ geo' \in {geo, geo \cup {post[c].job}}
    /\ post' = [post EXCEPT ![c].pc = "enqueue"]
    /\ UNCHANGED <<job, file, mails, queued, horse, marker, up, crashes>>

Enqueue(c) ==
    /\ post[c].pc = "enqueue"
    /\ queued' = queued \cup {post[c].job}
    /\ post' = [post EXCEPT ![c] = IdlePost]
    /\ UNCHANGED <<job, geo, file, mails, horse, marker, up, crashes>>

\* No broker: a poster is rendered in the API process after the response, any
\* other job is failed by fail_unqueued_video_job.
EnqueueFails(c) ==
    /\ post[c].pc = "enqueue"
    /\ LET j == post[c].job IN
       IF IsPoster(j)
       THEN /\ horse["api"].pc = "idle"
            /\ horse' = [horse EXCEPT !["api"] = [pc |-> "start", job |-> j]]
            /\ UNCHANGED <<job, geo>>
       ELSE /\ IF CanMove(j, {"pending"}) THEN SetStatus(j, "failed") ELSE UNCHANGED job
            /\ geo' = geo \ {j}
            /\ UNCHANGED horse
    /\ post' = [post EXCEPT ![c] = IdlePost]
    /\ UNCHANGED <<file, mails, queued, marker, up, crashes>>

Request(c) ==
    \/ \E kind \in Kinds: Check(c, kind)
    \/ Create(c) \/ WriteGeometry(c) \/ Enqueue(c) \/ EnqueueFails(c)

-----------------------------------------------------------------------------
(* The work-horse: run_video_job, run_video_preview_job, run_poster_job.   *)

Goto(w, pc) == horse' = [horse EXCEPT ![w].pc = pc]
Leave(w) == horse' = [horse EXCEPT ![w] = IdleHorse]

Take(w) ==
    /\ w \in up /\ horse[w].pc = "idle" /\ marker[w].pc = "idle"
    /\ \E j \in queued:
         /\ QueueOf(job[j].kind) = w
         /\ queued' = queued \ {j}
         /\ horse' = [horse EXCEPT ![w] = [pc |-> "start", job |-> j]]
    /\ UNCHANGED <<job, disk, mails>>

\* A video starts only from pending; otherwise it leaves nothing on disk but a
\* finished result.  A poster's row is set running whatever it says.
Start(w) ==
    /\ horse[w].pc = "start"
    /\ LET j == horse[w].job IN
       \/ /\ IsPoster(j) \/ CanMove(j, {"pending"})
          /\ job' = [job EXCEPT ![j].status = "running", ![j].started = TRUE]
          /\ Goto(w, "render")
          /\ UNCHANGED disk
       \/ /\ ~IsPoster(j) /\ ~CanMove(j, {"pending"})
          /\ geo' = geo \ {j}
          /\ file' = IF CanMove(j, {"done"}) THEN file ELSE file \ {j}
          /\ Leave(w)
          /\ UNCHANGED job
    /\ UNCHANGED <<queued, mails>>

RenderOk(w) ==
    /\ horse[w].pc = "render"
    /\ file' = file \cup {horse[w].job}
    /\ Goto(w, "finish")
    /\ UNCHANGED <<job, geo, queued, mails>>

\* Any exception; what was written of the file is deleted first for a video.
RenderRaises(w) ==
    /\ horse[w].pc = "render"
    /\ IF IsPoster(horse[w].job) THEN UNCHANGED disk ELSE DeleteFiles(horse[w].job)
    /\ Goto(w, "fail")
    /\ UNCHANGED <<job, queued, mails>>

\* The mutant writes done without looking at the row.
FinishUnguarded(w) ==
    /\ horse[w].pc = "finish"
    /\ SetStatus(horse[w].job, "done") /\ Goto(w, "ready")
    /\ UNCHANGED <<disk, queued, mails>>

\* done, unless a sweep failed the row meanwhile: then the render is discarded.
Finish(w) ==
    /\ horse[w].pc = "finish"
    /\ LET j == horse[w].job IN
       IF IsPoster(j) \/ CanMove(j, {"running"})
       THEN /\ SetStatus(j, "done")
            /\ Goto(w, IF job[j].kind = "preview" THEN "end" ELSE "ready")
            /\ UNCHANGED disk
       ELSE DeleteFiles(j) /\ Goto(w, "end") /\ UNCHANGED job
    /\ UNCHANGED <<queued, mails>>

Fail(w) ==
    /\ horse[w].pc = "fail"
    /\ LET j == horse[w].job
           moves == IsPoster(j) \/ CanMove(j, {"running"}) IN
       /\ IF moves THEN SetStatus(j, "failed") ELSE UNCHANGED job
       /\ Goto(w, IF moves /\ job[j].kind # "preview" THEN "sorry" ELSE "end")
    /\ UNCHANGED <<disk, queued, mails>>

\* _notify_ready and _notify_failed, best effort.
Notify(w) ==
    /\ horse[w].pc \in {"ready", "sorry"}
    /\ \/ SendMail(horse[w].job, IF horse[w].pc = "ready" THEN "ready" ELSE "failed")
       \/ UNCHANGED mails
    /\ Goto(w, "end")
    /\ UNCHANGED <<job, disk, queued>>

\* The finally clause: the geometry goes on every path.
Finally(w) ==
    /\ horse[w].pc = "end"
    /\ geo' = geo \ {horse[w].job}
    /\ Leave(w)
    /\ UNCHANGED <<job, file, queued, mails>>

Run(w) ==
    /\ \/ Take(w) \/ Start(w) \/ RenderOk(w) \/ RenderRaises(w)
       \/ Finish(w) \/ Fail(w) \/ Notify(w) \/ Finally(w)
    /\ UNCHANGED <<post, marker, up, crashes>>

-----------------------------------------------------------------------------
(* Ending jobs from outside: mark_video_job_interrupted and the poster's   *)
(* mark_job_interrupted, called by the handler and by the sweeps.          *)

\* The mutant leaves the last job in the marker.
MarksKeepJob(s, todo) ==
    marker' = [marker EXCEPT ![s].pc = IF todo = {} THEN "idle" ELSE "mark", ![s].todo = todo]

Marks(s, todo) ==
    marker' = [marker EXCEPT ![s] = IF todo = {} THEN IdleMarker
                                    ELSE [pc |-> "mark", job |-> NoJob, todo |-> todo]]

\* The mutant fails the row whatever its state.
MovesAny(j) == job[j].status # "deleted"

Moves(j) == CanMove(j, NON_TERMINAL)

Mark(s) ==
    /\ marker[s].pc = "mark"
    /\ \E j \in marker[s].todo:
         IF Moves(j)
         THEN /\ SetStatus(j, "failed")
              /\ marker' = [marker EXCEPT ![s].pc = IF IsPoster(j) THEN "mail" ELSE "delete",
                                          ![s].job = j, ![s].todo = @ \ {j}]
         ELSE Marks(s, marker[s].todo \ {j}) /\ UNCHANGED job
    /\ UNCHANGED <<disk, mails>>

MarkDelete(s) ==
    /\ marker[s].pc = "delete"
    /\ DeleteFiles(marker[s].job)
    /\ IF job[marker[s].job].kind = "video"
       THEN marker' = [marker EXCEPT ![s].pc = "mail"]
       ELSE Marks(s, marker[s].todo)
    /\ UNCHANGED <<job, mails>>

MarkMail(s) ==
    /\ marker[s].pc = "mail"
    /\ SendMail(marker[s].job, "failed") \/ UNCHANGED mails
    /\ Marks(s, marker[s].todo)
    /\ UNCHANGED <<job, disk>>

\* The mutant looks at running rows only.
StaleRunning(j) == ~IsPoster(j) /\ job[j].status = "running" /\ job[j].overrun

\* sweep_video_jobs reads the stale rows before it acts on any.
Stale(j) ==
    /\ ~IsPoster(j)
    /\ \/ job[j].status = "running" /\ job[j].overrun
       \/ job[j].status = "pending" /\ job[j].age = 2

HourlyRead ==
    /\ marker["hourly"].pc = "idle"
    /\ \E j \in Jobs: Stale(j)
    /\ Marks("hourly", {j \in Jobs: Stale(j)})
    /\ UNCHANGED <<job, disk, mails>>

\* A finished video or preview past its retention: the row first, then the file.
Expire ==
    /\ marker["hourly"].pc = "idle"
    /\ \E j \in Jobs:
         /\ ~IsPoster(j) /\ CanMove(j, {"done"})
         /\ job' = [job EXCEPT ![j].status = "expired"]
         /\ marker' = [marker EXCEPT !["hourly"] = [IdleMarker EXCEPT !.pc = "erase", !.job = j]]
    /\ UNCHANGED <<disk, mails>>

\* sweep_poster_jobs: the files first, then the row if it is still terminal.
\* Thirty days on, no entry of the job waits and no render of it runs.
ErasePoster ==
    /\ marker["hourly"].pc = "idle"
    /\ \E j \in Jobs:
         /\ IsPoster(j) /\ CanMove(j, {"done", "failed"})
         /\ j \notin queued /\ \A w \in Workers: horse[w].job # j
         /\ file' = file \ {j}
         /\ marker' = [marker EXCEPT !["hourly"] = [IdleMarker EXCEPT !.pc = "row", !.job = j]]
    /\ UNCHANGED <<job, geo, mails>>

Erase ==
    /\ marker["hourly"].pc \in {"erase", "row"}
    /\ LET j == marker["hourly"].job IN
       IF marker["hourly"].pc = "erase" THEN DeleteFiles(j) /\ UNCHANGED job
       ELSE /\ job' = IF CanMove(j, {"done", "failed"})
                      THEN [job EXCEPT ![j].status = "deleted"] ELSE job
            /\ UNCHANGED disk
    /\ marker' = [marker EXCEPT !["hourly"] = IdleMarker]
    /\ UNCHANGED mails

\* The mutant takes only those whose row is gone.
StrayGeometryOfNone ==
    /\ marker["hourly"].pc = "idle"
    /\ \E j \in geo: CanMove(j, {"none", "deleted"}) /\ geo' = geo \ {j}
    /\ UNCHANGED <<job, file, mails, marker>>

\* A geometry.json whose job is terminal or gone.
StrayGeometry ==
    /\ marker["hourly"].pc = "idle"
    /\ \E j \in geo: ~CanMove(j, NON_TERMINAL) /\ geo' = geo \ {j}
    /\ UNCHANGED <<job, file, mails, marker>>

Hourly == HourlyRead \/ Expire \/ ErasePoster \/ Erase \/ StrayGeometry

Ending(s) == Mark(s) \/ MarkDelete(s) \/ MarkMail(s)

Sweep ==
    /\ Hourly \/ \E s \in Sweepers: Ending(s)
    /\ UNCHANGED <<queued, post, horse, up, crashes>>

-----------------------------------------------------------------------------
(* Processes that die.                                                     *)

\* The work-horse is killed; its parent calls the handler.
HorseKilled(w) ==
    /\ w \in up \ {"api"} /\ horse[w].pc # "idle" /\ crashes < MaxCrashes
    /\ crashes' = crashes + 1
    /\ Leave(w)
    /\ Marks(w, {horse[w].job})
    /\ UNCHANGED <<job, disk, mails, queued, post, up>>

\* The worker's container dies with what it holds.
WorkerDies(w) ==
    /\ w \in up \ {"api"} /\ crashes < MaxCrashes
    /\ crashes' = crashes + 1
    /\ Leave(w) /\ Marks(w, {})
    /\ up' = up \ {w}
    /\ UNCHANGED <<job, disk, mails, queued, post>>

\* The video worker fails what its predecessor left running, then takes jobs.
WorkerStarts(w) ==
    /\ w \notin up
    /\ up' = up \cup {w}
    /\ Marks(w, IF w = "video"
                THEN {j \in Jobs: job[j].kind = "video" /\ job[j].status = "running"} ELSE {})
    /\ UNCHANGED <<job, disk, mails, queued, post, horse, crashes>>

\* The API dies with its requests, its sweep and its in-process render, and
\* starts again with sweep_orphaned_poster_jobs.
ApiRestarts ==
    /\ crashes < MaxCrashes
    /\ crashes' = crashes + 1
    /\ post' = [c \in Clients |-> IdlePost]
    /\ horse' = [horse EXCEPT !["api"] = IdleHorse]
    /\ marker' = [marker EXCEPT
         !["hourly"] = IdleMarker,
         !["api"] = LET todo == {j \in Jobs: IsPoster(j) /\ CanMove(j, NON_TERMINAL)} IN
                    IF todo = {} THEN IdleMarker
                    ELSE [pc |-> "mark", job |-> NoJob, todo |-> todo]]
    /\ UNCHANGED <<job, disk, mails, queued, up>>

\* Redis forgets its queues.
LoseQueue ==
    /\ queued # {} /\ crashes < MaxCrashes
    /\ crashes' = crashes + 1 /\ queued' = {}
    /\ UNCHANGED <<job, disk, mails, post, horse, marker, up>>

Faults ==
    \/ \E w \in Workers: HorseKilled(w) \/ WorkerDies(w) \/ WorkerStarts(w)
    \/ ApiRestarts \/ LoseQueue

-----------------------------------------------------------------------------

\* Time, as far as a row's age is still looked at.
Grows(j) ==
    /\ ~IsPoster(j)
    /\ \/ /\ job[j].status = "pending" \/ job[j].kind = "preview"
          /\ job[j].age < 2 /\ job' = [job EXCEPT ![j].age = @ + 1]
       \/ /\ job[j].status = "running" /\ ~job[j].overrun
          /\ job' = [job EXCEPT ![j].overrun = TRUE]
    /\ UNCHANGED <<disk, mails, queued, post, horse, marker, up, crashes>>

Tick == \E j \in Jobs: Grows(j)

Init ==
    /\ job = [j \in Jobs |-> NoRow] /\ geo = {} /\ file = {}
    /\ mails = [j \in Jobs |-> [ready |-> 0, failed |-> 0]]
    /\ queued = {} /\ post = [c \in Clients |-> IdlePost]
    /\ horse = [w \in Workers |-> IdleHorse]
    /\ marker = [s \in Sweepers |-> IdleMarker]
    /\ up = Workers /\ crashes = 0

Next ==
    \/ \E c \in Clients: Request(c)
    \/ \E w \in Workers: Run(w)
    \/ Sweep \/ Faults \/ Tick

\* The scheduler keeps firing the hourly sweep, and time passes.  Renders and
\* workers owe nothing: a render may hang and a worker may stay down.
Fairness ==
    /\ \A j \in Jobs: WF_vars(Grows(j))
    /\ WF_vars(Hourly /\ UNCHANGED <<queued, post, horse, up, crashes>>)
    /\ WF_vars(Ending("hourly") /\ UNCHANGED <<queued, post, horse, up, crashes>>)

Spec == Init /\ [][Next]_vars
LiveSpec == Spec /\ Fairness

-----------------------------------------------------------------------------
(* Properties.                                                             *)

\* Rows, requests, renders and sweeps keep their shapes.
TypeOK ==
    /\ job \in [Jobs -> Row] /\ geo \subseteq Jobs /\ file \subseteq Jobs
    /\ queued \subseteq Jobs /\ up \subseteq Workers /\ crashes \in 0..MaxCrashes
    /\ \A w \in Workers: horse[w].pc # "idle" => horse[w].job \in Jobs
    /\ \A s \in Sweepers: marker[s].pc \in {"idle", "mark"} <=> marker[s].job = NoJob
    /\ \A j \in Jobs: mails[j].ready \in Nat /\ mails[j].failed \in Nat

\* job_runner.py: a job failed by a sweep never later reports done, and a race
\* never sends a second email: one email per video, the one its row says, and
\* none for a preview.
OneOutcome ==
    \A j \in Jobs: ~IsPoster(j) =>
      /\ mails[j].ready + mails[j].failed <= (IF job[j].kind = "video" THEN 1 ELSE 0)
      /\ mails[j].ready = 1 => job[j].status \in {"done", "expired"}
      /\ mails[j].failed = 1 => job[j].status = "failed"

\* A finished video or preview has its file, whoever else was deleting files
\* of that job; and no poster file is left that no row points at.
FilesMatchRow ==
    \A j \in Jobs: /\ job[j].status = "done" /\ ~IsPoster(j) => j \in file
                   /\ job[j].status = "deleted" => j \notin file

\* The previews of the last quarter of an hour.
NewPreviews == {j \in PreviewsUsed: job[j].age = 0}

\* Two POSTs of one user never spend more than the plan has.
QuotaKept ==
    /\ Cardinality(VideosUsed) <= VideoLimit
    /\ Cardinality(NewPreviews) <= PreviewLimit

\* entitlements.py: a lost preview that stopped costing the user does not cost
\* again when a sweep fails it.
KeepsFree ==
    \A j \in Jobs: job[j].status \in NON_TERMINAL /\ ~Counting(j) /\ job'[j].status = "failed"
      => ~Counting(j)'
LostStaysFree == [][KeepsFree]_vars

\* A video or preview ends, whatever dies.
RenderSettles ==
    \A j \in Jobs: job[j].status \in NON_TERMINAL /\ ~IsPoster(j)
                     ~> job[j].status \notin NON_TERMINAL

\* job_runner.py: the plaintext geometry of an encrypted trip is deleted.
GeometryGoes == \A j \in Jobs: j \in geo ~> j \notin geo
=============================================================================
