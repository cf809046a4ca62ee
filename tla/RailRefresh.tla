---------------------------- MODULE RailRefresh ----------------------------
(***************************************************************************)
(* Installing published rail data while a worker routes with it.           *)
(*                                                                         *)
(*   scripts/fetch_rail_data.py    refresh, run by hand or as a job        *)
(*   src/jobs/rail_data_jobs.py    the monthly job that starts it          *)
(*                                                                         *)
(* A key stands for a (region, layer).  A release is its tag, a number; it *)
(* lists a key as ok with a digest, as empty, or not at all.  A region     *)
(* that is not rebuilt keeps its digest from one release to the next.      *)
(***************************************************************************)
EXTENDS Naturals, FiniteSets, Sequences

CONSTANTS
    Keys,       \* (region, layer) pairs
    Runs,       \* processes that run the script
    MaxTag,     \* bound: releases published
    MaxSchema,  \* bound: versions of the code's store schema
    None

VARIABLES
    release,   \* tag -> key -> the entry it publishes
    schema,    \* SCHEMA_VERSION of the deployed code
    store,     \* key -> the installed store's [digest, schema], or None
    sidecar,   \* key -> what the sidecar says of it, or None
    manifest,  \* the installed manifest, or None
    lock,      \* the run holding .incoming/.lock, or None
    run,       \* the runs
    torn,      \* history: keys whose store was renamed and not recorded
    fresh,     \* history: what a complete refresh installed, until a store changes
    omits      \* history: key -> releases in a row, installed without it

vars == <<release, schema, store, sidecar, manifest, lock, run, torn, fresh, omits>>

Absent == [status |-> "absent", digest |-> 0]
Empty == [status |-> "empty", digest |-> 0]
Ok(d) == [status |-> "ok", digest |-> d]
NoEntries == [k \in {} |-> None]
Idle == [pc |-> "idle", tag |-> 0, schema |-> 0, todo |-> {}, key |-> None,
         failed |-> FALSE, carried |-> NoEntries]
-----------------------------------------------------------------------------
\* installed_build: store and sidecar both there, or None.
InstalledBuild(k) == IF store[k] = None THEN None ELSE sidecar[k]

UpToDateAnySchema(k, e, sc) == InstalledBuild(k) # None /\ InstalledBuild(k).digest = e.digest

UpToDate(k, e, sc) == InstalledBuild(k) = [digest |-> e.digest, schema |-> sc]

\* The entries of the installed manifest, by key.
Kept == IF manifest = None THEN NoEntries ELSE manifest.entries

CarryOmittedAlways(t) ==
    [k \in {k \in DOMAIN Kept : /\ release[t][k] = Absent /\ Kept[k].status = "ok"
                                /\ InstalledBuild(k) # None} |->
        [Kept[k] EXCEPT !.omittedBy = t]]

\* load_coverage: the regions a worker's router will open a store for.
Coverage == {k \in DOMAIN Kept : Kept[k].status = "ok"}

\* _carry_omitted: an installed entry the release omits stays for one release.
CarryOmitted(t) ==
    LET again(k) == Kept[k].omittedBy = t
        stays(k) == /\ release[t][k] = Absent
                    /\ Kept[k].omittedBy # 0 => again(k)
                    /\ Kept[k].status = "ok" /\ InstalledBuild(k) # None
    IN  [k \in {k \in DOMAIN Kept : stays(k)} |-> [Kept[k] EXCEPT !.omittedBy = t]]

Entry(e) == [status |-> e.status, digest |-> e.digest, omittedBy |-> 0]

InstalledManifestListsAll(t, sc, complete, carried) ==
    LET pub == {k \in Keys : release[t][k] # Absent}
    IN  [generated |-> t,
         entries |-> [k \in DOMAIN carried \cup pub |->
                        IF k \in pub THEN Entry(release[t][k]) ELSE carried[k]]]

\* _installed_manifest: what the directory holds once the run is over.
InstalledManifest(t, sc, complete, carried) ==
    LET pub == {k \in Keys : release[t][k] # Absent}
        asReleased == {k \in pub : release[t][k] = Empty \/ UpToDate(k, release[t][k], sc)}
        asBefore == (pub \ asReleased) \cap DOMAIN Kept
    IN  [generated |-> IF complete \/ manifest = None THEN t ELSE manifest.generated,
         entries |-> [k \in DOMAIN carried \cup asReleased \cup asBefore |->
                        CASE k \in asReleased -> Entry(release[t][k])
                          [] k \in asBefore -> [Kept[k] EXCEPT !.omittedBy = 0]
                          [] OTHER -> carried[k]]]
-----------------------------------------------------------------------------
Init ==
    /\ release = <<[k \in Keys |-> Ok(1)]>>
    /\ schema = 1
    /\ store = [k \in Keys |-> None]
    /\ sidecar = [k \in Keys |-> None]
    /\ manifest = None
    /\ lock = None
    /\ run = [r \in Runs |-> Idle]
    /\ torn = {}
    /\ fresh = None
    /\ omits = [k \in Keys |-> {}]

\* CI publishes a release (outside this script): a region is rebuilt, kept as
\* it was, found to hold nothing, or left out.
Publish ==
    LET n == Len(release)
    IN  /\ n < MaxTag
        /\ \E e \in [Keys -> {Empty, Absent} \cup {Ok(d) : d \in 1..(n + 1)}] :
             /\ \A k \in Keys : e[k] \in {Ok(n + 1), Empty, Absent, release[n][k]}
             /\ release' = Append(release, e)
        /\ UNCHANGED <<schema, store, sidecar, manifest, lock, run, torn, fresh, omits>>

\* A deploy whose builder writes a newer kind of store.
Deploy ==
    /\ schema < MaxSchema
    /\ schema' = schema + 1
    /\ UNCHANGED <<release, store, sidecar, manifest, lock, run, torn, fresh, omits>>

TakeLockAlways(r) == TRUE

\* _take_lock: LOCK_EX | LOCK_NB.
TakeLock(r) == lock = None

\* _staging and the head of refresh: a second run exits; else the newest
\* release, or the one --tag names, and what it omits.  (A release that cannot
\* be read ends the run with nothing changed.)
Start(r) ==
    /\ run[r] = Idle /\ TakeLock(r)
    /\ \E t \in {Len(release), Len(release) - 1} \ {0} :
         run' = [run EXCEPT ![r] = [pc |-> "loop", tag |-> t, schema |-> schema,
                    todo |-> {k \in Keys : release[t][k].status = "ok"}, key |-> None,
                    failed |-> FALSE, carried |-> CarryOmitted(t)]]
    /\ lock' = r
    /\ UNCHANGED <<release, schema, store, sidecar, manifest, torn, fresh, omits>>

\* One region of the loop: up to date, refused (no asset, a download that does
\* not match, a build that fails), or its new store renamed into place.
Region(r, k) ==
    LET e == release[run[r].tag][k]
        next == [run[r] EXCEPT !.todo = @ \ {k}]
    IN  /\ run[r].pc = "loop" /\ k \in run[r].todo
        /\ \/ /\ UpToDate(k, e, run[r].schema)
              /\ run' = [run EXCEPT ![r] = next]
              /\ UNCHANGED <<store, torn, fresh>>
           \/ /\ ~UpToDate(k, e, run[r].schema)
              /\ \/ /\ run' = [run EXCEPT ![r] = [next EXCEPT !.failed = TRUE]]
                    /\ UNCHANGED <<store, torn, fresh>>
                 \/ /\ store' = [store EXCEPT ![k] = [digest |-> e.digest, schema |-> run[r].schema]]
                    /\ run' = [run EXCEPT ![r] = [next EXCEPT !.pc = "record", !.key = k]]
                    /\ torn' = torn \cup {k}
                    /\ fresh' = None
        /\ UNCHANGED <<release, schema, sidecar, manifest, lock, omits>>

\* _record_build: after the rename.  A full disk makes it a refused region.
Record(r) ==
    LET k == run[r].key
    IN  /\ run[r].pc = "record"
        /\ \/ /\ sidecar' = [sidecar EXCEPT ![k] =
                                [digest |-> release[run[r].tag][k].digest, schema |-> run[r].schema]]
              /\ torn' = torn \ {k}
              /\ run' = [run EXCEPT ![r].pc = "loop", ![r].key = None]
           \/ /\ run' = [run EXCEPT ![r].pc = "loop", ![r].key = None, ![r].failed = TRUE]
              /\ UNCHANGED <<sidecar, torn>>
        /\ UNCHANGED <<release, schema, store, manifest, lock, fresh, omits>>

\* _write_manifest, the end of the run.
Finish(r) ==
    LET t == run[r].tag
    IN  /\ run[r].pc = "loop" /\ run[r].todo = {}
        /\ manifest' = InstalledManifest(t, run[r].schema, ~run[r].failed, run[r].carried)
        /\ fresh' = IF run[r].failed THEN None ELSE [tag |-> t, schema |-> run[r].schema]
        /\ omits' = [k \in Keys |-> IF release[t][k] = Absent THEN omits[k] \cup {t} ELSE {}]
        /\ run' = [run EXCEPT ![r] = Idle]
        /\ lock' = None
        /\ UNCHANGED <<release, schema, store, sidecar, torn>>

\* The run is killed, at its time limit or for its memory, or the manifest
\* cannot be written: the kernel frees the lock, the next run its staging.
Kill(r) ==
    /\ run[r] # Idle
    /\ run' = [run EXCEPT ![r] = Idle]
    /\ lock' = IF lock = r THEN None ELSE lock
    /\ UNCHANGED <<release, schema, store, sidecar, manifest, torn, fresh, omits>>

Next ==
    \/ Publish \/ Deploy
    \/ \E r \in Runs :
         Start(r) \/ Record(r) \/ Finish(r) \/ Kill(r) \/ \E k \in Keys : Region(r, k)

Spec == Init /\ [][Next]_vars
-----------------------------------------------------------------------------
Builds == [digest : 1..MaxTag, schema : 1..MaxSchema] \cup {None}

\* Types, and the lock is held exactly by the run that is under way.
TypeOK ==
    /\ \A t \in DOMAIN release : release[t] \in
         [Keys -> {Absent, Empty} \cup {Ok(d) : d \in 1..MaxTag}]
    /\ schema \in 1..MaxSchema
    /\ store \in [Keys -> Builds] /\ sidecar \in [Keys -> Builds]
    /\ lock \in Runs \cup {None}
    /\ \A r \in Runs : (run[r] # Idle) = (lock = r)
    /\ torn \subseteq Keys

\* A refresh that refused nothing leaves every store the release publishes at
\* the release's checksum, in the kind the code reads, whatever was killed,
\* rolled back or deployed before; except a store whose rename was never
\* recorded (the skip trusts the sidecar).
FreshAfterComplete ==
    fresh # None => \A k \in Keys \ torn :
        release[fresh.tag][k].status = "ok"
            => store[k] = [digest |-> release[fresh.tag][k].digest, schema |-> fresh.schema]

\* The manifest, which the router reads as coverage, never lists a region as
\* there whose store is not, however many runs were refused or killed.
ListedHasStore == \A k \in Coverage : store[k] # None

\* A region is carried through one release that leaves it out and retired by
\* the next, whatever re-runs and kills come between.
CarriedOnce ==
    \A k \in DOMAIN Kept : Cardinality(omits[k]) <= 1
=============================================================================
