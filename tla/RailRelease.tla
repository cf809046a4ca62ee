---------------------------- MODULE RailRelease -----------------------------
(***************************************************************************)
(* Publishing rail data: the monthly workflow, and a rebuild of a few      *)
(* regions into the release it repairs.                                    *)
(*                                                                         *)
(*   .github/workflows/rail-extract.yml   plan, build, publish             *)
(*   scripts/build_rail_extract.py        build, collect_manifest, main    *)
(*                                                                         *)
(* One run at a time (the workflow's concurrency group).  What a run built *)
(* of a region is named by the run's number.  Releases are named by their  *)
(* day.  Nobody reads a release here (the boxes do, in RailRefresh), so an *)
(* upload is one step, whole or stopped after any of its files.            *)
(***************************************************************************)
EXTENDS Naturals, FiniteSets, FiniteSetsExt, Functions

CONSTANTS
    Regions,    \* the configured regions
    NoRail,     \* those that hold no railway
    Extra,      \* the layers beside rail
    MaxDay,     \* bound: days
    MaxRuns,    \* bound: runs started
    ViewFails,  \* `gh release view` may fail where there is a release
    None

VARIABLES
    release,  \* day -> its release, or None
    day,
    run,      \* the run
    runs,     \* how many have started
    torn,     \* history: releases an upload stopped half-way into
    covered,  \* history: rail regions of the newest release, when last published
    good      \* history: the last run that published, unforced

vars == <<release, day, run, runs, torn, covered, good>>

Days == 1..MaxDay
Layers == {"rail"} \cup Extra
Keys == Regions \X Layers
ManifestFile == <<"manifest", "json">>
NoAssets == [k \in {} |-> 0]
Entry(n, status) == [build |-> n, status |-> status]
Idle == [pc |-> "idle", full |-> FALSE, asked |-> {}, layers |-> {}, built |-> NoAssets,
         tag |-> 0, base |-> None, manifest |-> None, force |-> FALSE]
-----------------------------------------------------------------------------
Released == {d \in Days : release[d] # None}
RailRegions(m) == {k[1] : k \in {k \in DOMAIN m : k[2] = "rail"}}

Init ==
    /\ release = [d \in Days |-> None] /\ day = 1 /\ run = Idle /\ runs = 0
    /\ torn = {} /\ covered = {} /\ good = None

NextDay ==
    /\ day < MaxDay /\ run.pc = "idle" /\ day' = day + 1
    /\ UNCHANGED <<release, run, runs, torn, covered, good>>

\* plan: the scheduled run asks for every region, a dispatch for some.
Plan(asked, layers, force) ==
    /\ run.pc = "idle" /\ runs < MaxRuns /\ asked # {} /\ "rail" \in layers
    /\ \E full \in BOOLEAN :
        /\ full => asked = Regions /\ ~force
        /\ run' = [Idle EXCEPT !.pc = "build", !.full = full, !.asked = asked,
                               !.layers = layers, !.force = force]
    /\ runs' = runs + 1
    /\ UNCHANGED <<release, day, torn, covered, good>>

\* What may come of one region's build and its size guard: it fails, or leaves
\* rail and some of the other layers; a file over its ceiling is dropped with
\* its entry.
Outcomes(r, layers) ==
    {[l \in Layers |-> "none"]}
    \cup {o \in [Layers -> {"ok", "empty", "none"}] :
            /\ o["rail"] = IF r \in NoRail THEN "empty" ELSE "ok"
            /\ \A l \in Extra : o[l] # "empty" /\ (l \notin layers => o[l] = "none")}

\* The matrix: its jobs share nothing.
Build(out) ==
    /\ run.pc = "build" /\ \A r \in run.asked : out[r] \in Outcomes(r, run.layers)
    /\ run' = [run EXCEPT !.pc = "release",
                          !.built = [k \in {k \in run.asked \X Layers : out[k[1]][k[2]] # "none"} |->
                                        Entry(runs, out[k[1]][k[2]])]]
    /\ UNCHANGED <<release, day, runs, torn, covered, good>>

\* A full run opens the day's release; a subset patches the newest there is.
Tag(full) == IF full \/ Released = {} THEN day ELSE Max(Released)

Unguarded(full, exists, base) == TRUE

\* A subset of an existing release without its manifest would disown the rest.
MayMerge(full, exists, base) == ~(~full /\ exists /\ base = None)

Stop == Idle

\* Resolve the release, fetch the manifest being updated.
FetchBase(exists, fetched) ==
    /\ run.pc = "release"
    /\ LET tag == Tag(run.full)
           there == release[tag] # None
           base == IF exists /\ fetched THEN release[tag].manifest ELSE None
       IN  /\ exists => there
           /\ there /\ ~ViewFails => exists
           /\ fetched => exists
           /\ run' = IF MayMerge(run.full, exists, base)
                     THEN [run EXCEPT !.pc = "manifest", !.tag = tag, !.base = base]
                     ELSE Stop
    /\ UNCHANGED <<release, day, runs, torn, covered, good>>

CarriesKeys(key, built) == key \notin DOMAIN built

\* Replaced by region: what this run built of one is all the manifest says.
Carries(key, built) == key[1] \notin {k[1] : k \in DOMAIN built}

Manifest(base, built, layers) ==
    LET old == IF base = None THEN {}
               ELSE {k \in DOMAIN base : k[2] \in layers /\ Carries(k, built)}
    IN  [k \in DOMAIN built \cup old |-> IF k \in DOMAIN built THEN built[k] ELSE base[k]]

MissingRegions(m, expected) == expected \ RailRegions(m)
CarriedRegions(m, expected, built) == (expected \cap RailRegions(m)) \ RailRegions(built)

RefusesMissing(m, expected, built) == MissingRegions(m, expected) # {}
Refuses(m, expected, built) ==
    MissingRegions(m, expected) # {} \/ CarriedRegions(m, expected, built) # {}

\* `manifest`: merge, and refuse what is missing or carried unless forced.
CollectManifest ==
    /\ run.pc = "manifest"
    /\ LET m == Manifest(run.base, run.built, run.layers)
       IN  run' = IF run.built = NoAssets \/ (Refuses(m, run.asked, run.built) /\ ~run.force)
                  THEN Stop
                  ELSE [run EXCEPT !.pc = "gate", !.manifest = m]
    /\ UNCHANGED <<release, day, runs, torn, covered, good>>

\* The route corpus, resolved against the manifest's stores: may fail.
Gate ==
    /\ run.pc = "gate"
    /\ \/ run' = [run EXCEPT !.pc = "publish"]
       \/ ~run.force /\ run' = Stop
    /\ UNCHANGED <<release, day, runs, torn, covered, good>>

Files(built) == {k \in DOMAIN built : built[k].status = "ok"}

\* gh release create, if there is none.
Created == [release EXCEPT ![run.tag] = IF @ = None THEN [manifest |-> None, assets |-> NoAssets] ELSE @]

\* The release with some files replaced.
With(rel, files) ==
    [manifest |-> IF ManifestFile \in files THEN run.manifest ELSE rel.manifest,
     assets |-> [k \in DOMAIN rel.assets \cup (files \ {ManifestFile}) |->
                    IF k \in files THEN run.built[k].build ELSE rel.assets[k]]]

\* The file being replaced has been deleted.
Without(rel, file) ==
    IF file = ManifestFile THEN [rel EXCEPT !.manifest = None]
    ELSE [rel EXCEPT !.assets = Restrict(@, DOMAIN @ \ {file})]

UploadsRailAlone == {k \in Files(run.built) : k[2] = "rail"} \cup {ManifestFile}
Uploads == Files(run.built) \cup {ManifestFile}

\* gh release upload --clobber dies: it replaces one file after another, in no
\* order, deleting each first.
Dies(done, gone) ==
    /\ run.pc = "publish" /\ done \subseteq Uploads /\ gone \subseteq Uploads \ done
    /\ Cardinality(gone) <= 1
    /\ LET part == With(Created[run.tag], done)
       IN  release' = [Created EXCEPT ![run.tag] =
                          IF gone = {} THEN part ELSE Without(part, CHOOSE f \in gone : TRUE)]
    /\ torn' = torn \cup {run.tag}
    /\ run' = Stop
    /\ UNCHANGED <<day, runs, covered, good>>

\* The run ends green.  A full run leaves nothing of a torn upload in the manifest.
Published ==
    /\ run.pc = "publish"
    /\ release' = [Created EXCEPT ![run.tag] = With(Created[run.tag], Uploads)]
    /\ torn' = IF run.asked = Regions /\ ~run.force THEN torn \ {run.tag} ELSE torn
    /\ covered' = IF \A d \in Released : d <= run.tag THEN RailRegions(run.manifest) ELSE covered
    /\ good' = IF run.force THEN None ELSE [tag |-> run.tag, asked |-> run.asked, build |-> runs]
    /\ run' = Stop
    /\ UNCHANGED <<day, runs>>

Next ==
    \/ NextDay \/ CollectManifest \/ Gate \/ Published
    \/ \E asked \in SUBSET Regions, layers \in SUBSET Layers, force \in BOOLEAN : Plan(asked, layers, force)
    \/ \E out \in [run.asked -> UNION {Outcomes(r, run.layers) : r \in run.asked}] : Build(out)
    \/ \E exists, fetched \in BOOLEAN : FetchBase(exists, fetched)
    \/ \E done, gone \in SUBSET Uploads : Dies(done, gone)

Spec == Init /\ [][Next]_vars
-----------------------------------------------------------------------------
TypeOK ==
    /\ \A d \in Released : DOMAIN release[d].assets \subseteq Keys
    /\ DOMAIN run.built \subseteq Keys
    /\ run.pc \in {"idle", "build", "release", "manifest", "gate", "publish"}
    /\ torn \subseteq Released /\ covered \subseteq Regions /\ run.tag \in 0..MaxDay

Entries(d) == IF release[d] = None \/ release[d].manifest = None THEN NoAssets ELSE release[d].manifest

\* A published manifest names no file its release does not hold: what it
\* carries from the manifest it replaces is still attached (the comment on the
\* base of the merge), whatever layers were switched off and on between.
ManifestBacked ==
    \A d \in Released \ torn :
        \A k \in Files(Entries(d)) :
            k \in DOMAIN release[d].assets /\ release[d].assets[k] = Entries(d)[k].build

\* A region's layers come from one build: a layer dropped by the size guard is
\* missing, never last month's beside this month's rail.
RegionIsOneBuild ==
    \A d \in Released : \A k, l \in DOMAIN Entries(d) :
        k[1] = l[1] => Entries(d)[k].build = Entries(d)[l].build

\* A green run that was not forced has rebuilt every region it was asked for
\* (#350), and nothing but a later publication takes that back.
AskedIsFresh ==
    good # None /\ good.build = runs /\ run.pc = "idle" =>
        \A r \in good.asked : /\ <<r, "rail">> \in DOMAIN Entries(good.tag)
                              /\ Entries(good.tag)[<<r, "rail">>].build = good.build

\* Rebuilding some regions never disowns the others: the newest release goes on
\* accounting for every region it did, unless someone forces it.
DisownsNothing ==
    good' # good /\ good' # None => covered \subseteq covered'
NeverDisowns == [][DisownsNothing]_vars
=============================================================================
