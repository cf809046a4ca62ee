----------------------------- MODULE MCContent ------------------------------
(***************************************************************************)
(* What a trip holds: activities, photos, journal entries, people,         *)
(* avatars, and the migration to one row per trip.                         *)
(*                                                                         *)
(* The components share no state, so one run can check them side by side:  *)
(* focus says which of them runs, and v1, v2, ... hold its variables.      *)
(***************************************************************************)
EXTENDS Integers, TLC

CONSTANTS x1, x2, y1, y2, z1, z2, spare, None

VARIABLES focus, v1, v2, v3, v4, v5, v6, v7, v8, v9, v10, v11

vars == <<focus, v1, v2, v3, v4, v5, v6, v7, v8, v9, v10, v11>>
Symmetric == Permutations({x1, x2}) \cup Permutations({y1, y2}) \cup Permutations({z1, z2})
-----------------------------------------------------------------------------
Act == INSTANCE Activities WITH
    Trips <- {x1, x2}, Ops <- {y1, y2}, Length <- 3, MaxRows <- 3, MaxCalls <- 3,
    Unchecked <- {"edit"}, rows <- v1, items <- v2, live <- v3, prep <- v4, next <- v5,
    calls <- v6, op <- v7, pending <- v8, marred <- v9, exposed <- v10, stranded <- v11
Pho == INSTANCE Photos WITH
    Reqs <- {x1, x2}, PhotoIds <- {1, 2}, Contents <- {y1}, Ranks <- {0, 1}, Quota <- 2,
    MaxEpoch <- 1, kind <- v1, row <- v2, files <- v3, copies <- v4, counted <- v5, lock <- v6,
    req <- v7, drawn <- v8, born <- v9, drifted <- v10
Dow == INSTANCE Photos WITH
    Reqs <- {x1, x2}, PhotoIds <- {1, 2}, Contents <- {y1, y2}, Ranks <- {0}, Quota <- 2,
    MaxEpoch <- 0, kind <- v1, row <- v2, files <- v3, copies <- v4, counted <- v5, lock <- v6,
    req <- v7, drawn <- v8, born <- v9, drifted <- v10
Mem == INSTANCE Memories WITH
    Rows <- {1, 2}, Steps <- {"step"}, Keys <- {"key"}, Reqs <- {x1, x2},
    Devices <- {"device"}, MaxRev <- 2, mem <- v1, used <- v2, version <- v3, encrypted <- v4,
    trans <- v5, req <- v6, knows <- v7, adopted <- v8, caught <- v9, blind <- v10
Edi == INSTANCE Memories WITH
    Rows <- {1}, Steps <- {"step"}, Keys <- {"key"}, Reqs <- {x1, x2}, Devices <- {"device"},
    MaxRev <- 3, mem <- v1, used <- v2, version <- v3, encrypted <- v4, trans <- v5, req <- v6,
    knows <- v7, adopted <- v8, caught <- v9, blind <- v10
Peo == INSTANCE People WITH
    PersonIds <- {y1, y2}, GroupIds <- {"g"}, Reqs <- {x1, x2}, MaxEncounters <- 2,
    people <- v1, groups <- v2, encounters <- v3, items <- v4, made <- v5, req <- v6
Ava == INSTANCE AvatarMove WITH
    Owner <- "owner", Others <- {y1, y2}, Names <- {z1, z2, spare}, Reqs <- {x1, x2},
    person <- v1, files <- v2, charged <- v3, members <- v4, spent <- v5, req <- v6,
    sweep <- v7, tidy <- v8
One == INSTANCE OneRowPerTrip WITH
    Trips <- {1, 2}, MaxRows <- 3, MaxOld <- 6, Stretches <- {1, 2, 3}, rows <- v1,
    items <- v2, touched <- v3, copies <- v4, families <- v5, pieces <- v6, pc <- v7,
    round <- v8, turn <- v9, old <- v10, before <- v11
-----------------------------------------------------------------------------
Init ==
    \/ /\ focus = "activities" /\ Act!Init
    \/ /\ focus = "photos" /\ Pho!Init
       /\ v11 = None
    \/ /\ focus = "downloads" /\ Dow!Init
       /\ v11 = None
    \/ /\ focus = "memories" /\ Mem!Init
       /\ v11 = None
    \/ /\ focus = "edits" /\ Edi!Init
       /\ v11 = None
    \/ /\ focus = "people" /\ Peo!Init
       /\ v7 = None /\ v8 = None /\ v9 = None /\ v10 = None /\ v11 = None
    \/ /\ focus = "avatars" /\ Ava!Init
       /\ v9 = None /\ v10 = None /\ v11 = None
    \/ /\ focus = "migration" /\ One!Init

Next ==
    \/ focus = "activities" /\ Act!Next /\ UNCHANGED focus
    \/ focus = "photos" /\ Pho!Next /\ UNCHANGED <<focus, v11>>
    \/ focus = "downloads" /\ Dow!Next /\ UNCHANGED <<focus, v11>>
    \/ focus = "memories" /\ Mem!Next /\ UNCHANGED <<focus, v11>>
    \/ focus = "edits" /\ Edi!Next /\ UNCHANGED <<focus, v11>>
    \/ focus = "people" /\ Peo!Next /\ UNCHANGED <<focus, v7, v8, v9, v10, v11>>
    \/ focus = "avatars" /\ Ava!Next /\ UNCHANGED <<focus, v9, v10, v11>>
    \/ focus = "migration" /\ One!Next /\ UNCHANGED focus

Spec == Init /\ [][Next]_vars
-----------------------------------------------------------------------------
\* - Activities: A trip never shows the same stretch of a split activity twice:
\*   no reset, split, edit or deletion lays a piece over another that is still
\*   in the timeline (reset_activity_track removes what was cut out of the row,
\*   and a deleted piece hands its children to its parent, issues #141 and
\*   #143).
\* - Activities: Every activity item names a row, and no row is in two trips:
\*   removing or deleting from one trip leaves the other's timeline whole
\*   (#405, #592).
\* - Activities: The prepared geometry served for a row is that of its stored
\*   track, and an encrypted track has none, although it is prepared outside
\*   any transaction.
\* - Activities: "Reset to Strava" brings back the whole recorded track however
\*   often the row was edited and split: the snapshot is taken on the first
\*   edit only, and covers what the row shows now.
\* - Activities: The track routes re-read the row under the write lock, so an
\*   edit, a split or a checked reset never puts plaintext over a track that
\*   was encrypted while the request was under way.
\* - Activities: No tile spins for ever: a row marked pending has a refresh
\*   under way that will mark it resolved or failed (_refresh_activity_job:
\*   every exit path writes a verdict), unless the process died with it.
TracksKept ==
    focus = "activities" =>
        /\ Act!TypeOK
        /\ Act!PiecesApart
        /\ Act!ItemsOwnRows
        /\ Act!PreparedIsCurrent
        /\ Act!ResetRecovers
        /\ Act!EditsKeepCiphertext
        /\ Act!PendingHasRefresh

\* - Photos: Every photo in the list has its files: whatever uploads,
\*   downloads, replacements and deletes run at once, no placement brings back
\*   a photo that was deleted, and no delete takes the files of one that stays.
\* - Photos: Every photo on disk is in the list or belongs to a request that
\*   will place or remove it: one that finds its memory gone, its epoch over or
\*   its content already there takes its files with it.
\* - Photos: The counter is what is on disk, less what was written and not
\*   counted yet, unless a memory was deleted in the middle of an upload's
\*   write and count, or a reconcile overlapped one.
\* - Photos: Imported photos stand first, in the order of their ranks, however
\*   the downloads finished and whatever was uploaded, replaced or deleted
\*   meanwhile.
\* - Photos: The copy made for sharing does not outlive its photo.
\* - Photos: No content downloaded twice, and no download queued before a re-
\*   import's clear, is in a memory's list.
PhotosKept ==
    /\ focus = "photos" =>
        /\ Pho!TypeOK
        /\ Pho!ListedOnDisk
        /\ Pho!NothingOrphaned
        /\ Pho!CountedIsStored
        /\ Pho!DisplayOrder
        /\ Pho!CopiesGoToo
    /\ focus = "downloads" => Dow!DownloadedOnce


\* - OneRowPerTrip: After the migration no row is shared, every link of a row
\*   names a row of its own trip, and a trip lists what it listed before (every
\*   item of a row that existed).
\* - OneRowPerTrip: A piece whose root and parent its trip held keeps its
\*   family: its links name that trip's own rows of the same activities
\*   (remap_families).
\* - OneRowPerTrip: No repair draws a stretch twice in a trip: a head or a
\*   piece grows back only where the trip holds nothing that was cut out of it.
\* - OneRowPerTrip: A trip any of whose rows or items changed has had its
\*   version and its statistics renewed, so no client and no cache keeps the
\*   shape it had (bump_touched).
\* - OneRowPerTrip: A sealed row stays with the owner whose key reads it.
\* - OneRowPerTrip: "A second run changes nothing" (the migration's own
\*   description).
MigrationSound ==
    focus = "migration" =>
        /\ One!TypeOK
        /\ One!OneTripPerRow
        /\ One!FamiliesKept
        /\ One!NothingDrawnTwice
        /\ One!ChangedIsTouched
        /\ One!SealedStays
        /\ One!SecondRunIdle

\* - AvatarMove: The sweep never takes the last copy of the avatar a person
\*   has, wherever it is interrupted and however often it runs again.
ContentSteps ==
    [][/\ focus = "avatars" => Ava!KeepsAvatar]_vars
=============================================================================
