----------------------------- MODULE Coalesced ------------------------------
(***************************************************************************)
(* The refreshes that follow a change of a trip (its cached statistics,    *)
(* the tiles of its share links), run one at a time per trip in a process  *)
(* (_run_coalesced in api/project_shared.py).                              *)
(*                                                                         *)
(* A call that finds one running leaves a mark and returns; the running    *)
(* one looks at the mark after each pass.  The last look and the end are   *)
(* two sections of the lock.                                               *)
(***************************************************************************)
EXTENDS Naturals

CONSTANTS
    Threads,     \* the background tasks of the process
    MaxChanges   \* bound: changes of the trip

VARIABLES
    version,    \* the trip's version in the database
    running,    \* _coalesce_state[key]["running"]
    dirty,      \* _coalesce_state[key]["dirty"]
    thread,     \* per task, where it stands and what its pass has read
    artefact,   \* the version the statistics or tiles were made from
    asked,      \* history: the newest version a refresh was asked for
    raised      \* history: the last pass failed

vars == <<version, running, dirty, thread, artefact, asked, raised>>

At(t, pc) == thread[t].pc = pc
Goto(t, pc) == thread' = [thread EXCEPT ![t].pc = pc]

\* A mutating request commits and queues the refresh (queue_stats_refresh,
\* queue_share_tiles_refresh without a broker).
Change(t) ==
    /\ At(t, "idle") /\ version < MaxChanges
    /\ version' = version + 1
    /\ Goto(t, "call")
    /\ UNCHANGED <<running, dirty, artefact, asked, raised>>

\* Mutant (issue #132): every call runs its own pass.
CallRuns(t) ==
    /\ At(t, "call")
    /\ asked' = version /\ running' = TRUE /\ Goto(t, "read")
    /\ UNCHANGED <<version, dirty, artefact, raised>>

\* The task enters: the only one at work, or a mark and away.
Call(t) ==
    /\ At(t, "call")
    /\ asked' = version
    /\ IF running
       THEN dirty' = TRUE /\ UNCHANGED running /\ Goto(t, "idle")
       ELSE running' = TRUE /\ UNCHANGED dirty /\ Goto(t, "read")
    /\ UNCHANGED <<version, artefact, raised>>

\* One pass reads the trip (_refresh_stats_once, _refresh_share_tiles_once)...
Read(t) ==
    /\ At(t, "read")
    /\ thread' = [thread EXCEPT ![t] = [pc |-> "write", v |-> version]]
    /\ UNCHANGED <<version, running, dirty, artefact, asked, raised>>

\* ...and writes what it made of it, later,
Write(t) ==
    /\ At(t, "write")
    /\ artefact' = thread[t].v
    /\ raised' = FALSE
    /\ thread' = [thread EXCEPT ![t] = [pc |-> "look", v |-> 0]]
    /\ UNCHANGED <<version, running, dirty, asked>>

\* or fails, which ends the task through the finally clause.
Raise(t) ==
    /\ thread[t].pc \in {"read", "write"}
    /\ raised' = TRUE
    /\ thread' = [thread EXCEPT ![t] = [pc |-> "leave", v |-> 0]]
    /\ UNCHANGED <<version, running, dirty, artefact, asked>>

\* Mutant: the mark is cleared and not acted on.
LookAway(t) ==
    /\ At(t, "look")
    /\ dirty' = FALSE
    /\ Goto(t, "leave")
    /\ UNCHANGED <<version, running, artefact, asked, raised>>

\* The mark is looked at under the lock: once more, or out of the loop.
Look(t) ==
    /\ At(t, "look")
    /\ dirty' = FALSE
    /\ Goto(t, IF dirty THEN "read" ELSE "leave")
    /\ UNCHANGED <<version, running, artefact, asked, raised>>

\* finally, in a section of the lock of its own.
Leave(t) ==
    /\ At(t, "leave")
    /\ running' = FALSE
    /\ Goto(t, "idle")
    /\ UNCHANGED <<version, dirty, artefact, asked, raised>>

Init ==
    /\ version = 0 /\ artefact = 0 /\ asked = 0
    /\ running = FALSE /\ dirty = FALSE /\ raised = FALSE
    /\ thread = [t \in Threads |-> [pc |-> "idle", v |-> 0]]

Next ==
    \E t \in Threads : \/ Change(t) \/ Call(t) \/ Read(t) \/ Write(t)
                       \/ Raise(t) \/ Look(t) \/ Leave(t)

Spec == Init /\ [][Next]_vars
-----------------------------------------------------------------------------
\* What was made of an older state of the trip never replaces what was made of
\* a newer one: the task that writes last is the one that read last (#132).
NotBack ==
    artefact' >= artefact
NeverBack == [][NotBack]_vars

\* With nothing at work and no mark left, the statistics or tiles are those of
\* the newest version a refresh was asked for, unless the last pass failed.
\* The exception is a mark left between the last look and the end: it stays
\* until another change comes.
LastReflected ==
    ~running /\ ~dirty /\ ~raised => artefact >= asked
=============================================================================
