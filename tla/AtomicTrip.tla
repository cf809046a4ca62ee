----------------------------- MODULE AtomicTrip -----------------------------
(***************************************************************************)
(* What the repository promises its callers about one trip: however many   *)
(* requests run at once, each write that is acknowledged is one change     *)
(* made to the trip as it stands at that moment.  No version counter, no   *)
(* snapshot and no retry appears here.                                     *)
(***************************************************************************)
EXTENDS TripContent

CONSTANTS Days, DayNotes

VARIABLES
    list,   \* the items in order: rows with positions 0, 1, 2, ...
    meta    \* the day metadata of the project row

atomicVars == <<list, meta>>

(* One item is added, removed or rewritten, or the list is reordered.      *)
ListChanged == list' \in Mutations(list) /\ UNCHANGED meta

(* One day changes, the other days stay as they are stored.                *)
DayChanged == /\ \E d \in Days, n \in DayNotes : meta' = [meta EXCEPT ![d] = n]
              /\ UNCHANGED list

AtomicInit == list = {} /\ meta \in [Days -> DayNotes]
AtomicNext == ListChanged \/ DayChanged
AtomicSpec == AtomicInit /\ [][AtomicNext]_atomicVars
=============================================================================
