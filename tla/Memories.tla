------------------------------ MODULE Memories ------------------------------
(***************************************************************************)
(* The memories of one trip: created by hand or by an import that is       *)
(* retried, edited from several devices, encrypted, translated.            *)
(*                                                                         *)
(*   api/memories.py           create_memory, _adopt_and_refresh,          *)
(*                             update_memory, delete_memory, translations  *)
(*   api/journal.py            create_journal, the same with client_token  *)
(*   api/share.py              the visitor's translation                   *)
(*                                                                         *)
(* A step is the key an import retries with (polarsteps_step_id, or a      *)
(* journal entry's client_token); name and date are one key.  A row's rev  *)
(* counts the texts it had.                                                *)
(***************************************************************************)
EXTENDS Naturals, FiniteSets

CONSTANTS
    Rows,       \* memory ids, in the order they are given out: 1..n
    Steps,      \* ids of imported steps
    Keys,       \* name and date
    Reqs,       \* requests under way
    Devices,    \* the devices that edit
    MaxRev,     \* bound: edits of one memory
    None

VARIABLES
    mem,        \* per id, the row
    used,       \* ids given out (AUTOINCREMENT)
    version,    \* the trip's lock_version
    encrypted,  \* the owner's encryption_enabled
    trans,      \* per id, the rev that was translated, or None
    req,        \* per slot, a request
    knows,      \* per device, the version and the revs it loaded
    adopted,    \* history: memories an import took over
    caught,     \* history: memories encrypted under a translation
    blind       \* history: a guarded edit overwrote what its device had not seen

vars == <<mem, used, version, encrypted, trans, req, knows, adopted, caught, blind>>

Idle == [pc |-> "idle", row |-> 0, step |-> None, key |-> None, cipher |-> FALSE, rev |-> 0]
NoRow == [there |-> FALSE, step |-> None, key |-> None, cipher |-> FALSE, rev |-> 0]
There(i) == i \in Rows /\ mem[i].there
OfStep(s) == {i \in Rows : mem[i].there /\ s # None /\ mem[i].step = s}
Ends(r) == req' = [req EXCEPT ![r] = Idle]
-----------------------------------------------------------------------------
\* encryption_guard_code: the text must be what the key holder can read.
Accepts(cipher) == cipher = encrypted

\* create_memory up to the insert.  A step already there is answered with its
\* row; one that matches a row without step, by name and date, takes it over.
Look(r, step, key, cipher) ==
    /\ req[r] = Idle
    /\ \/ OfStep(step) # {} /\ UNCHANGED req
       \/ OfStep(step) = {} /\ ~Accepts(cipher) /\ UNCHANGED req
       \/ /\ OfStep(step) = {} /\ Accepts(cipher)
          /\ LET same == {i \in Rows : mem[i].there /\ mem[i].step = None /\ mem[i].key = key}
                 ask  == [Idle EXCEPT !.step = step, !.key = key, !.cipher = cipher]
             IN  IF step # None /\ same # {}
                 THEN \E i \in same :
                        req' = [req EXCEPT ![r] = [ask EXCEPT !.pc = "adopt", !.row = i]]
                 ELSE req' = [req EXCEPT ![r] = [ask EXCEPT !.pc = "insert"]]
    /\ UNCHANGED <<mem, used, version, encrypted, trans, knows, adopted, caught, blind>>

\* Mutant: no unique index on the step.
TakenNever(step) == FALSE

\* The partial unique index on polarsteps_step_id.
Taken(step) == OfStep(step) # {}

\* The insert; the loser of a race is answered with the winner's row.
Insert(r) ==
    /\ req[r].pc = "insert"
    /\ IF Taken(req[r].step) THEN UNCHANGED <<mem, used, version>>
       ELSE /\ used < Cardinality(Rows)
            /\ used' = used + 1 /\ version' = version + 1
            /\ mem' = [mem EXCEPT ![used'] =
                 [there |-> TRUE, step |-> req[r].step, key |-> req[r].key,
                  cipher |-> req[r].cipher, rev |-> 1]]
    /\ Ends(r)
    /\ UNCHANGED <<encrypted, trans, knows, adopted, caught, blind>>

\* _adopt_and_refresh reads the row again, unless it is gone, and writes it;
\* lock_version stays.  The index refuses a step another row carries.
Adopt(r) ==
    LET i == req[r].row
    IN  /\ req[r].pc = "adopt"
        /\ IF There(i) /\ OfStep(req[r].step) \subseteq {i}
           THEN /\ mem[i].rev < MaxRev
                /\ mem' = [mem EXCEPT ![i].step = req[r].step, ![i].key = req[r].key,
                                      ![i].cipher = req[r].cipher, ![i].rev = @ + 1]
                /\ adopted' = adopted \cup {i}
           ELSE UNCHANGED <<mem, adopted>>
        /\ Ends(r)
        /\ UNCHANGED <<used, version, encrypted, trans, knows, caught, blind>>
-----------------------------------------------------------------------------
\* A device loads the trip.
Load(d) ==
    /\ knows' = [knows EXCEPT ![d] = [version |-> version, rev |-> [i \in Rows |-> mem[i].rev]]]
    /\ UNCHANGED <<mem, used, version, encrypted, trans, req, adopted, caught, blind>>

\* Mutant: the translations of the plain text stay.
PurgesNot(i, cipher) == trans

\* An encrypted text takes the translations of the plain one with it.
Purged(i, cipher) == IF cipher THEN [trans EXCEPT ![i] = None] ELSE trans

\* Mutant: an edit without lock_version leaves the version alone.
AdvanceGuarded(guarded) == IF guarded THEN version + 1 ELSE version

\* advance_lock_version counts every edit, guarded or not.
Advance(guarded) == version + 1

\* update_memory, with the device's lock_version or without one.
Update(d, i, guarded, cipher) ==
    /\ There(i) /\ mem[i].rev < MaxRev /\ Accepts(cipher)
    /\ guarded => knows[d].version = version
    /\ mem' = [mem EXCEPT ![i].rev = @ + 1, ![i].cipher = cipher]
    /\ version' = Advance(guarded)
    /\ trans' = Purged(i, cipher)
    /\ knows' = IF guarded THEN [knows EXCEPT ![d].version = version', ![d].rev[i] = mem'[i].rev]
                ELSE knows
    /\ caught' = IF cipher /\ \E r \in Reqs : req[r].pc = "translate" /\ req[r].row = i
                 THEN caught \cup {i} ELSE caught
    /\ blind' = (blind \/ (guarded /\ i \notin adopted /\ knows[d].rev[i] # mem[i].rev))
    /\ UNCHANGED <<used, encrypted, req, adopted>>

\* delete_memory
Delete(i) ==
    /\ There(i)
    /\ mem' = [mem EXCEPT ![i] = [NoRow EXCEPT !.rev = mem[i].rev]]
    /\ version' = version + 1
    /\ UNCHANGED <<used, encrypted, trans, req, knows, adopted, caught, blind>>

\* The owner turns encryption on; the client then rewrites the memories.
Encrypt ==
    /\ ~encrypted
    /\ encrypted' = TRUE
    /\ UNCHANGED <<mem, used, version, trans, req, knows, adopted, caught, blind>>

\* get_translation, shared_get_translation: a cached row is the answer, an
\* encrypted memory has none, else the text goes to the service.
AskTranslation(r, i) ==
    /\ req[r] = Idle /\ There(i) /\ ~mem[i].cipher /\ trans[i] = None
    /\ req' = [req EXCEPT ![r] = [Idle EXCEPT !.pc = "translate", !.row = i, !.rev = mem[i].rev]]
    /\ UNCHANGED <<mem, used, version, encrypted, trans, knows, adopted, caught, blind>>

\* The service fails, or the answer is stored, whatever became of the memory;
\* a second row for the language is refused.
StoreTranslation(r) ==
    /\ req[r].pc = "translate"
    /\ \/ UNCHANGED trans
       \/ trans[req[r].row] = None /\ trans' = [trans EXCEPT ![req[r].row] = req[r].rev]
    /\ Ends(r)
    /\ UNCHANGED <<mem, used, version, encrypted, knows, adopted, caught, blind>>
-----------------------------------------------------------------------------
Init ==
    /\ mem = [i \in Rows |-> NoRow] /\ used = 0 /\ version = 0 /\ encrypted = FALSE
    /\ trans = [i \in Rows |-> None]
    /\ req = [r \in Reqs |-> Idle]
    /\ knows = [d \in Devices |-> [version |-> 0, rev |-> [i \in Rows |-> 0]]]
    /\ adopted = {} /\ caught = {} /\ blind = FALSE

Next ==
    \/ \E r \in Reqs :
         \/ \E s \in Steps \cup {None}, k \in Keys, c \in BOOLEAN : Look(r, s, k, c)
         \/ Insert(r) \/ Adopt(r) \/ StoreTranslation(r)
         \/ \E i \in Rows : AskTranslation(r, i)
    \/ \E d \in Devices :
         \/ Load(d)
         \/ \E i \in Rows, g, c \in BOOLEAN : Update(d, i, g, c)
    \/ \E i \in Rows : Delete(i)
    \/ Encrypt

Spec == Init /\ [][Next]_vars
-----------------------------------------------------------------------------
\* An imported step is in the trip at most once, however often and however
\* concurrently the import is retried ("a Polarsteps step may be imported at
\* most once per project").
OneRowPerStep ==
    \A s \in Steps : Cardinality(OfStep(s)) <= 1

\* An edit that carries its device's lock_version never overwrites a text the
\* device has not loaded, except one an import wrote into a row it took over,
\* which does not advance the version.
GuardedEditSaw == ~blind

\* An encrypted memory keeps no translation of its plain text, unless one was
\* under way when it was encrypted, which is stored afterwards.
EncryptedUntranslated ==
    \A i \in Rows : mem[i].there /\ mem[i].cipher /\ i \notin caught \cup adopted => trans[i] = None
=============================================================================
