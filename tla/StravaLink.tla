----------------------------- MODULE StravaLink -----------------------------
(***************************************************************************)
(* One account's link to Strava: the stored tokens, the cached activity    *)
(* list, and the connect that leads to them.                               *)
(*                                                                         *)
(*   api/strava.py                  connect, callback, complete, the list, *)
(*                                  disconnect                             *)
(*   src/api/strava_client.py       the refresh inside a fetch             *)
(*   src/auth/strava_deauth.py      the revoke                             *)
(*   src/auth/account_deletion.py   the Strava part of a deletion          *)
(*   api/encryption.py              enable, which drops the cached list    *)
(*                                                                         *)
(* A token is a number.  No transaction is open while Strava is called, so *)
(* each round trip and each transaction is a step of its own; a            *)
(* transaction that begins with a write holds SQLite's write lock to its   *)
(* end and is one step (_claim_token_row).                                 *)
(***************************************************************************)
EXTENDS Naturals, FiniteSets

CONSTANTS
    Reqs,        \* requests under way
    Connects,    \* OAuth states: connects started by clients of the account
    Codes,       \* authorization codes
    MaxTokens,   \* bound: tokens Strava issues
    None

VARIABLES
    account,     \* the account exists
    encrypted,   \* UserInfo.encryption_enabled
    row,         \* the stored token, 0 without a StravaToken row
    cache,       \* whether the list is on disk (DBStravaCache)
    memory,      \* whether the list is in the process (_memory_cache)
    live,        \* Strava: the tokens that work
    issued,      \* Strava: tokens issued so far
    used,        \* Strava: the codes exchanged
    expired,     \* the connects whose state has run out
    bound,       \* StravaOAuthCode: code -> the connect it is bound to
    req,         \* per slot, a request
    first,       \* history: the connect a code was first bound to
    linked,      \* history: the connect a code was completed with
    lost         \* history: a revoke failed, a process died, or a working
                 \* token was replaced by one that no longer works

vars == <<account, encrypted, row, cache, memory, live, issued, used, expired,
          bound, req, first, linked, lost>>
stored == <<account, encrypted, row, cache, memory>>
strava == <<live, issued, used>>
binding == <<expired, bound, first, linked>>

Idle == [pc |-> "idle"]
Goto(r, pc) == req' = [req EXCEPT ![r].pc = pc]
Done(r) == req' = [req EXCEPT ![r] = Idle]
-----------------------------------------------------------------------------
\* POST /oauth/revoke takes the application's access away if it knows the
\* token, and answers 200 if it does not; deauthorize_strava never raises.
Revoke(t) ==
    \/ /\ live' = IF t \in live THEN {} ELSE live
       /\ UNCHANGED lost
    \/ lost' = TRUE /\ UNCHANGED live

\* strava_activities and strava_sync take the stored tokens along.
StartFetch(r) ==
    /\ req[r] = Idle /\ row # 0
    /\ req' = [req EXCEPT ![r] = [pc |-> "fetch", tok |-> row]]
    /\ UNCHANGED <<stored, strava, binding, lost>>

\* _ensure_token, or a 401: Strava replaces the token it is shown...
Refresh(r) ==
    /\ req[r].pc = "fetch" /\ req[r].tok \in live /\ issued < MaxTokens
    /\ issued' = issued + 1
    /\ live' = (live \ {req[r].tok}) \cup {issued + 1}
    /\ req' = [req EXCEPT ![r] = [pc |-> "persist", tok |-> issued + 1]]
    /\ UNCHANGED <<stored, used, binding, lost>>

\* ...or refuses one it no longer knows, and the fetch fails.
FetchFails(r) ==
    /\ req[r].pc = "fetch" /\ req[r].tok \notin live
    /\ Done(r)
    /\ UNCHANGED <<stored, strava, binding, lost>>

\* A token is written over the stored one, whatever either is worth by now.
Overwrite(t) ==
    /\ row' = t
    /\ lost' = (lost \/ (row \in live /\ t \notin live))

\* _persist_rotated_token: stored, unless the row has gone meanwhile.
Persist(r) ==
    /\ req[r].pc = "persist"
    /\ IF row # 0 THEN Overwrite(req[r].tok) /\ Goto(r, "fetch")
       ELSE Goto(r, "disown") /\ UNCHANGED <<row, lost>>
    /\ UNCHANGED <<account, encrypted, cache, memory, strava, binding>>

Disown(r) ==
    /\ req[r].pc = "disown"
    /\ Revoke(req[r].tok)
    /\ Goto(r, "fetch")
    /\ UNCHANGED <<stored, issued, used, binding>>

\* Mutant: the list is written without asking for the token row.
SaveCacheUnclaimed(r) ==
    /\ req[r].pc = "fetch"
    /\ Done(r)
    /\ cache' = ~encrypted
    /\ memory' = (memory \/ encrypted)
    /\ UNCHANGED <<account, encrypted, row, strava, binding, lost>>

\* _save_cache: nothing for an account that has disconnected, memory for an
\* encrypted one, the table otherwise.  (A fetch by date saves nothing.)
SaveCache(r) ==
    /\ req[r].pc = "fetch"
    /\ Done(r)
    /\ \/ /\ row # 0
          /\ cache' = ~encrypted
          /\ memory' = (memory \/ encrypted)
       \/ UNCHANGED <<cache, memory>>
    /\ UNCHANGED <<account, encrypted, row, strava, binding, lost>>
-----------------------------------------------------------------------------
\* strava_disconnect, and the same order in delete_user_and_data: the tokens
\* are read,
ReadToDrop(r, why) ==
    /\ req[r] = Idle /\ account
    /\ req' = [req EXCEPT ![r] = [pc |-> IF row # 0 THEN "revoke" ELSE "drop",
                                  tok |-> row, why |-> why]]
    /\ UNCHANGED <<stored, strava, binding, lost>>

\* revoked at Strava outside any transaction,
RevokeRead(r) ==
    /\ req[r].pc = "revoke"
    /\ Revoke(req[r].tok)
    /\ Goto(r, "drop")
    /\ UNCHANGED <<stored, issued, used, binding>>

\* Mutant (review R3-1): the row goes without a look at what it holds by now.
DropUnread(r) ==
    /\ req[r].pc = "drop"
    /\ row' = 0 /\ cache' = FALSE
    /\ memory' = (memory /\ req[r].why = "delete")
    /\ account' = (account /\ req[r].why # "delete")
    /\ Done(r)
    /\ UNCHANGED <<encrypted, strava, binding, lost>>

\* and dropped under the write lock, with the list; a token that is not the
\* one revoked was rotated meanwhile and is revoked after the commit.  A
\* deletion leaves the list in memory; one that finds the account gone ends.
Drop(r) ==
    LET rotated == row # 0 /\ row # req[r].tok
        repeated == req[r].why = "delete" /\ ~account
    IN  /\ req[r].pc = "drop"
        /\ IF repeated
           THEN Done(r) /\ UNCHANGED stored
           ELSE /\ row' = 0 /\ cache' = FALSE
                /\ memory' = (memory /\ req[r].why = "delete")
                /\ account' = (account /\ req[r].why # "delete")
                /\ UNCHANGED encrypted
                /\ IF rotated
                   THEN req' = [req EXCEPT ![r] = [pc |-> "revokerotated", tok |-> row]]
                   ELSE Done(r)
        /\ UNCHANGED <<strava, binding, lost>>

RevokeRotated(r) ==
    /\ req[r].pc = "revokerotated"
    /\ Revoke(req[r].tok)
    /\ Done(r)
    /\ UNCHANGED <<stored, issued, used, binding>>

\* Mutant: the list fetched before the switch stays on disk.
EnableKeepsList ==
    /\ account /\ ~encrypted
    /\ encrypted' = TRUE
    /\ UNCHANGED <<account, row, cache, memory, strava, binding, req, lost>>

\* encryption.enable: its inserts are flushed, and hold the lock, before the
\* cached list is looked up and deleted.
Enable ==
    /\ account /\ ~encrypted
    /\ encrypted' = TRUE /\ cache' = FALSE
    /\ UNCHANGED <<account, row, memory, strava, binding, req, lost>>

\* The API process restarts: what was under way and in memory is gone.
Restart ==
    /\ req # [r \in Reqs |-> Idle] \/ memory
    /\ memory' = FALSE
    /\ req' = [r \in Reqs |-> Idle]
    /\ lost' = (lost \/ \E r \in Reqs : req[r] # Idle)
    /\ UNCHANGED <<account, encrypted, row, cache, strava, binding>>
-----------------------------------------------------------------------------
\* A state's ten minutes are over.
Expire(s) ==
    /\ s \notin expired
    /\ expired' = expired \cup {s}
    /\ UNCHANGED <<stored, strava, bound, first, linked, req, lost>>

\* Mutant: the last callback to bring a code binds it.
BoundToLast(c, s) == s

\* _bind_code, whose delete of expired rows makes it one locked transaction:
\* first seen wins.
BoundTo(c, s) == IF bound[c] # None /\ bound[c] \notin expired THEN bound[c] ELSE s

\* strava_callback: a code comes back with a state that still holds.
Callback(s, c) ==
    /\ s \notin expired
    /\ bound' = [d \in Codes |->
                   IF d = c THEN BoundTo(c, s)
                   ELSE IF bound[d] \in expired THEN None ELSE bound[d]]
    /\ first' = IF first[c] = None THEN [first EXCEPT ![c] = s] ELSE first
    /\ UNCHANGED <<stored, strava, expired, linked, req, lost>>

\* strava_complete: the code must be bound to this state...
Complete(r, s, c) ==
    /\ req[r] = Idle
    /\ s \notin expired /\ bound[c] = s
    /\ req' = [req EXCEPT ![r] = [pc |-> "exchange", tok |-> 0, state |-> s, code |-> c]]
    /\ UNCHANGED <<stored, strava, binding, lost>>

\* ...is exchanged, once...
Exchange(r) ==
    /\ req[r].pc = "exchange" /\ issued < MaxTokens
    /\ IF req[r].code \in used
       THEN Done(r) /\ UNCHANGED strava
       ELSE /\ used' = used \cup {req[r].code}
            /\ issued' = issued + 1
            /\ live' = live \cup {issued + 1}
            /\ req' = [req EXCEPT ![r].pc = "link", ![r].tok = issued + 1]
    /\ UNCHANGED <<stored, binding, lost>>

\* ...and the row updated or inserted, the binding with it.
Link(r) ==
    /\ req[r].pc = "link"
    /\ Overwrite(req[r].tok)
    /\ bound' = [bound EXCEPT ![req[r].code] = None]
    /\ linked' = [linked EXCEPT ![req[r].code] = req[r].state]
    /\ Done(r)
    /\ UNCHANGED <<account, encrypted, cache, memory, strava, expired, first>>
-----------------------------------------------------------------------------
Init ==
    /\ account = TRUE /\ encrypted \in BOOLEAN
    /\ row = 0 /\ cache = FALSE /\ memory = FALSE
    /\ live = {} /\ issued = 0 /\ used = {} /\ expired = {}
    /\ bound = [c \in Codes |-> None]
    /\ first = [c \in Codes |-> None]
    /\ linked = [c \in Codes |-> None]
    /\ req = [r \in Reqs |-> Idle]
    /\ lost = FALSE

Next ==
    \/ \E r \in Reqs :
         \/ StartFetch(r) \/ Refresh(r) \/ FetchFails(r) \/ Persist(r) \/ Disown(r)
         \/ SaveCache(r)
         \/ \E why \in {"disconnect", "delete"} : ReadToDrop(r, why)
         \/ RevokeRead(r) \/ Drop(r) \/ RevokeRotated(r)
         \/ \E s \in Connects, c \in Codes : Complete(r, s, c)
         \/ Exchange(r) \/ Link(r)
    \/ Enable \/ Restart
    \/ \E s \in Connects : Expire(s) \/ \E c \in Codes : Callback(s, c)

Spec == Init /\ [][Next]_vars
-----------------------------------------------------------------------------
\* Strava's working tokens were issued, and the stored one too.
TypeOK ==
    /\ row \in 0..issued /\ live \subseteq 1..issued /\ issued \in Nat
    /\ bound \in [Codes -> Connects \cup {None}]
    /\ \A r \in Reqs : req[r] # Idle => req[r].tok \in 0..issued
    /\ \A r \in Reqs : req[r].pc = "persist" => req[r].tok # 0

\* Once an account has no token row and nothing is under way, the application
\* is no longer authorised at Strava, whatever refresh, disconnect, deletion
\* or second connect ran at the same time (issue #440), unless Strava could
\* not be reached, the process died between two steps, or a connect or refresh
\* that had been overtaken by a revoke stored its dead token over a later one.
NoOrphanGrant ==
    row = 0 /\ ~lost /\ (\A r \in Reqs : req[r] = Idle) => live = {}

\* A fetch still running when the user disconnects does not bring back the
\* cached list (issue #440).
NothingAfterDisconnect == row = 0 => ~cache /\ (account => ~memory)

\* The raw list of an encrypted account is never on disk.
PlainListOffDisk == encrypted => ~cache

\* A code completes only with the state it first came back with, for as long
\* as that state holds (docs/plans/STRAVA_CONNECT_BINDING_PLAN.md D9).
CodeKeepsState ==
    \A c \in Codes : linked[c] # None => linked[c] = first[c] \/ first[c] \in expired
=============================================================================
