---------------------------- MODULE KeyRotation -----------------------------
(***************************************************************************)
(* Rotating the key the users' third-party credentials are stored under,   *)
(* while the app goes on reading and writing them.                         *)
(*                                                                         *)
(*   src/auth/credentials_crypto.py      Keyring, EncryptedString          *)
(*   scripts/rotate_credentials_key.py   rotate, main                      *)
(*                                                                         *)
(* A stored value is a text under a key, or a text stored before values    *)
(* were encrypted.  Every process reads the keys from its environment when *)
(* it starts.  The operator follows the steps in the script's docstring.   *)
(***************************************************************************)
EXTENDS Naturals, FiniteSets

CONSTANTS
    Procs,      \* the app's processes
    Columns,    \* 1..n: the encrypted columns, in the script's order
    Rows,       \* row ids
    Texts,      \* credentials
    MaxKey,     \* bound: keys there have been
    MaxWrites,  \* bound: writes of the app
    MaxScripts, \* bound: runs of the script
    None

VARIABLES
    stored,   \* cell -> its value, or None
    env,      \* the configured keys
    ring,     \* process -> the keys it started with
    script,   \* the run of the script
    report,   \* what the last complete run reported, or None
    written,  \* history: cell -> the text last written, or None
    writes, scripts   \* counters, for the bounds

vars == <<stored, env, ring, script, report, written, writes, scripts>>

Cells == Columns \X Rows
Plain == 0   \* the key of a value stored unencrypted
Value(k, t) == [key |-> k, text |-> t]
Off == [pc |-> "off", apply |-> FALSE, ring |-> None, ready |-> FALSE, col |-> 0,
        rows |-> None, todo |-> {}, pending |-> {}, rewritten |-> 0, unreadable |-> 0]
-----------------------------------------------------------------------------
\* credentials_keyring: the current key and every key reads accept.
Keyring(current, retired) == [current |-> current, keys |-> {current} \cup retired]

\* decrypt_credential
Decrypts(r, v) == v.key # Plain /\ v.key \in r.keys

\* process_result_value: what does not decrypt reads as not connected.
Reads(r, v) == IF v = None \/ ~Decrypts(r, v) THEN None ELSE v.text

\* process_bind_param: always under the current key.
Bound(r, t) == IF t = None THEN None ELSE Value(r.current, t)

Init ==
    /\ stored \in [Cells -> {None} \cup {Value(k, t) : k \in {Plain, 1}, t \in Texts}]
    /\ written = [c \in Cells |-> IF stored[c] = None THEN None ELSE stored[c].text]
    /\ env = Keyring(1, {}) /\ ring = [p \in Procs |-> env]
    /\ script = Off /\ report = None /\ writes = 0 /\ scripts = 0

\* The columns of an open transaction of the script: the app's write waits.
Locked(c) == \E u \in script.pending : u.cell = c

\* A user connects, refreshes a token, or disconnects.
Write(p, c, t) ==
    /\ writes < MaxWrites /\ ~Locked(c)
    /\ stored' = [stored EXCEPT ![c] = Bound(ring[p], t)]
    /\ written' = [written EXCEPT ![c] = t]
    /\ writes' = writes + 1
    /\ UNCHANGED <<env, ring, script, report, scripts>>

\* Step 1: the old key is retired and a new one set.
NewKey ==
    /\ env.current < MaxKey /\ Cardinality(env.keys) = 1 /\ script.pc = "off"
    /\ env' = Keyring(env.current + 1, env.keys)
    /\ report' = None
    /\ UNCHANGED <<stored, ring, script, written, writes, scripts>>

Restart(p) ==
    /\ ring[p] # env
    /\ ring' = [ring EXCEPT ![p] = env]
    /\ UNCHANGED <<stored, env, script, report, written, writes, scripts>>

AllRestarted == \A p \in Procs : ring[p] = env

\* Step 2: run the script, dry or with --apply.
Start(apply) ==
    /\ script.pc = "off" /\ scripts < MaxScripts
    /\ script' = [Off EXCEPT !.pc = "column", !.apply = apply, !.ring = env,
                             !.ready = AllRestarted, !.col = 1]
    /\ scripts' = scripts + 1
    /\ report' = None
    /\ UNCHANGED <<stored, env, ring, written, writes>>

\* One column: a transaction, its rows read at once.
Select ==
    /\ script.pc = "column" /\ script.col \in Columns
    /\ script' = [script EXCEPT !.pc = "row",
                                !.rows = [r \in Rows |-> stored[<<script.col, r>>]],
                                !.todo = {r \in Rows : stored[<<script.col, r>>] # None}]
    /\ UNCHANGED <<stored, env, ring, report, written, writes, scripts>>

ReplacesAnyway(c, old) == TRUE

\* UPDATE ... WHERE id = :id AND column = :old
Replaces(c, old) == stored[c] = old

\* The text a value is re-encrypted from: a plain one as it stands.
Plaintext(r, v) == IF v.key = Plain THEN v.text ELSE Reads(r, v)

IsCurrentAnyKey(r, v) == v.key \in r.keys
IsCurrent(r, v) == v.key = r.current

RotateRow(r) ==
    /\ script.pc = "row" /\ r \in script.todo
    /\ LET old == script.rows[r]
           c == <<script.col, r>>
           text == Plaintext(script.ring, old)
           current == IsCurrent(script.ring, old)
           rewrite == ~current /\ text # None
       IN  script' = [script EXCEPT
               !.todo = @ \ {r},
               !.rewritten = @ + (IF rewrite THEN 1 ELSE 0),
               !.unreadable = @ + (IF current \/ rewrite THEN 0 ELSE 1),
               !.pending = IF rewrite /\ script.apply /\ Replaces(c, old)
                           THEN @ \cup {[cell |-> c, value |-> Bound(script.ring, text)]} ELSE @]
    /\ UNCHANGED <<stored, env, ring, report, written, writes, scripts>>

\* The column's transaction commits.
Commit ==
    /\ script.pc = "row" /\ script.todo = {}
    /\ stored' = [c \in Cells |-> IF Locked(c) THEN (CHOOSE u \in script.pending : u.cell = c).value
                                  ELSE stored[c]]
    /\ script' = [script EXCEPT !.pc = "column", !.col = @ + 1, !.rows = None, !.pending = {}]
    /\ UNCHANGED <<env, ring, report, written, writes, scripts>>

\* main: the report and the exit status.
Report ==
    /\ script.pc = "column" /\ script.col \notin Columns
    /\ report' = [apply |-> script.apply, ready |-> script.ready,
                  rewritten |-> script.rewritten, unreadable |-> script.unreadable]
    /\ script' = Off
    /\ UNCHANGED <<stored, env, ring, written, writes, scripts>>

\* The container running the script is stopped: the open transaction rolls back.
Killed ==
    /\ script.pc # "off" /\ script' = Off
    /\ UNCHANGED <<stored, env, ring, report, written, writes, scripts>>

\* Nothing left under a retired key: all re-encrypted by this run, or none
\* found to be, after every process had the new key.
NothingLeft ==
    /\ report # None /\ report.ready /\ report.unreadable = 0
    /\ report.apply \/ report.rewritten = 0

\* Step 3: the retired key is dropped.
DropRetired ==
    /\ NothingLeft /\ Cardinality(env.keys) > 1 /\ script.pc = "off"
    /\ env' = Keyring(env.current, {})
    /\ UNCHANGED <<stored, ring, script, report, written, writes, scripts>>

Next ==
    \/ NewKey \/ Select \/ Commit \/ Report \/ Killed \/ DropRetired
    \/ \E p \in Procs : Restart(p) \/ \E c \in Cells, t \in Texts \cup {None} : Write(p, c, t)
    \/ \E apply \in BOOLEAN : Start(apply)
    \/ \E r \in Rows : RotateRow(r)

Spec == Init /\ [][Next]_vars
-----------------------------------------------------------------------------
TypeOK ==
    /\ \A c \in Cells : stored[c] # None => stored[c].key \in 0..MaxKey /\ stored[c].text \in Texts
    /\ env.current \in env.keys /\ \A p \in Procs : ring[p].current \in ring[p].keys
    /\ script.pc \in {"off", "column", "row"} /\ script.todo \subseteq Rows
    /\ script.pending # {} => script.apply /\ script.pc = "row"

\* No credential is lost to a rotation: what the users last saved is what the
\* configured keys read, or still stands unencrypted, whatever the app wrote
\* between the script's read of a row and its update, and whenever a key was
\* dropped.
NothingLost ==
    \A c \in Cells : \/ Reads(env, stored[c]) = written[c]
                     \/ stored[c] # None /\ stored[c] = Value(Plain, written[c])

\* "Once it reports nothing left under a retired key, drop that key": nothing is,
\* though the report counts values that have changed since.
ReportHolds ==
    NothingLeft => \A c \in Cells : stored[c] # None => stored[c].key = env.current

\* What a rotation promises at rest.
RotationSound == TypeOK /\ NothingLost /\ ReportHolds
=============================================================================
