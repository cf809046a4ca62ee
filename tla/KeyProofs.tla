------------------------------ MODULE KeyProofs ------------------------------
(***************************************************************************)
(* Proofs about the keys and the companions: the credential keys           *)
(* (KeyRotation, whose names are used as they are), the keys of an         *)
(* encrypted account (V!), and the companions that encryption excludes     *)
(* (M!).  Each part declares its own constants and variables and stands by *)
(* itself.                                                                 *)
(***************************************************************************)
EXTENDS KeyRotation, TLAPS

\* KeyRotation, for any number of processes, columns, rows and keys.  A report
\* is about values read one column at a time while the app goes on writing
\* them, so the invariant says of every cell the run has passed, and of
\* every row it has read and not yet come to, what can have become of it.

\* The columns are numbered, and no value is None.
RotationAssumed ==
    /\ MaxKey \in Nat \ {0}
    /\ \E n \in Nat : Columns = 1..n
    /\ None \notin Texts
    /\ \A k \in Nat, t \in Texts : Value(k, t) # None

Keyrings == [current : 1..MaxKey, keys : SUBSET (1..MaxKey)]
Values == [key : 0..MaxKey, text : Texts]
Script == [pc : {"off", "column", "row"}, apply : BOOLEAN, ring : Keyrings \cup {None},
           ready : BOOLEAN, col : Nat, rows : {None} \cup [Rows -> Values \cup {None}],
           todo : SUBSET Rows, pending : SUBSET [cell : Cells, value : Values],
           rewritten : Nat, unreadable : Nat]
Reported == [apply : BOOLEAN, ready : BOOLEAN, rewritten : Nat, unreadable : Nat]

KeysTyped ==
    /\ env \in Keyrings /\ env.current \in env.keys
    /\ ring \in [Procs -> Keyrings] /\ \A p \in Procs : ring[p].current \in ring[p].keys
CellsTyped ==
    /\ stored \in [Cells -> Values \cup {None}]
    /\ written \in [Cells -> Texts \cup {None}]
ScriptTyped ==
    /\ script \in Script
    /\ report \in Reported \cup {None}

\* What is stored is what was last saved, under a key that is configured.
Kept(c) ==
    /\ stored[c] = None <=> written[c] = None
    /\ stored[c] # None => /\ stored[c].text = written[c]
                           /\ stored[c].key \in env.keys \cup {Plain}
AllKept == \A c \in Cells : Kept(c)

\* Every process writes under a configured key, and under the current one
\* from the time a run that found them all restarted has begun.
WritesUnder ==
    /\ \A p \in Procs : ring[p].current \in env.keys
    /\ script.pc # "off" /\ script.ready => \A p \in Procs : ring[p].current = env.current
    /\ report # None /\ report.ready => \A p \in Procs : ring[p].current = env.current

\* The run's own keys and place.
Running ==
    /\ script.pc # "off" => script.ring = env /\ script.col # 0
    /\ script.pc = "row" => /\ script.col \in Columns
                            /\ script.rows \in [Rows -> Values \cup {None}]
                            /\ \A r \in script.todo : script.rows[r] # None
    /\ script.pending # {} => script.pc = "row" /\ script.apply

\* An update of the open transaction stores what the cell holds, under the
\* current key.
Updates ==
    \A u \in script.pending : /\ u.value = Value(env.current, written[u.cell])
                              /\ written[u.cell] # None

\* A row read is still as it was read, or was since written under the
\* current key.
StillRead ==
    script.pc = "row" /\ script.ready =>
        \A r \in Rows : LET c == <<script.col, r>>
                        IN  stored[c] # None /\ stored[c].key # env.current
                               => stored[c] = script.rows[r]

\* The cells the run has passed are under the current key, or will be when
\* its transaction commits.
Passed(c) == \/ c[1] < script.col
             \/ script.pc = "row" /\ c[1] = script.col /\ c[2] \notin script.todo
Clean == script.ready /\ script.unreadable = 0 /\ (script.apply \/ script.rewritten = 0)
PassedCurrent ==
    script.pc # "off" /\ Clean =>
        \A c \in Cells : Passed(c) /\ stored[c] # None /\ ~Locked(c)
                            => stored[c].key = env.current

IInv == /\ KeysTyped /\ CellsTyped /\ ScriptTyped
        /\ AllKept /\ WritesUnder /\ Running /\ Updates /\ StillRead /\ PassedCurrent
        /\ ReportHolds

\* The columns are whole numbers from 1 up, so that a run which has left them
\* has passed them all.
LEMMA ColumnsNumbered ==
    ASSUME RotationAssumed
    PROVE  /\ Columns \subseteq Nat \ {0}
           /\ \A i \in Nat \ {0} : i \notin Columns => \A j \in Columns : j < i
  BY DEF RotationAssumed

\* No stored value is None.
LEMMA ValuesReal == RotationAssumed => None \notin Values
<1> SUFFICES ASSUME RotationAssumed, NEW v \in Values PROVE v # None OBVIOUS
<1>1. v = Value(v.key, v.text) /\ v.key \in Nat /\ v.text \in Texts
  BY DEF Values, Value, RotationAssumed
<1> QED BY <1>1 DEF RotationAssumed

\* The invariant holds at first: everything stands under the first key.
LEMMA InitIInv == RotationAssumed /\ Init => IInv
<1> SUFFICES ASSUME RotationAssumed, Init PROVE IInv OBVIOUS
<1>1. env = [current |-> 1, keys |-> {1}] /\ 1 \in 1..MaxKey
  BY DEF Init, Keyring, RotationAssumed
<1>2. KeysTyped BY <1>1 DEF Init, KeysTyped, Keyrings
<1>3. script.pc = "off" /\ script.ready = FALSE /\ script.pending = {} /\ report = None
  BY DEF Init, Off
<1>4. stored \in [Cells -> Values \cup {None}]
  BY DEF Init, Values, Value, Plain, RotationAssumed
<1>5. \A c \in Cells :
        stored[c] # None => stored[c].text \in Texts /\ stored[c].key \in {Plain, 1}
  BY DEF Init, Value
<1>6. CellsTyped BY <1>4, <1>5 DEF CellsTyped, Init
<1>7. script \in Script BY DEF Init, Off, Script
<1>8. ScriptTyped BY <1>3, <1>7 DEF ScriptTyped
<1>9. AllKept BY <1>1, <1>5 DEF AllKept, Kept, Init, RotationAssumed
<1>10. WritesUnder BY <1>1, <1>3 DEF WritesUnder, Init
<1>11. Running /\ Updates /\ StillRead /\ PassedCurrent /\ ReportHolds
  BY <1>3 DEF Running, Updates, StillRead, PassedCurrent, ReportHolds, NothingLeft
<1> QED BY <1>2, <1>6, <1>8, <1>9, <1>10, <1>11 DEF IInv

\* A user's write leaves what was read, passed and reported as the invariant
\* has it: the cell is written under a key its process is known to have.
LEMMA WriteStep ==
    ASSUME RotationAssumed, IInv, NEW p \in Procs, NEW c \in Cells, NEW t \in Texts \cup {None},
           Write(p, c, t)
    PROVE  IInv'
<1> DEFINE v == Bound(ring[p], t)
<1>1. /\ stored' = [stored EXCEPT ![c] = v] /\ written' = [written EXCEPT ![c] = t]
      /\ ~Locked(c) /\ UNCHANGED <<env, ring, script, report>>
  BY DEF Write
<1>2. ring[p] \in Keyrings /\ env \in Keyrings /\ ring[p].current \in env.keys
  BY DEF IInv, KeysTyped, WritesUnder
<1>3. t = None => v = None BY DEF Bound
<1>4. t # None => v \in Values /\ v # None /\ v.key = ring[p].current /\ v.text = t
  BY <1>2, ValuesReal DEF Bound, Value, Values, Keyrings, RotationAssumed
<1> HIDE DEF v
<1>5. KeysTyped' BY <1>1 DEF IInv, KeysTyped
<1>6. CellsTyped' BY <1>1, <1>3, <1>4 DEF IInv, CellsTyped
<1>7. ScriptTyped' BY <1>1 DEF IInv, ScriptTyped
<1>8. \A d \in Cells : /\ d # c => stored'[d] = stored[d] /\ written'[d] = written[d]
                       /\ stored'[c] = v /\ written'[c] = t
  BY <1>1 DEF IInv, CellsTyped
<1>9. AllKept' BY <1>1, <1>2, <1>3, <1>4, <1>8 DEF IInv, AllKept, Kept
<1>10. WritesUnder' BY <1>1 DEF IInv, WritesUnder
<1>11. Running' BY <1>1 DEF IInv, Running
<1>12. Updates'
  <2> SUFFICES ASSUME NEW u \in script.pending
               PROVE  u.value = Value(env.current, written'[u.cell]) /\ written'[u.cell] # None
    BY <1>1 DEF Updates
  <2>1. u.cell # c /\ u.cell \in Cells BY <1>1 DEF Locked, IInv, ScriptTyped, Script
  <2> QED BY <1>8, <2>1 DEF IInv, Updates
<1>13. StillRead'
  <2> SUFFICES ASSUME script.pc = "row", script.ready, NEW r \in Rows,
                      stored'[<<script.col, r>>] # None,
                      stored'[<<script.col, r>>].key # env.current
               PROVE  stored'[<<script.col, r>>] = script.rows[r]
    BY <1>1 DEF StillRead
  <2>1. ring[p].current = env.current BY DEF IInv, WritesUnder
  <2>2. <<script.col, r>> \in Cells BY DEF IInv, Running, Cells
  <2>3. <<script.col, r>> # c BY <1>3, <1>4, <1>8, <2>1
  <2> QED BY <1>8, <2>2, <2>3 DEF IInv, StillRead
<1>14. PassedCurrent'
  <2> SUFFICES ASSUME script.pc # "off", Clean, NEW d \in Cells, Passed(d), stored'[d] # None,
                      ~Locked(d)
               PROVE  stored'[d].key = env.current
    BY <1>1 DEF PassedCurrent, Clean, Passed, Locked
  <2>1. ring[p].current = env.current BY DEF IInv, WritesUnder, Clean
  <2> QED BY <1>3, <1>4, <1>8, <2>1 DEF IInv, PassedCurrent
<1>15. ReportHolds'
  <2> SUFFICES ASSUME NothingLeft, NEW d \in Cells, stored'[d] # None
               PROVE  stored'[d].key = env.current
    BY <1>1 DEF ReportHolds, NothingLeft
  <2>1. ring[p].current = env.current BY DEF IInv, WritesUnder, NothingLeft
  <2> QED BY <1>3, <1>4, <1>8, <2>1 DEF IInv, ReportHolds
<1> QED BY <1>5, <1>6, <1>7, <1>9, <1>10, <1>11, <1>12, <1>13, <1>14, <1>15 DEF IInv

\* The operator's steps: a key is added between runs and dropped only on a
\* report that says nothing is left under it; a process restarts at any time.
LEMMA OperatorStep ==
    ASSUME RotationAssumed, IInv, NewKey \/ DropRetired \/ \E p \in Procs : Restart(p)
    PROVE  IInv'
<1>1. CASE NewKey
  <2>1. /\ env' = [current |-> env.current + 1, keys |-> {env.current + 1} \cup env.keys]
        /\ report' = None /\ script.pc = "off" /\ env.current < MaxKey
        /\ UNCHANGED <<stored, ring, script, written>>
    BY <1>1 DEF NewKey, Keyring
  <2>2. env \in Keyrings /\ env.current \in env.keys BY DEF IInv, KeysTyped
  <2>3. env.current + 1 \in 1..MaxKey BY <2>1, <2>2 DEF Keyrings, RotationAssumed
  <2>4. env' \in Keyrings /\ env'.current \in env'.keys /\ env.keys \subseteq env'.keys
    BY <2>1, <2>2, <2>3 DEF Keyrings
  <2>5. KeysTyped' BY <2>1, <2>4 DEF IInv, KeysTyped
  <2>6. CellsTyped' BY <2>1 DEF IInv, CellsTyped
  <2>7. ScriptTyped' BY <2>1 DEF IInv, ScriptTyped
  <2>8. AllKept' BY <2>1, <2>4 DEF IInv, AllKept, Kept
  <2>9. WritesUnder' BY <2>1, <2>4 DEF IInv, WritesUnder
  <2>10. script'.pending = {} /\ script'.pc = "off" BY <2>1 DEF IInv, Running
  <2>11. Running' /\ Updates' /\ StillRead' /\ PassedCurrent' /\ ReportHolds'
    BY <2>1, <2>10 DEF Running, Updates, StillRead, PassedCurrent, ReportHolds, NothingLeft
  <2> QED BY <2>5, <2>6, <2>7, <2>8, <2>9, <2>11 DEF IInv
<1>2. CASE DropRetired
  <2>1. /\ env' = [current |-> env.current, keys |-> {env.current}]
        /\ NothingLeft /\ script.pc = "off"
        /\ UNCHANGED <<stored, ring, script, report, written>>
    BY <1>2 DEF DropRetired, Keyring
  <2>2. env \in Keyrings BY DEF IInv, KeysTyped
  <2>3. env' \in Keyrings /\ env'.current \in env'.keys /\ env'.current = env.current
    BY <2>1, <2>2 DEF Keyrings
  <2>4. KeysTyped' BY <2>1, <2>3 DEF IInv, KeysTyped
  <2>5. CellsTyped' BY <2>1 DEF IInv, CellsTyped
  <2>6. ScriptTyped' BY <2>1 DEF IInv, ScriptTyped
  <2>7. \A c \in Cells : stored[c] # None => stored[c].key = env.current
    BY <2>1 DEF IInv, ReportHolds
  <2>8. AllKept' BY <2>1, <2>7 DEF IInv, AllKept, Kept
  <2>9. \A p \in Procs : ring[p].current = env.current
    BY <2>1 DEF IInv, WritesUnder, NothingLeft
  <2>10. WritesUnder' BY <2>1, <2>3, <2>9 DEF WritesUnder
  <2>11. script'.pending = {} /\ script'.pc = "off" BY <2>1 DEF IInv, Running
  <2>12. Running' /\ Updates' /\ StillRead' /\ PassedCurrent'
    BY <2>11 DEF Running, Updates, StillRead, PassedCurrent
  <2>13. ReportHolds' BY <2>1, <2>3, <2>7 DEF ReportHolds
  <2> QED BY <2>4, <2>5, <2>6, <2>8, <2>10, <2>12, <2>13 DEF IInv
<1>3. ASSUME NEW p \in Procs, Restart(p) PROVE IInv'
  <2>1. ring' = [ring EXCEPT ![p] = env] /\ UNCHANGED <<stored, env, script, report, written>>
    BY <1>3 DEF Restart
  <2>2. KeysTyped' BY <2>1 DEF IInv, KeysTyped
  <2>3. WritesUnder' BY <2>1 DEF IInv, KeysTyped, WritesUnder
  <2>4. CellsTyped' /\ ScriptTyped' /\ AllKept'
    BY <2>1 DEF IInv, CellsTyped, ScriptTyped, AllKept, Kept
  <2>5. Running' /\ Updates' /\ StillRead' /\ PassedCurrent'
    BY <2>1 DEF IInv, Running, Updates, StillRead, PassedCurrent, Passed, Clean, Locked
  <2>6. ReportHolds' BY <2>1 DEF IInv, ReportHolds, NothingLeft
  <2> QED BY <2>2, <2>3, <2>4, <2>5, <2>6 DEF IInv
<1> QED BY <1>1, <1>2, <1>3

\* A run begins, reports, or is killed: no cell changes.
LEMMA RunStep ==
    ASSUME RotationAssumed, IInv,
           Report \/ Killed \/ \E apply \in BOOLEAN : Start(apply)
    PROVE  IInv'
<1>1. Off \in Script /\ Off.pc = "off" /\ Off.pending = {} BY DEF Off, Script
<1>2. UNCHANGED <<stored, env, ring, written>> BY DEF Report, Killed, Start
<1>3. KeysTyped' /\ CellsTyped' /\ AllKept'
  BY <1>2 DEF IInv, KeysTyped, CellsTyped, AllKept, Kept
<1>4. ASSUME NEW apply \in BOOLEAN, Start(apply) PROVE IInv'
  <2>1. /\ script' = [Off EXCEPT !.pc = "column", !.apply = apply, !.ring = env,
                                 !.ready = AllRestarted, !.col = 1]
        /\ report' = None
    BY <1>4 DEF Start
  <2>2. AllRestarted \in BOOLEAN BY Zenon DEF AllRestarted
  <2>3. env \in Keyrings BY DEF IInv, KeysTyped
  <2>4. script' \in Script BY <2>1, <2>2, <2>3 DEF Off, Script
  <2>5. /\ script'.pc = "column" /\ script'.ring = env /\ script'.col = 1
        /\ script'.pending = {} /\ script'.ready = AllRestarted
    BY <2>1 DEF Off
  <2>6. ScriptTyped' BY <2>1, <2>4 DEF ScriptTyped
  <2>7. WritesUnder' BY <1>2, <2>1, <2>5 DEF IInv, WritesUnder, AllRestarted
  <2>8. Running' /\ Updates' /\ StillRead' /\ ReportHolds'
    BY <1>2, <2>1, <2>5 DEF Running, Updates, StillRead, ReportHolds, NothingLeft
  <2>9. \A c \in Cells : ~Passed(c)'
    <3> SUFFICES ASSUME NEW c \in Cells PROVE ~(c[1] < 1) BY <2>5 DEF Passed
    <3> QED BY ColumnsNumbered DEF Cells
  <2>10. PassedCurrent' BY <2>9 DEF PassedCurrent
  <2> QED BY <1>3, <2>6, <2>7, <2>8, <2>10 DEF IInv
<1>5. CASE Killed
  <2>1. script' = Off /\ report' = report BY <1>5 DEF Killed
  <2>2. ScriptTyped' BY <1>1, <2>1 DEF IInv, ScriptTyped
  <2>3. WritesUnder' BY <1>1, <1>2, <2>1 DEF IInv, WritesUnder
  <2>4. Running' /\ Updates' /\ StillRead' /\ PassedCurrent'
    BY <1>1, <2>1 DEF Running, Updates, StillRead, PassedCurrent
  <2>5. ReportHolds' BY <1>2, <2>1 DEF IInv, ReportHolds, NothingLeft
  <2> QED BY <1>3, <2>2, <2>3, <2>4, <2>5 DEF IInv
<1>6. CASE Report
  <2>1. /\ script' = Off
        /\ report' = [apply |-> script.apply, ready |-> script.ready,
                      rewritten |-> script.rewritten, unreadable |-> script.unreadable]
        /\ script.pc = "column" /\ script.col \notin Columns
    BY <1>6 DEF Report
  <2>2. script \in Script BY DEF IInv, ScriptTyped
  <2>3. report' \in Reported BY <2>1, <2>2 DEF Script, Reported
  <2>4. ScriptTyped' BY <1>1, <2>1, <2>3 DEF ScriptTyped
  <2>5. report'.ready = script.ready /\ report'.apply = script.apply
        /\ report'.rewritten = script.rewritten /\ report'.unreadable = script.unreadable
    BY <2>1
  <2>6. WritesUnder' BY <1>1, <1>2, <2>1, <2>5 DEF IInv, WritesUnder
  <2>7. Running' /\ Updates' /\ StillRead' /\ PassedCurrent'
    BY <1>1, <2>1 DEF Running, Updates, StillRead, PassedCurrent
  <2>8. \A c \in Cells : Passed(c) /\ ~Locked(c)
    <3>1. script.col \in Nat \ {0} BY <2>1, <2>2 DEF IInv, Running, Script
    <3>2. script.pending = {} BY <2>1 DEF IInv, Running
    <3> QED BY <2>1, <3>1, <3>2, ColumnsNumbered DEF Passed, Locked, Cells
  <2>9. NothingLeft' => Clean BY <2>5 DEF NothingLeft, Clean
  <2>10. ReportHolds' BY <1>2, <2>1, <2>8, <2>9 DEF IInv, PassedCurrent, ReportHolds
  <2> QED BY <1>3, <2>4, <2>6, <2>7, <2>10 DEF IInv
<1> QED BY <1>4, <1>5, <1>6

\* The rows of a column are read: nothing of it has been passed but what is
\* not there.
LEMMA SelectStep == ASSUME RotationAssumed, IInv, Select PROVE IInv'
<1> DEFINE rows == [r \in Rows |-> stored[<<script.col, r>>]]
           todo == {r \in Rows : stored[<<script.col, r>>] # None}
<1>1. /\ script' = [script EXCEPT !.pc = "row", !.rows = rows, !.todo = todo]
      /\ script.pc = "column" /\ script.col \in Columns
      /\ UNCHANGED <<stored, env, ring, report, written>>
  BY DEF Select
<1>2. script \in Script BY DEF IInv, ScriptTyped
<1>3. \A r \in Rows : <<script.col, r>> \in Cells BY <1>1 DEF Cells
<1>4. rows \in [Rows -> Values \cup {None}] BY <1>3 DEF IInv, CellsTyped
<1>5. /\ \A r \in Rows : rows[r] = stored[<<script.col, r>>]
      /\ todo = {r \in Rows : rows[r] # None}
  OBVIOUS
<1> HIDE DEF rows, todo
<1>6. script' \in Script BY <1>1, <1>2, <1>4, <1>5 DEF Script
<1>7. /\ script'.pc = "row" /\ script'.rows = rows /\ script'.todo = todo
      /\ script'.apply = script.apply /\ script'.ring = script.ring
      /\ script'.ready = script.ready /\ script'.col = script.col
      /\ script'.pending = script.pending /\ script'.rewritten = script.rewritten
      /\ script'.unreadable = script.unreadable
  BY <1>1, <1>2 DEF Script
<1>8. KeysTyped' /\ CellsTyped' /\ AllKept'
  BY <1>1 DEF IInv, KeysTyped, CellsTyped, AllKept, Kept
<1>9. ScriptTyped' BY <1>1, <1>6 DEF IInv, ScriptTyped
<1>10. WritesUnder' BY <1>1, <1>7 DEF IInv, WritesUnder
<1>11. Running' BY <1>1, <1>4, <1>5, <1>7 DEF IInv, Running
<1>12. Updates' BY <1>1, <1>7 DEF IInv, Updates
<1>13. StillRead' BY <1>1, <1>5, <1>7 DEF StillRead
<1>14. PassedCurrent'
  <2> SUFFICES ASSUME Clean, NEW c \in Cells, Passed(c)', stored[c] # None, ~Locked(c)
               PROVE  stored[c].key = env.current
    BY <1>1, <1>7 DEF PassedCurrent, Clean, Locked
  <2>1. c = <<c[1], c[2]>> /\ c[2] \in Rows BY DEF Cells
  <2>2. c[1] < script.col BY <1>5, <1>7, <2>1 DEF Passed
  <2> QED BY <1>1, <2>2 DEF IInv, PassedCurrent, Passed
<1>15. ReportHolds' BY <1>1 DEF IInv, ReportHolds, NothingLeft
<1> QED BY <1>8, <1>9, <1>10, <1>11, <1>12, <1>13, <1>14, <1>15 DEF IInv

\* A row: what is rewritten holds what the user saved, and a row that is not
\* rewritten is current already, was written since, or is counted.
LEMMA RowStep == ASSUME RotationAssumed, IInv, NEW r \in Rows, RotateRow(r) PROVE IInv'
<1> DEFINE old == script.rows[r]
           c == <<script.col, r>>
           text == Plaintext(script.ring, old)
           current == IsCurrent(script.ring, old)
           rewrite == ~current /\ text # None
           does == rewrite /\ script.apply /\ Replaces(c, old)
           pending == IF does
                      THEN script.pending
                             \cup {[cell |-> c, value |-> Bound(script.ring, text)]}
                      ELSE script.pending
           rewritten == script.rewritten + (IF rewrite THEN 1 ELSE 0)
           unreadable == script.unreadable + (IF current \/ rewrite THEN 0 ELSE 1)
<1>1. /\ script' = [script EXCEPT !.todo = script.todo \ {r}, !.rewritten = rewritten,
                                  !.unreadable = unreadable, !.pending = pending]
      /\ script.pc = "row" /\ r \in script.todo
      /\ UNCHANGED <<stored, env, ring, report, written>>
  BY DEF RotateRow
<1>2. script \in Script BY DEF IInv, ScriptTyped
<1>3. /\ script.ring = env /\ script.col \in Columns /\ old \in Values /\ old # None
      /\ c \in Cells
  BY <1>1 DEF IInv, Running, Cells
<1>4. does => /\ text = written[c] /\ written[c] # None
              /\ Bound(script.ring, text) = Value(env.current, written[c])
              /\ Value(env.current, written[c]) \in Values
  <2> SUFFICES ASSUME does PROVE text = written[c] /\ written[c] # None
                                 /\ Bound(script.ring, text) = Value(env.current, written[c])
                                 /\ Value(env.current, written[c]) \in Values
    OBVIOUS
  <2>1. stored[c] = old /\ text # None BY DEF Replaces
  <2>2. old.text = written[c] BY <1>3, <2>1 DEF IInv, AllKept, Kept
  <2>3. text = old.text BY <2>1 DEF Plaintext, Reads
  <2>4. env \in Keyrings BY DEF IInv, KeysTyped
  <2>5. old.text \in Texts BY <1>3 DEF Values
  <2> QED BY <1>3, <2>1, <2>2, <2>3, <2>4, <2>5
          DEF Bound, Value, Values, Keyrings, RotationAssumed
<1>5. pending \in SUBSET [cell : Cells, value : Values]
  <2>1. script.pending \in SUBSET [cell : Cells, value : Values] BY <1>2 DEF Script
  <2> QED BY <1>3, <1>4, <2>1
<1>6. /\ rewritten \in Nat /\ unreadable \in Nat
      /\ unreadable = 0 => script.unreadable = 0 /\ (current \/ rewrite)
      /\ rewritten = 0 => script.rewritten = 0 /\ ~rewrite
  <2>1. script.rewritten \in Nat /\ script.unreadable \in Nat BY <1>2 DEF Script
  <2> HIDE DEF current, rewrite
  <2> QED BY <2>1
<1>7. \A u \in pending : \/ u \in script.pending
                         \/ does /\ u.cell = c /\ u.value = Value(env.current, written[c])
  BY <1>4
<1>8. does => \E u \in pending : u.cell = c
  <2> DEFINE x == [cell |-> c, value |-> Bound(script.ring, text)]
  <2>1. x.cell = c OBVIOUS
  <2>2. does => x \in pending OBVIOUS
  <2> HIDE DEF x, does, pending
  <2> QED BY <2>1, <2>2
<1>9. script.pending \subseteq pending OBVIOUS
<1>10. current => old.key = env.current BY <1>3 DEF IsCurrent
<1>11. rewrite /\ script.apply /\ ~does => stored[c] # old BY DEF Replaces
<1>12. does => script.apply /\ rewrite OBVIOUS
<1> HIDE DEF old, c, text, current, rewrite, does, pending, rewritten, unreadable
<1>13. script' \in Script
  <2>1. script.todo \ {r} \in SUBSET Rows BY <1>2 DEF Script
  <2> QED BY <1>1, <1>2, <1>5, <1>6, <2>1 DEF Script
<1>14. /\ script'.pc = "row" /\ script'.rows = script.rows /\ script'.todo = script.todo \ {r}
       /\ script'.apply = script.apply /\ script'.ring = script.ring
       /\ script'.ready = script.ready /\ script'.col = script.col
       /\ script'.pending = pending /\ script'.rewritten = rewritten
       /\ script'.unreadable = unreadable
  BY <1>1, <1>2 DEF Script
<1>15. KeysTyped' /\ CellsTyped' /\ AllKept'
  BY <1>1 DEF IInv, KeysTyped, CellsTyped, AllKept, Kept
<1>16. ScriptTyped' BY <1>1, <1>13 DEF IInv, ScriptTyped
<1>17. WritesUnder' BY <1>1, <1>14 DEF IInv, WritesUnder
<1>18. Running'
  <2>1. pending # {} => script.apply BY <1>7, <1>12 DEF IInv, Running
  <2> QED BY <1>1, <1>14, <2>1 DEF IInv, Running
<1>19. Updates' BY <1>1, <1>4, <1>7, <1>14 DEF IInv, Updates
<1>20. StillRead' BY <1>1, <1>14 DEF IInv, StillRead
<1>21. PassedCurrent'
  <2> SUFFICES ASSUME Clean', NEW d \in Cells, Passed(d)', stored[d] # None, ~Locked(d)'
               PROVE  stored[d].key = env.current
    BY <1>1, <1>14 DEF PassedCurrent
  <2>1. Clean /\ (current \/ rewrite) /\ (script.apply \/ ~rewrite) /\ script.ready
    BY <1>6, <1>14 DEF Clean
  <2>2. ~Locked(d) BY <1>9, <1>14 DEF Locked
  <2>3. CASE Passed(d) BY <1>1, <2>1, <2>2, <2>3 DEF IInv, PassedCurrent
  <2>4. CASE ~Passed(d)
    <3>1. d[1] = script.col /\ d[2] = r /\ d = <<d[1], d[2]>>
      BY <1>1, <1>14, <2>4 DEF Passed, Cells
    <3>2. d = c BY <3>1 DEF c
    <3>3. stored[c] # None /\ stored[c].key # env.current => stored[c] = old
      BY <1>1, <2>1 DEF IInv, StillRead, c, old
    <3>4. CASE current BY <1>10, <3>2, <3>3, <3>4
    <3>5. CASE rewrite
      <4>1. ~does BY <1>8, <1>14, <3>2 DEF Locked
      <4> QED BY <1>11, <2>1, <3>2, <3>3, <3>5, <4>1
    <3> QED BY <2>1, <3>4, <3>5
  <2> QED BY <2>3, <2>4
<1>22. ReportHolds' BY <1>1 DEF IInv, ReportHolds, NothingLeft
<1> QED BY <1>15, <1>16, <1>17, <1>18, <1>19, <1>20, <1>21, <1>22 DEF IInv

\* The column's transaction commits: every update is under the current key
\* and holds what the user saved.
LEMMA CommitStep == ASSUME RotationAssumed, IInv, Commit PROVE IInv'
<1>1. /\ stored' = [c \in Cells |-> IF Locked(c)
                                    THEN (CHOOSE u \in script.pending : u.cell = c).value
                                    ELSE stored[c]]
      /\ script' = [script EXCEPT !.pc = "column", !.col = script.col + 1, !.rows = None,
                                  !.pending = {}]
      /\ script.pc = "row" /\ script.todo = {}
      /\ UNCHANGED <<env, ring, report, written>>
  BY DEF Commit
<1>2. script \in Script BY DEF IInv, ScriptTyped
<1>3. script' \in Script
  <2>1. script.col + 1 \in Nat BY <1>2 DEF Script
  <2>2. {} \in SUBSET [cell : Cells, value : Values] OBVIOUS
  <2> QED BY <1>1, <1>2, <2>1, <2>2 DEF Script
<1>4. /\ script'.pc = "column" /\ script'.col = script.col + 1 /\ script'.pending = {}
      /\ script'.apply = script.apply /\ script'.ring = script.ring
      /\ script'.ready = script.ready /\ script'.rewritten = script.rewritten
      /\ script'.unreadable = script.unreadable
  BY <1>1, <1>2 DEF Script
<1>5. ASSUME NEW c \in Cells, Locked(c)
      PROVE  stored'[c] = Value(env.current, written[c]) /\ written[c] # None
  <2>1. PICK u \in script.pending : u.cell = c BY <1>5 DEF Locked
  <2> DEFINE w == CHOOSE x \in script.pending : x.cell = c
  <2>2. w \in script.pending /\ w.cell = c BY <2>1
  <2>3. stored'[c] = w.value BY <1>1, <1>5
  <2> HIDE DEF w
  <2> QED BY <2>2, <2>3 DEF IInv, Updates
<1>6. \A c \in Cells : ~Locked(c) => stored'[c] = stored[c] BY <1>1
<1>7. env \in Keyrings /\ env.current \in env.keys BY DEF IInv, KeysTyped
<1>8. ASSUME NEW c \in Cells, Locked(c)
      PROVE  /\ stored'[c] \in Values /\ stored'[c] # None
             /\ stored'[c].key = env.current /\ stored'[c].text = written[c]
  <2>1. written[c] \in Texts /\ written[c] # None BY <1>5, <1>8 DEF IInv, CellsTyped
  <2>2. Value(env.current, written[c]) \in Values
    BY <1>7, <2>1 DEF Value, Values, Keyrings, RotationAssumed
  <2> QED BY <1>5, <1>8, <2>2, ValuesReal DEF Value
<1>9. KeysTyped' BY <1>1 DEF IInv, KeysTyped
<1>10. CellsTyped' BY <1>1, <1>6, <1>8 DEF IInv, CellsTyped
<1>11. ScriptTyped' BY <1>1, <1>3 DEF IInv, ScriptTyped
<1>12. AllKept' BY <1>1, <1>5, <1>6, <1>7, <1>8 DEF IInv, AllKept, Kept
<1>13. WritesUnder' BY <1>1, <1>4 DEF IInv, WritesUnder
<1>14. Running'
  <2>1. script.col + 1 # 0 BY <1>2 DEF Script
  <2> QED BY <1>1, <1>4, <2>1 DEF IInv, Running
<1>15. Updates' /\ StillRead' BY <1>4 DEF Updates, StillRead
<1>16. PassedCurrent'
  <2> SUFFICES ASSUME Clean, NEW c \in Cells, c[1] < script.col + 1, stored'[c] # None
               PROVE  stored'[c].key = env.current
    BY <1>1, <1>4 DEF PassedCurrent, Clean, Passed
  <2>1. CASE Locked(c) BY <1>8, <2>1
  <2>2. CASE ~Locked(c)
    <3>1. script.col \in Nat /\ c[1] \in Nat BY <1>2, ColumnsNumbered DEF Script, Cells
    <3>2. Passed(c) BY <1>1, <3>1 DEF Passed
    <3> QED BY <1>1, <1>6, <2>2, <3>2 DEF IInv, PassedCurrent
  <2> QED BY <2>1, <2>2
<1>17. ReportHolds' BY <1>1, <1>6, <1>8 DEF IInv, ReportHolds, NothingLeft
<1> QED BY <1>9, <1>10, <1>11, <1>12, <1>13, <1>14, <1>15, <1>16, <1>17 DEF IInv

\* Every step keeps the invariant.
LEMMA StepIInv == ASSUME RotationAssumed, IInv, [Next]_vars PROVE IInv'
<1>1. CASE UNCHANGED vars
  <2>1. UNCHANGED <<stored, env, ring, script, report, written>> BY <1>1 DEF vars
  <2>2. KeysTyped' /\ CellsTyped' /\ ScriptTyped' /\ AllKept' /\ WritesUnder'
    BY <2>1 DEF IInv, KeysTyped, CellsTyped, ScriptTyped, AllKept, Kept, WritesUnder
  <2>3. Running' /\ Updates' /\ StillRead' /\ PassedCurrent'
    BY <2>1 DEF IInv, Running, Updates, StillRead, PassedCurrent, Passed, Clean, Locked
  <2>4. ReportHolds' BY <2>1 DEF IInv, ReportHolds, NothingLeft
  <2> QED BY <2>2, <2>3, <2>4 DEF IInv
<1>2. CASE Next
  BY <1>2, WriteStep, OperatorStep, RunStep, SelectStep, RowStep, CommitStep DEF Next
<1> QED BY <1>1, <1>2

\* The properties follow.
LEMMA IInvSound == IInv => RotationSound
<1> SUFFICES ASSUME IInv PROVE RotationSound OBVIOUS
<1>1. TypeOK
  <2>1. \A c \in Cells : stored[c] # None => stored[c].key \in 0..MaxKey
                                            /\ stored[c].text \in Texts
    BY DEF IInv, CellsTyped, Values
  <2>2. env.current \in env.keys /\ \A p \in Procs : ring[p].current \in ring[p].keys
    BY DEF IInv, KeysTyped
  <2>3. script.pc \in {"off", "column", "row"} /\ script.todo \subseteq Rows
    BY DEF IInv, ScriptTyped, Script
  <2>4. script.pending # {} => script.apply /\ script.pc = "row" BY DEF IInv, Running
  <2> QED BY <2>1, <2>2, <2>3, <2>4 DEF TypeOK
<1>2. NothingLost
  <2> SUFFICES ASSUME NEW c \in Cells
               PROVE  \/ Reads(env, stored[c]) = written[c]
                      \/ stored[c] # None /\ stored[c] = Value(Plain, written[c])
    BY DEF NothingLost
  <2>1. stored[c] \in Values \cup {None} /\ Kept(c) BY DEF IInv, CellsTyped, AllKept
  <2>2. CASE stored[c] = None BY <2>1, <2>2 DEF Reads, Kept
  <2>3. CASE stored[c] # None
    <3>1. stored[c] = Value(stored[c].key, stored[c].text) BY <2>1, <2>3 DEF Values, Value
    <3> QED BY <2>1, <2>3, <3>1 DEF Reads, Decrypts, Kept
  <2> QED BY <2>2, <2>3
<1> QED BY <1>1, <1>2 DEF RotationSound, IInv

\* No credential is lost to a rotation and the report can be relied on, for
\* any number of processes, rows, columns, keys and runs of the script.
THEOREM RotationHolds == ASSUME RotationAssumed PROVE Spec => []RotationSound
<1>1. Init => IInv BY InitIInv
<1>2. IInv /\ [Next]_vars => IInv' BY StepIInv
<1> QED BY <1>1, <1>2, IInvSound, PTL DEF Spec
-----------------------------------------------------------------------------
CONSTANTS Devices, MaxKeys
VARIABLES enabled, devices, wraps, client, made, saved, raced
V == INSTANCE KeyVault

\* KeyVault.  For any number of devices and recovery keys.

\* The tables, and what a client is doing.
VaultTyped ==
    /\ enabled \in BOOLEAN /\ raced \in BOOLEAN
    /\ devices \in [Devices -> Devices \cup {"none", "pending"}]
    /\ \A w \in wraps : w = [wrap |-> w.wrap, confirmed |-> w.confirmed]
    /\ \A w \in wraps : w.confirmed \in BOOLEAN
    /\ client = [d \in Devices |-> [pc |-> client[d].pc, shows |-> client[d].shows]]

\* Only one device's enable went through alone: while encryption is off no
\* device holds a key, and once it is on no other enable is under way and
\* every device that holds a key holds the same one.
OneEnable ==
    ~raced =>
      /\ ~enabled => \A d \in Devices : devices[d] \notin Devices
      /\ enabled => \A d \in Devices : client[d].pc # "enable"
      /\ \A d, e \in Devices : devices[d] \in Devices /\ devices[e] \in Devices
                                => devices[d] = devices[e]

\* The inductive invariant.
VaultInv == VaultTyped /\ V!ConfirmedIsSaved /\ OneEnable

\* It holds initially,
LEMMA InitVaultInv == ASSUME {"none", "pending"} \cap Devices = {} PROVE V!Init => VaultInv
<1> SUFFICES ASSUME V!Init PROVE VaultInv OBVIOUS
<1>1. \A d \in Devices : client[d] = [pc |-> "idle", shows |-> None] BY DEF V!Init, V!Idle
<1>2. client = [d \in Devices |-> [pc |-> client[d].pc, shows |-> client[d].shows]]
  BY <1>1 DEF V!Init, V!Idle
<1>3. enabled \in BOOLEAN /\ raced \in BOOLEAN BY Zenon DEF V!Init
<1>4. VaultTyped BY <1>2, <1>3 DEF V!Init, VaultTyped
<1> QED BY <1>4 DEF V!Init, VaultInv, V!ConfirmedIsSaved, OneEnable

\* and every step keeps it and every confirmed key.
LEMMA StepVaultInv ==
    ASSUME {"none", "pending"} \cap Devices = {}, VaultInv, [V!Next]_(V!vars)
    PROVE  VaultInv' /\ V!StaysConfirmed
<1> USE DEF VaultInv, VaultTyped, V!ConfirmedIsSaved, OneEnable, V!StaysConfirmed
<1>1. CASE UNCHANGED V!vars BY <1>1 DEF V!vars
<1>2. ASSUME NEW d \in Devices, V!AskEnable(d) PROVE VaultInv' /\ V!StaysConfirmed
  BY <1>2 DEF V!AskEnable, V!Idle
<1>3. ASSUME NEW d \in Devices, V!WriteEnable(d) PROVE VaultInv' /\ V!StaysConfirmed
  <2>1. VaultTyped'
    <3>1. enabled' \in BOOLEAN /\ raced' \in BOOLEAN BY <1>3, Zenon DEF V!WriteEnable
    <3>2. devices' \in [Devices -> Devices \cup {"none", "pending"}] BY <1>3 DEF V!WriteEnable
    <3>3. client' = [e \in Devices |-> [pc |-> client'[e].pc, shows |-> client'[e].shows]]
      BY <1>3 DEF V!WriteEnable
    <3>4. ASSUME NEW w \in wraps'
          PROVE  w = [wrap |-> w.wrap, confirmed |-> w.confirmed] /\ w.confirmed \in BOOLEAN
      <4>1. CASE w \in wraps BY <4>1
      <4>2. CASE w = [wrap |-> V!Wrap(d), confirmed |-> FALSE]
        <5>1. w.wrap = V!Wrap(d) /\ w.confirmed = FALSE BY <4>2
        <5> QED BY <4>2, <5>1
      <4> QED BY <1>3, <4>1, <4>2 DEF V!WriteEnable
    <3> QED BY <3>1, <3>2, <3>3, <3>4
  <2>2. V!ConfirmedIsSaved' /\ V!StaysConfirmed BY <1>3 DEF V!WriteEnable
  <2>3. OneEnable' BY <1>3 DEF V!WriteEnable
  <2> QED BY <2>1, <2>2, <2>3
<1>4. ASSUME NEW d \in Devices, V!Register(d) PROVE VaultInv' /\ V!StaysConfirmed
  BY <1>4 DEF V!Register
<1>5. ASSUME NEW d \in Devices, V!Replace(d) PROVE VaultInv' /\ V!StaysConfirmed
  <2>1. \A w \in wraps' : \E u \in wraps :
            w = IF V!Replaceable(u) THEN [u EXCEPT !.wrap = V!Wrap(d)] ELSE u
    BY <1>5 DEF V!Replace
  <2>2. VaultTyped'
    <3>1. ASSUME NEW w \in wraps'
          PROVE  w = [wrap |-> w.wrap, confirmed |-> w.confirmed] /\ w.confirmed \in BOOLEAN
      <4>1. PICK u \in wraps : w = IF V!Replaceable(u) THEN [u EXCEPT !.wrap = V!Wrap(d)] ELSE u
        BY <2>1
      <4>2. u = [wrap |-> u.wrap, confirmed |-> u.confirmed] /\ u.confirmed \in BOOLEAN OBVIOUS
      <4> QED BY <4>1, <4>2
    <3>2. client' = [e \in Devices |-> [pc |-> client'[e].pc, shows |-> client'[e].shows]]
      BY <1>5 DEF V!Replace
    <3>3. UNCHANGED <<enabled, raced, devices>> BY <1>5 DEF V!Replace
    <3> QED BY <3>1, <3>2, <3>3
  <2>3. V!ConfirmedIsSaved' BY <1>5, <2>1 DEF V!Replace, V!Replaceable
  <2>4. V!StaysConfirmed BY <1>5 DEF V!Replace, V!Replaceable
  <2>5. OneEnable' BY <1>5 DEF V!Replace
  <2> QED BY <2>2, <2>3, <2>4, <2>5
<1>6. ASSUME NEW d \in Devices, V!Save(d) PROVE VaultInv' /\ V!StaysConfirmed BY <1>6 DEF V!Save
<1>7. ASSUME NEW d \in Devices, V!Confirm(d) PROVE VaultInv' /\ V!StaysConfirmed
  <2> DEFINE s == client[d].shows
  <2>1. \A w \in wraps' : \E u \in wraps :
            w = IF u.wrap = s THEN [u EXCEPT !.confirmed = TRUE] ELSE u
    BY <1>7 DEF V!Confirm, V!Confirms
  <2>2. VaultTyped'
    <3>1. ASSUME NEW w \in wraps'
          PROVE  w = [wrap |-> w.wrap, confirmed |-> w.confirmed] /\ w.confirmed \in BOOLEAN
      <4>1. PICK u \in wraps : w = IF u.wrap = s THEN [u EXCEPT !.confirmed = TRUE] ELSE u
        BY <2>1
      <4>2. u = [wrap |-> u.wrap, confirmed |-> u.confirmed] /\ u.confirmed \in BOOLEAN OBVIOUS
      <4> QED BY <4>1, <4>2
    <3>2. client' = [e \in Devices |-> [pc |-> client'[e].pc, shows |-> client'[e].shows]]
      BY <1>7 DEF V!Confirm
    <3>3. UNCHANGED <<enabled, raced, devices>> BY <1>7 DEF V!Confirm
    <3> QED BY <3>1, <3>2, <3>3
  <2>3. V!ConfirmedIsSaved' BY <1>7, <2>1 DEF V!Confirm
  <2>4. V!StaysConfirmed
    <3> SUFFICES ASSUME NEW w \in wraps, w.confirmed PROVE w \in wraps' OBVIOUS
    <3>1. w.confirmed = TRUE OBVIOUS
    <3>2. w = [w EXCEPT !.confirmed = TRUE] BY <3>1
    <3> QED BY <1>7, <3>2 DEF V!Confirm, V!Confirms
  <2>5. OneEnable' BY <1>7 DEF V!Confirm
  <2> QED BY <2>2, <2>3, <2>4, <2>5
<1>8. ASSUME NEW d \in Devices, NEW e \in Devices, V!Approve(d, e) PROVE VaultInv' /\ V!StaysConfirmed
  BY <1>8 DEF V!Approve
<1> QED BY <1>1, <1>2, <1>3, <1>4, <1>5, <1>6, <1>7, <1>8 DEF V!Next

\* What the recovery flow promises follows.
LEMMA VaultInvSound == VaultInv => V!RecoverySound
BY DEF VaultInv, OneEnable, V!RecoverySound, V!OneContentKey

\* Whatever devices enable, register, approve, replace and confirm at the
\* same time, a key recorded as saved is one the user kept, and devices
\* hold one content key unless two enables overlapped.  The device names
\* are no status of a device row.
THEOREM RecoveryHolds ==
    ASSUME {"none", "pending"} \cap Devices = {} PROVE V!Spec => []V!RecoverySound
<1>1. VaultInv => V!RecoverySound BY VaultInvSound
<1>2. V!Init => VaultInv BY InitVaultInv
<1>3. VaultInv /\ [V!Next]_(V!vars) => VaultInv' BY StepVaultInv
<1> QED BY <1>1, <1>2, <1>3, PTL DEF V!Spec

\* replace_recovery_key never overwrites a confirmed key.
THEOREM ConfirmedNeverReplaced ==
    ASSUME {"none", "pending"} \cap Devices = {} PROVE V!Spec => V!ConfirmedStays
<1>1. V!Init => VaultInv BY InitVaultInv
<1>2. VaultInv /\ [V!Next]_(V!vars) => VaultInv' /\ [V!StaysConfirmed]_(V!vars) BY StepVaultInv
<1> QED BY <1>1, <1>2, PTL DEF V!Spec, V!ConfirmedStays
-----------------------------------------------------------------------------
CONSTANTS Owner, Users, Roles, Links, Acts, MaxInvites
VARIABLES sealed, verified, member, link, pending, act, invites, crossing
M == INSTANCE Companions WITH Reqs <- Acts, req <- act, encrypted <- sealed, raced <- crossing

\* Companions.  For any number of accounts, links and requests: a decision
\* is written after the rows it was made on have changed, so what the
\* roles promise has to hold of the decisions under way as well.

\* The roles of VALID_ROLES, none of them the owner's.
RolesAssumed == Roles \subseteq {"viewer", "editor", "co-owner"} /\ Owner \notin Users

Invite == [role : Roles, by : Users \cup {Owner}, taken : BOOLEAN]
Asked == {M!Idle, [pc |-> "enable"]}
         \cup [pc : {"link"}, token : Links, row : M!Row]
         \cup [pc : {"pending"}, to : Users, row : Invite]
         \cup [pc : {"join"}, user : Users, isnew : BOOLEAN, taking : BOOLEAN, row : M!Row]
         \cup [pc : {"remove"}, user : Users]
Written == {"link", "pending", "join"}

RolesTyped ==
    /\ M!TypeOK
    /\ pending \in [Users -> Invite \cup {None}]
    /\ act \in [Acts -> Asked]

\* Co-ownership from the owner alone, in what is stored and in what is
\* about to be.
Given(x) == x.role = "co-owner" => x.by = Owner
AllGiven ==
    /\ \A u \in Users : member[u] # None => Given(member[u])
    /\ \A t \in Links : link[t] # None => Given(link[t])
    /\ \A u \in Users : pending[u] # None => Given(pending[u])
    /\ \A r \in Acts : act[r].pc \in Written => Given(act[r].row)

\* With encryption on and no race, nobody is in and nobody is coming.
NobodyComes ==
    sealed /\ ~crossing => /\ \A u \in Users : member[u] = None
                           /\ \A r \in Acts : act[r].pc # "join"

RolesInv == RolesTyped /\ AllGiven /\ NobodyComes

\* Only the owner may do what the owner may.
LEMMA OnlyOwner ==
    ASSUME RolesAssumed, M!TypeOK, NEW u \in Users \cup {Owner}, M!MayAct(u, "owner")
    PROVE  u = Owner
<1> SUFFICES ASSUME u # Owner PROVE FALSE OBVIOUS
<1>1. u \in Users /\ member[u] # None /\ M!Rank(member[u].role) >= M!Rank("owner")
  BY DEF M!MayAct
<1>2. member[u] \in M!Row BY <1>1 DEF M!TypeOK
<1>3. member[u].role \in {"viewer", "editor", "co-owner"} BY <1>2 DEF M!Row, RolesAssumed
<1> QED BY <1>1, <1>3 DEF M!Rank

\* The invariant holds at first: nobody is in and nothing is under way.
LEMMA InitRolesInv == M!Init => RolesInv
<1> SUFFICES ASSUME M!Init PROVE RolesInv OBVIOUS
<1>1. RolesTyped BY DEF M!Init, RolesTyped, M!TypeOK, Asked
<1>2. \A r \in Acts : act[r].pc = "idle" BY DEF M!Init, M!Idle
<1> QED BY <1>1, <1>2 DEF M!Init, RolesInv, AllGiven, NobodyComes, Written

\* A request that decides to write a row decides on a sound one.
LEMMA AskStep ==
    ASSUME RolesAssumed, RolesInv, NEW r \in Acts, NEW d \in Asked, M!Ask(r, d),
           d.pc \in Written => Given(d.row), d.pc = "join" => ~sealed
    PROVE  RolesInv'
<1>1. /\ act' = [act EXCEPT ![r] = d]
      /\ UNCHANGED <<sealed, verified, member, link, pending, crossing>>
  BY DEF M!Ask
<1>2. RolesTyped' BY <1>1 DEF RolesInv, RolesTyped, M!TypeOK
<1>3. AllGiven' BY <1>1 DEF RolesInv, RolesTyped, AllGiven
<1>4. NobodyComes' BY <1>1 DEF RolesInv, RolesTyped, NobodyComes
<1> QED BY <1>2, <1>3, <1>4 DEF RolesInv

\* Every step keeps the invariant.
LEMMA StepRolesInv ==
    ASSUME RolesAssumed, RolesInv, [M!Next]_(M!vars)
    PROVE  RolesInv'
<1> M!TypeOK BY DEF RolesInv, RolesTyped
<1>1. CASE UNCHANGED M!vars
  BY <1>1 DEF M!vars, RolesInv, RolesTyped, M!TypeOK, AllGiven, NobodyComes
<1>2. ASSUME NEW r \in Acts, NEW u \in Users \cup {Owner}, NEW role \in Roles,
             NEW t \in Links,
             M!AskLink(r, u, role, t)
      PROVE  RolesInv'
  <2> DEFINE d == [pc |-> "link", token |-> t, row |-> [role |-> role, by |-> u]]
  <2>1. d \in Asked BY DEF Asked, M!Row
  <2>2. role = "co-owner" => u = Owner BY <1>2, OnlyOwner DEF M!AskLink, M!MayInvite
  <2>3. Given(d.row) BY <2>2 DEF Given
  <2>4. M!Ask(r, d) BY <1>2 DEF M!AskLink
  <2>5. d.pc = "link" OBVIOUS
  <2> HIDE DEF d
  <2> QED BY <2>1, <2>3, <2>4, <2>5, AskStep
<1>3. ASSUME NEW r \in Acts, NEW u \in Users \cup {Owner}, NEW role \in Roles, NEW to \in Users,
             M!AskPending(r, u, role, to)
      PROVE  RolesInv'
  <2> DEFINE d == [pc |-> "pending", to |-> to,
                   row |-> [role |-> role, by |-> u, taken |-> FALSE]]
  <2>1. d \in Asked BY DEF Asked, Invite
  <2>2. role = "co-owner" => u = Owner BY <1>3, OnlyOwner DEF M!AskPending, M!MayInvite
  <2>3. Given(d.row) BY <2>2 DEF Given
  <2>4. M!Ask(r, d) BY <1>3 DEF M!AskPending
  <2>5. d.pc = "pending" OBVIOUS
  <2> HIDE DEF d
  <2> QED BY <2>1, <2>3, <2>4, <2>5, AskStep
<1>4. ASSUME NEW r \in Acts, NEW u \in Users, NEW t \in Links, M!AskJoinByLink(r, u, t)
      PROVE  RolesInv'
  <2> DEFINE d == [pc |-> "join", user |-> u, isnew |-> member[u] = None, taking |-> FALSE,
                   row |-> [role |-> link[t].role, by |-> link[t].by]]
  <2>1. link[t] \in M!Row /\ Given(link[t]) /\ ~sealed
    BY <1>4 DEF M!AskJoinByLink, M!MayJoin, RolesInv, RolesTyped, M!TypeOK, AllGiven
  <2>2. d \in Asked BY <2>1 DEF Asked, M!Row
  <2>3. Given(d.row) BY <2>1 DEF Given
  <2>4. M!Ask(r, d) BY <1>4 DEF M!AskJoinByLink
  <2> HIDE DEF d
  <2> QED BY <2>1, <2>2, <2>3, <2>4, AskStep
<1>5. ASSUME NEW r \in Acts, NEW u \in Users, M!AskJoinByAddress(r, u)
      PROVE  RolesInv'
  <2> DEFINE d == [pc |-> "join", user |-> u, isnew |-> member[u] = None,
                   taking |-> ~pending[u].taken,
                   row |-> [role |-> pending[u].role, by |-> pending[u].by]]
  <2>1. pending[u] \in Invite /\ Given(pending[u]) /\ ~sealed
    BY <1>5 DEF M!AskJoinByAddress, M!MayJoin, RolesInv, RolesTyped, AllGiven
  <2>2. d \in Asked BY <2>1 DEF Asked, M!Row, Invite
  <2>3. Given(d.row) BY <2>1 DEF Given
  <2>4. M!Ask(r, d) BY <1>5 DEF M!AskJoinByAddress
  <2> HIDE DEF d
  <2> QED BY <2>1, <2>2, <2>3, <2>4, AskStep
<1>6. ASSUME NEW r \in Acts, NEW u \in Users \cup {Owner}, NEW v \in Users, M!AskRemove(r, u, v)
      PROVE  RolesInv'
  <2> DEFINE d == [pc |-> "remove", user |-> v]
  <2>1. d \in Asked /\ d.pc = "remove" BY DEF Asked
  <2>2. M!Ask(r, d) BY <1>6 DEF M!AskRemove
  <2> HIDE DEF d
  <2> QED BY <2>1, <2>2, AskStep DEF Written
<1>7. ASSUME NEW r \in Acts, M!AskEnable(r) PROVE RolesInv'
  <2> DEFINE d == [pc |-> "enable"]
  <2>1. d \in Asked /\ d.pc = "enable" BY DEF Asked
  <2>2. M!Ask(r, d) BY <1>7 DEF M!AskEnable
  <2> HIDE DEF d
  <2> QED BY <2>1, <2>2, AskStep DEF Written
<1>8. ASSUME NEW r \in Acts, M!WriteLink(r) PROVE RolesInv'
  <2>1. act[r].token \in Links /\ act[r].row \in M!Row /\ Given(act[r].row)
    BY <1>8 DEF M!WriteLink, RolesInv, RolesTyped, Asked, M!Idle, AllGiven, Written
  <2>2. M!Idle \in Asked /\ M!Idle.pc = "idle" BY DEF Asked, M!Idle
  <2>3. RolesTyped' BY <1>8, <2>1, <2>2 DEF M!WriteLink, RolesInv, RolesTyped, M!TypeOK
  <2>4. AllGiven'
    BY <1>8, <2>1, <2>2 DEF M!WriteLink, RolesInv, RolesTyped, M!TypeOK, AllGiven, Written
  <2>5. NobodyComes' BY <1>8, <2>2 DEF M!WriteLink, RolesInv, RolesTyped, NobodyComes
  <2> QED BY <2>3, <2>4, <2>5 DEF RolesInv
<1>9. ASSUME NEW r \in Acts, M!WritePending(r) PROVE RolesInv'
  <2>1. act[r].to \in Users /\ act[r].row \in Invite /\ Given(act[r].row)
    BY <1>9 DEF M!WritePending, RolesInv, RolesTyped, Asked, M!Idle, AllGiven, Written
  <2>2. M!Idle \in Asked /\ M!Idle.pc = "idle" BY DEF Asked, M!Idle
  <2>3. pending' \in [Users -> Invite \cup {None}]
    BY <1>9, <2>1 DEF M!WritePending, RolesInv, RolesTyped
  <2>4. RolesTyped'
    BY <1>9, <2>2, <2>3 DEF M!WritePending, RolesInv, RolesTyped, M!TypeOK, Invite
  <2>5. AllGiven'
    BY <1>9, <2>1, <2>2 DEF M!WritePending, RolesInv, RolesTyped, AllGiven, Written
  <2>6. NobodyComes' BY <1>9, <2>2 DEF M!WritePending, RolesInv, RolesTyped, NobodyComes
  <2> QED BY <2>4, <2>5, <2>6 DEF RolesInv
<1>10. ASSUME NEW r \in Acts, M!WriteJoin(r) PROVE RolesInv'
  <2>1. act[r].user \in Users /\ act[r].row \in M!Row /\ Given(act[r].row)
    BY <1>10 DEF M!WriteJoin, RolesInv, RolesTyped, Asked, M!Idle, AllGiven, Written
  <2>2. M!Idle \in Asked /\ M!Idle.pc = "idle" BY DEF Asked, M!Idle
  <2>3. ~(sealed /\ ~crossing) BY <1>10 DEF M!WriteJoin, RolesInv, NobodyComes
  <2> DEFINE u == act[r].user
  <2>4. member' = member \/ member' = [member EXCEPT ![u] = act[r].row] BY <1>10 DEF M!WriteJoin
  <2>5. \/ pending' = pending
        \/ pending[u] # None /\ pending' = [pending EXCEPT ![u].taken = TRUE]
    BY <1>10 DEF M!WriteJoin
  <2>6. ASSUME pending[u] # None
        PROVE  /\ [pending[u] EXCEPT !.taken = TRUE] \in Invite
               /\ Given([pending[u] EXCEPT !.taken = TRUE])
    <3>1. pending[u] \in Invite /\ Given(pending[u])
      BY <2>1, <2>6 DEF RolesInv, RolesTyped, AllGiven
    <3> QED BY <3>1 DEF Invite, Given
  <2>7. act' = [act EXCEPT ![r] = M!Idle] /\ UNCHANGED <<sealed, crossing, link>>
    BY <1>10 DEF M!WriteJoin
  <2> HIDE DEF u
  <2>8. u \in Users BY <2>1 DEF u
  <2>9. /\ pending' \in [Users -> Invite \cup {None}]
        /\ \A x \in Users : pending'[x] # None => Given(pending'[x])
    BY <2>5, <2>6, <2>8 DEF RolesInv, RolesTyped, AllGiven
  <2>10. RolesTyped'
    BY <2>1, <2>2, <2>4, <2>7, <2>8, <2>9 DEF RolesInv, RolesTyped, M!TypeOK, Invite
  <2>11. AllGiven'
    BY <2>1, <2>2, <2>4, <2>7, <2>8, <2>9 DEF RolesInv, RolesTyped, M!TypeOK, AllGiven, Written
  <2>12. NobodyComes' BY <2>3, <2>7 DEF NobodyComes
  <2> QED BY <2>10, <2>11, <2>12 DEF RolesInv
<1>11. ASSUME NEW r \in Acts, M!WriteRemove(r) PROVE RolesInv'
  <2>1. M!Idle \in Asked /\ M!Idle.pc = "idle" BY DEF Asked, M!Idle
  <2>2. RolesTyped' BY <1>11, <2>1 DEF M!WriteRemove, RolesInv, RolesTyped, M!TypeOK
  <2>3. AllGiven'
    BY <1>11, <2>1 DEF M!WriteRemove, RolesInv, RolesTyped, M!TypeOK, AllGiven, Written
  <2>4. NobodyComes'
    BY <1>11, <2>1 DEF M!WriteRemove, RolesInv, RolesTyped, M!TypeOK, NobodyComes
  <2> QED BY <2>2, <2>3, <2>4 DEF RolesInv
<1>12. ASSUME NEW r \in Acts, M!WriteEnable(r) PROVE RolesInv'
  <2>1. M!Idle \in Asked /\ M!Idle.pc = "idle" BY DEF Asked, M!Idle
  <2>2. RolesTyped' BY <1>12, <2>1 DEF M!WriteEnable, RolesInv, RolesTyped, M!TypeOK
  <2>3. AllGiven' BY <1>12, <2>1 DEF M!WriteEnable, RolesInv, RolesTyped, AllGiven, Written
  <2>4. NobodyComes'
    BY <1>12, <2>1 DEF M!WriteEnable, RolesInv, RolesTyped, NobodyComes, M!Members
  <2> QED BY <2>2, <2>3, <2>4 DEF RolesInv
<1>13. ASSUME NEW u \in Users \cup {Owner}, M!RevokeLink(u) PROVE RolesInv'
  BY <1>13 DEF M!RevokeLink, RolesInv, RolesTyped, M!TypeOK, AllGiven, NobodyComes
<1>14. ASSUME NEW u \in Users \cup {Owner}, NEW to \in Users, M!DropPending(u, to) PROVE RolesInv'
  BY <1>14 DEF M!DropPending, RolesInv, RolesTyped, M!TypeOK, AllGiven, NobodyComes
<1> QED BY <1>1, <1>2, <1>3, <1>4, <1>5, <1>6, <1>7, <1>8, <1>9, <1>10, <1>11, <1>12,
           <1>13, <1>14 DEF M!Next

\* The properties follow,
LEMMA RolesInvSound == RolesInv => M!RolesSound
BY DEF RolesInv, RolesTyped, M!RolesSound, M!CoOwnerByOwner, AllGiven, Given, M!Exclusive,
       NobodyComes, M!Members

\* and a step that ends an accept without its invite changes no membership.
LEMMA StepStaysOut == ASSUME RolesInv, [M!Next]_(M!vars) PROVE M!StaysOut
<1> SUFFICES ASSUME NEW r \in Acts, act[r].pc = "join", act[r].taking,
                    pending[act[r].user] = None, act'[r] = M!Idle
             PROVE  member'[act[r].user] = member[act[r].user]
  BY DEF M!StaysOut
<1>1. M!Idle.pc = "idle" /\ act[r] # M!Idle BY DEF M!Idle
<1>2. act \in [Acts -> Asked] BY DEF RolesInv, RolesTyped
<1>3. ASSUME NEW q \in Acts, NEW d, M!Ask(q, d) PROVE FALSE
  BY <1>1, <1>2, <1>3 DEF M!Ask
<1>4. ASSUME NEW q \in Acts, NEW u \in Users \cup {Owner}, NEW role \in Roles
      PROVE  /\ ~\E t \in Links : M!AskLink(q, u, role, t)
             /\ ~\E to \in Users : M!AskPending(q, u, role, to)
  BY <1>3 DEF M!AskLink, M!AskPending
<1>5. ASSUME NEW q \in Acts, NEW u \in Users
      PROVE  ~M!AskJoinByAddress(q, u) /\ ~\E t \in Links : M!AskJoinByLink(q, u, t)
  BY <1>3 DEF M!AskJoinByAddress, M!AskJoinByLink
<1>6. ASSUME NEW q \in Acts
      PROVE  ~M!AskEnable(q) /\ ~\E u \in Users \cup {Owner}, v \in Users : M!AskRemove(q, u, v)
  BY <1>3 DEF M!AskEnable, M!AskRemove
<1>7. ASSUME NEW q \in Acts, M!WriteLink(q) \/ M!WritePending(q) \/ M!WriteEnable(q)
      PROVE  member' = member
  BY <1>7 DEF M!WriteLink, M!WritePending, M!WriteEnable
<1>8. ASSUME NEW q \in Acts, M!WriteRemove(q) PROVE FALSE
  BY <1>1, <1>2, <1>8 DEF M!WriteRemove
<1>9. ASSUME NEW q \in Acts, M!WriteJoin(q) PROVE member' = member
  <2>1. q = r BY <1>1, <1>2, <1>9 DEF M!WriteJoin
  <2> QED BY <1>9, <2>1 DEF M!WriteJoin, M!Joins
<1>10. ASSUME NEW u \in Users \cup {Owner},
              M!RevokeLink(u) \/ \E to \in Users : M!DropPending(u, to)
       PROVE  member' = member
  BY <1>10 DEF M!RevokeLink, M!DropPending
<1>11. CASE UNCHANGED M!vars BY <1>11 DEF M!vars
<1>12. CASE M!Next
  BY <1>4, <1>5, <1>6, <1>7, <1>8, <1>9, <1>10, <1>12 DEF M!Next
<1> QED BY <1>11, <1>12

\* Whatever chain of invites, re-used links, accepts and removals runs at
\* the same time: co-owners come from the owner, and companions and
\* encryption exclude each other unless an accept and the switch raced.
THEOREM RolesHold == ASSUME RolesAssumed PROVE M!Spec => []M!RolesSound
<1>1. M!Init => RolesInv BY InitRolesInv
<1>2. RolesInv /\ [M!Next]_(M!vars) => RolesInv' BY StepRolesInv
<1> QED BY <1>1, <1>2, RolesInvSound, PTL DEF M!Spec

\* An accept that was under way when its invite was revoked or declined
\* changes no membership.
THEOREM RevokedKeepsOut == ASSUME RolesAssumed PROVE M!Spec => M!RevokedStaysOut
<1>1. RolesInv /\ [M!Next]_(M!vars) => [M!StaysOut]_(M!vars) BY StepStaysOut
<1>2. M!Init => RolesInv BY InitRolesInv
<1>3. RolesInv /\ [M!Next]_(M!vars) => RolesInv' BY StepRolesInv
<1> QED BY <1>1, <1>2, <1>3, PTL DEF M!Spec, M!RevokedStaysOut
=============================================================================
