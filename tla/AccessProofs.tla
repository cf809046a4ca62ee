---------------------------- MODULE AccessProofs ----------------------------
(***************************************************************************)
(* Proofs about what a caller is let in for and shown: the geometry caches *)
(* (GeoCache, whose names are used as they are), share links (S!), the     *)
(* refreshes of a trip (C!), the Strava link (L!) and accounts (A!).  Each *)
(* part declares its own constants and variables and stands by itself.     *)
(***************************************************************************)
EXTENDS GeoCache, TLAPS

(* What the properties say together.                                       *)
AnswersSound == TypeOK /\ ServedFresh /\ AcceptedIsCurrent

(* The generation each process would read now.                             *)
Gens == [p \in Procs |-> Generation(p)]

(* A change that is committed and has not advanced the generation yet: in  *)
(* Redis where there is one, else in the only process at work.             *)
Owed(m) == mut[m].pc = "incr" \/ (~shared /\ mut[m].pc = "drop")

(* The versions that may stand in a cache under the present generation:    *)
(* every later change still owes its bust, so its user has no answer yet.  *)
Current == {v \in 0..db : \A w \in 1..db : w > v =>
                             \E m \in Muts : Owed(m) /\ mut[m].v = w}

Request == [pc : {"get", "check", "gen", "load", "storecheck", "store", "track", "track2",
                  "lock", "trackcheck", "trackcheck2", "trackgen", "trackload",
                  "trackstorecheck", "trackstore", "answer"},
            p : Procs, key : Keys, floor : Nat, gen : Nat, seen : Nat, v : Nat]
Mutation == [pc : {"incr", "drop", "track"}, p : Procs, v : Nat]

Typed ==
    /\ db \in Nat /\ redis \in Nat /\ done \in Nat
    /\ working \in SUBSET Procs
    /\ shared \/ \E p \in Procs : working = {p}
    /\ gen \in [Procs -> Nat]
    /\ bytes \in [Procs -> [Keys -> Entry \cup {None}]]
    /\ track \in [Procs -> Entry \cup {None}]
    /\ req \in [Reqs -> Request \cup {Idle}]
    /\ mut \in [Muts -> Mutation \cup {Idle}]

(* Changes under way have versions of their own, none of them answered.    *)
Changes ==
    /\ done <= db
    /\ \A m \in Muts : mut[m] # Idle =>
          /\ mut[m].p \in working
          /\ mut[m].v \in 1..db
          /\ mut[m].v # done
          /\ \A n \in Muts : mut[n] # Idle /\ mut[n].v = mut[m].v => n = m

(* An entry of process p that the present generation accepts is current.   *)
EntryOK(p, e) ==
    e # None => /\ e.gen <= Gens[p]
                /\ e.gen = Gens[p] => e.v \in Current

Entries ==
    \A p \in working : /\ \A k \in Keys : EntryOK(p, bytes[p][k])
                       /\ EntryOK(p, track[p])

(* So is what a request has read and will compare, store or answer with:   *)
(* under the generation it will be compared with, it is of a current       *)
(* version, and what will be answered is no older than the request.        *)
Seen == {"check", "trackcheck", "trackcheck2", "trackstorecheck", "trackstore"}
Built == {"storecheck", "store", "trackstorecheck", "trackstore"}
AnswerOK(q) ==
    q # Idle => /\ q.p \in working
                /\ q.floor <= done
                /\ q.gen <= Gens[q.p] /\ q.seen <= Gens[q.p]
                /\ q.pc \in Seen /\ q.seen = Gens[q.p] => q.v \in Current
                /\ q.pc \in Built /\ q.gen = Gens[q.p] => q.v \in Current
                /\ q.pc \in Built \cup {"answer"} => q.v >= q.floor

Answers == \A r \in Reqs : AnswerOK(req[r])

IInv == Typed /\ Changes /\ Entries /\ Answers
-----------------------------------------------------------------------------
(* The generations are numbers.                                            *)
LEMMA GensType == ASSUME Typed
                  PROVE /\ Gens \in [Procs -> Nat]
                        /\ \A p \in Procs : Gens[p] = Generation(p)
BY DEF Typed, Gens, Generation

(* What is read from the database now is current, and what is current      *)
(* reflects every change that was answered.                                *)
LEMMA DbIsCurrent == ASSUME Typed PROVE db \in Current
BY DEF Typed, Current

LEMMA CurrentIsDone ==
    ASSUME Typed, Changes, NEW v \in Current
    PROVE  v \in Nat /\ v >= done
<1>1. v \in Nat /\ v \in 0..db
  BY DEF Typed, Current
<1>2. CASE done > v
  <2>1. done \in 1..db
    BY <1>1, <1>2 DEF Typed, Changes
  <2>2. PICK m \in Muts : Owed(m) /\ mut[m].v = done
    BY <2>1, <1>2 DEF Current
  <2>3. mut[m] # Idle
    BY <2>2 DEF Owed, Idle
  <2> QED BY <2>2, <2>3 DEF Changes
<1> QED BY <1>1, <1>2 DEF Typed

(* A step of a request leaves the generations and the current versions     *)
(* alone, so only what it puts into its slot and the caches is in doubt.   *)
LEMMA RequestStep ==
    ASSUME IInv, NEW r \in Reqs, NEW x \in Request \cup {Idle}, AnswerOK(x),
           req' = [req EXCEPT ![r] = x],
           UNCHANGED <<db, working, redis, gen, mut, done>>,
           bytes' \in [Procs -> [Keys -> Entry \cup {None}]],
           track' \in [Procs -> Entry \cup {None}],
           \A p \in working : /\ \A k \in Keys : EntryOK(p, bytes'[p][k])
                              /\ EntryOK(p, track'[p])
    PROVE  IInv'
<1>1. Gens' = Gens
  BY DEF Gens, Generation, shared
<1>2. Current' = Current
  BY DEF Current, Owed, shared
<1>3. Typed'
  BY DEF IInv, Typed, shared
<1>4. Changes'
  BY DEF IInv, Changes
<1>5. Entries'
  BY <1>1, <1>2 DEF Entries, EntryOK
<1>6. Answers'
  <2> SUFFICES ASSUME NEW s \in Reqs PROVE AnswerOK(req[s])'
    BY DEF Answers
  <2>1. AnswerOK(req'[s])
    <3>1. CASE s = r BY <3>1 DEF IInv, Typed
    <3>2. CASE s # r BY <3>2 DEF IInv, Answers, Typed
    <3> QED BY <3>1, <3>2
  <2> QED BY <1>1, <1>2, <2>1 DEF AnswerOK
<1> QED BY <1>3, <1>4, <1>5, <1>6 DEF IInv

(* The same where the caches stay as they are.                             *)
LEMMA ReadStep ==
    ASSUME IInv, NEW r \in Reqs, NEW x \in Request \cup {Idle}, AnswerOK(x),
           req' = [req EXCEPT ![r] = x],
           UNCHANGED <<db, working, redis, gen, mut, done, bytes, track>>
    PROVE  IInv'
<1>1. /\ bytes' \in [Procs -> [Keys -> Entry \cup {None}]]
      /\ track' \in [Procs -> Entry \cup {None}]
  BY DEF IInv, Typed
<1>2. \A p \in working : /\ \A k \in Keys : EntryOK(p, bytes'[p][k])
                         /\ EntryOK(p, track'[p])
  BY DEF IInv, Entries
<1> QED BY <1>1, <1>2, RequestStep

(* A step of a mutating request never takes a version out of the current   *)
(* ones without a new generation.                                          *)
LEMMA MutationStep ==
    ASSUME IInv, Typed', Changes', UNCHANGED <<working, req>>, done <= done',
           \A p \in working : /\ Gens[p] <= Gens'[p]
                              /\ Gens'[p] = Gens[p] => Current \subseteq Current',
           \A p \in working : /\ \A k \in Keys : bytes'[p][k] \in {bytes[p][k], None}
                              /\ track'[p] \in {track[p], None}
    PROVE  IInv'
<1>1. /\ Gens \in [Procs -> Nat] /\ Gens' \in [Procs -> Nat]
      /\ working \subseteq Procs
  <2>1. Typed BY DEF IInv
  <2>2. Gens \in [Procs -> Nat] BY <2>1, GensType
  <2>3. Gens' \in [Procs -> Nat] BY DEF Typed, Gens, Generation
  <2> QED BY <2>1, <2>2, <2>3 DEF Typed
<1>3. Entries'
  <2> SUFFICES ASSUME NEW p \in working, NEW k \in Keys
               PROVE  EntryOK(p, bytes[p][k])' /\ EntryOK(p, track[p])'
    BY DEF Entries, Keys
  <2>1. EntryOK(p, bytes[p][k])'
    <3>1. bytes[p][k] \in Entry \cup {None}
      BY <1>1 DEF IInv, Typed
    <3>2. EntryOK(p, bytes[p][k])
      BY DEF IInv, Entries
    <3>3. CASE bytes'[p][k] = None
      BY <3>3 DEF EntryOK
    <3>4. CASE bytes'[p][k] = bytes[p][k]
      BY <3>1, <3>2, <3>4, <1>1 DEF EntryOK, Entry
    <3> QED BY <3>3, <3>4
  <2>2. EntryOK(p, track[p])'
    <3>1. track[p] \in Entry \cup {None}
      BY <1>1 DEF IInv, Typed
    <3>2. EntryOK(p, track[p])
      BY DEF IInv, Entries
    <3>3. CASE track'[p] = None
      BY <3>3 DEF EntryOK
    <3>4. CASE track'[p] = track[p]
      BY <3>1, <3>2, <3>4, <1>1 DEF EntryOK, Entry
    <3> QED BY <3>3, <3>4
  <2> QED BY <2>1, <2>2
<1>4. Answers'
  <2> SUFFICES ASSUME NEW r \in Reqs, req[r] # Idle PROVE AnswerOK(req[r])'
    BY DEF Answers, AnswerOK
  <2>1. req[r] \in Request /\ AnswerOK(req[r]) /\ req[r].p \in working
    BY DEF IInv, Typed, Answers, AnswerOK
  <2>2. done \in Nat /\ done' \in Nat
    BY DEF IInv, Typed
  <2> QED BY <1>1, <2>1, <2>2 DEF AnswerOK, Request
<1> QED BY <1>3, <1>4 DEF IInv
-----------------------------------------------------------------------------
(* What the invariant says of a request at work.                           *)
LEMMA AtWork ==
    ASSUME IInv, NEW r \in Reqs, req[r].pc # "idle"
    PROVE  /\ req[r] \in Request /\ req[r] # Idle
           /\ req[r].p \in working /\ req[r].p \in Procs
           /\ Gens \in [Procs -> Nat]
           /\ Gens[req[r].p] = Generation(req[r].p)
           /\ AnswerOK(req[r])
           /\ db \in Nat /\ done \in Nat /\ done <= db
           /\ db \in Current /\ \A v \in Current : v \in Nat /\ v >= done
<1>1. Typed /\ Changes /\ Answers
  BY DEF IInv
<1>2. req[r] \in Request /\ req[r] # Idle
  BY <1>1 DEF Typed, Idle
<1>3. AnswerOK(req[r])
  BY <1>1 DEF Answers
<1>4. req[r].p \in working /\ req[r].p \in Procs
  BY <1>1, <1>2, <1>3 DEF AnswerOK, Typed
<1>5. db \in Nat /\ done \in Nat /\ done <= db
  BY <1>1 DEF Typed, Changes
<1>6. \A v \in Current : v \in Nat /\ v >= done
  BY <1>1, CurrentIsDone
<1> QED BY <1>1, <1>2, <1>3, <1>4, <1>5, <1>6, GensType, DbIsCurrent

(* Begin keeps the invariant.                                              *)
LEMMA BeginKeeps ==
    ASSUME IInv, NEW r \in Reqs, NEW p \in Procs, NEW kind \in Keys \cup {"warm"},
           Begin(r, p, kind)
    PROVE  IInv'
<1> DEFINE x == [pc |-> IF kind = "warm" THEN "gen" ELSE "get",
                 p |-> p, key |-> IF kind = "simp" THEN "simp" ELSE "plain",
                 floor |-> done, gen |-> 0, seen |-> 0, v |-> 0]
<1>1. /\ req' = [req EXCEPT ![r] = x] /\ p \in working
      /\ UNCHANGED <<db, working, redis, gen, mut, done, bytes, track>>
  BY DEF Begin, caches
<1>2. done \in Nat /\ Gens \in [Procs -> Nat]
  BY GensType DEF IInv, Typed
<1>3. x \in Request
  BY <1>2 DEF Request, Keys
<1>4. AnswerOK(x)
  BY <1>1, <1>2 DEF AnswerOK, Seen, Built
<1> HIDE DEF x
<1> QED BY <1>1, <1>3, <1>4, ReadStep

(* GetBytes keeps the invariant.                                           *)
LEMMA GetBytesKeeps == ASSUME IInv, NEW r \in Reqs, GetBytes(r) PROVE IInv'
<1> DEFINE e == bytes[req[r].p][req[r].key]
           x == IF e = None THEN [req[r] EXCEPT !.pc = "gen"]
                ELSE [req[r] EXCEPT !.pc = "check", !.v = e.v, !.seen = e.gen]
<1>1. /\ req[r].pc = "get" /\ req' = [req EXCEPT ![r] = x]
      /\ UNCHANGED <<db, working, redis, gen, mut, done, bytes, track>>
  BY DEF GetBytes, caches
<1>2. /\ req[r] \in Request /\ req[r] # Idle /\ req[r].p \in working
      /\ req[r].p \in Procs /\ AnswerOK(req[r])
  BY <1>1, AtWork
<1>3. EntryOK(req[r].p, e) /\ e \in Entry \cup {None}
  BY <1>2 DEF IInv, Entries, Typed, Request
<1> HIDE DEF e
<1>4. x \in Request
  BY <1>2, <1>3 DEF Request, Entry
<1>5. AnswerOK(x)
  BY <1>1, <1>2, <1>3 DEF AnswerOK, EntryOK, Entry, Request, Seen, Built
<1> HIDE DEF x
<1> QED BY <1>1, <1>4, <1>5, ReadStep

(* CheckBytes keeps the invariant.                                         *)
LEMMA CheckBytesKeeps == ASSUME IInv, NEW r \in Reqs, CheckBytes(r) PROVE IInv'
<1> DEFINE q == req[r]
           fresh == q.seen = Generation(q.p)
           x == IF fresh THEN [q EXCEPT !.pc = "answer"]
                ELSE [q EXCEPT !.pc = "gen", !.v = 0, !.seen = 0]
<1>1. /\ q.pc = "check" /\ req' = [req EXCEPT ![r] = x]
      /\ bytes' = IF fresh THEN bytes ELSE [bytes EXCEPT ![q.p][q.key] = None]
      /\ UNCHANGED <<db, working, redis, gen, mut, done, track>>
  BY DEF CheckBytes
<1>2. /\ q \in Request /\ q # Idle /\ q.p \in working /\ q.p \in Procs /\ AnswerOK(q)
      /\ Gens \in [Procs -> Nat] /\ Gens[q.p] = Generation(q.p)
      /\ done \in Nat /\ \A v \in Current : v \in Nat /\ v >= done
  BY <1>1, AtWork
<1>3. q.key \in Keys
  BY <1>2 DEF Request
<1>4. /\ bytes \in [Procs -> [Keys -> Entry \cup {None}]]
      /\ track \in [Procs -> Entry \cup {None}]
      /\ working \subseteq Procs /\ Entries
  BY DEF IInv, Typed
<1> HIDE DEF q
<1>5. bytes' \in [Procs -> [Keys -> Entry \cup {None}]]
  BY <1>1, <1>2, <1>3, <1>4
<1>6. \A p \in working : /\ \A k \in Keys : EntryOK(p, bytes'[p][k])
                         /\ EntryOK(p, track'[p])
  BY <1>1, <1>2, <1>3, <1>4 DEF Entries, EntryOK
<1>7. x \in Request
  BY <1>2 DEF Request
<1>8. AnswerOK(x)
  BY <1>1, <1>2 DEF AnswerOK, Request, Seen, Built
<1> HIDE DEF x
<1> QED BY <1>1, <1>4, <1>5, <1>6, <1>7, <1>8, RequestStep

(* Capture keeps the invariant.                                            *)
LEMMA CaptureKeeps == ASSUME IInv, NEW r \in Reqs, Capture(r) PROVE IInv'
<1> DEFINE q == req[r]
           x == [q EXCEPT !.gen = Generation(q.p),
                          !.pc = IF q.key = "simp" THEN "track" ELSE "load"]
<1>1. /\ q.pc = "gen" /\ req' = [req EXCEPT ![r] = x]
      /\ UNCHANGED <<db, working, redis, gen, mut, done, bytes, track>>
  BY DEF Capture, caches
<1>2. /\ q \in Request /\ q # Idle /\ q.p \in working /\ q.p \in Procs /\ AnswerOK(q)
      /\ Gens \in [Procs -> Nat] /\ Gens[q.p] = Generation(q.p)
  BY <1>1, AtWork
<1> HIDE DEF q
<1>3. x \in Request
  BY <1>2 DEF Request
<1>4. AnswerOK(x)
  BY <1>1, <1>2 DEF AnswerOK, Request, Seen, Built
<1> HIDE DEF x
<1> QED BY <1>1, <1>3, <1>4, ReadStep

(* Load keeps the invariant.                                               *)
LEMMA LoadKeeps == ASSUME IInv, NEW r \in Reqs, Load(r) PROVE IInv'
<1> DEFINE q == req[r]
           x == [q EXCEPT !.v = db, !.pc = "storecheck"]
<1>1. /\ q.pc = "load" /\ req' = [req EXCEPT ![r] = x]
      /\ UNCHANGED <<db, working, redis, gen, mut, done, bytes, track>>
  BY DEF Load, caches
<1>2. /\ q \in Request /\ q # Idle /\ AnswerOK(q)
      /\ db \in Nat /\ done \in Nat /\ done <= db /\ db \in Current
  BY <1>1, AtWork
<1> HIDE DEF q
<1>3. x \in Request
  BY <1>2 DEF Request
<1>4. AnswerOK(x)
  BY <1>1, <1>2 DEF AnswerOK, Request, Seen, Built
<1> HIDE DEF x
<1> QED BY <1>1, <1>3, <1>4, ReadStep

(* CheckStore keeps the invariant.                                         *)
LEMMA CheckStoreKeeps == ASSUME IInv, NEW r \in Reqs, CheckStore(r) PROVE IInv'
<1> DEFINE q == req[r]
           x == [q EXCEPT !.pc = IF Generation(q.p) = q.gen THEN "store" ELSE "answer"]
<1>1. /\ q.pc = "storecheck" /\ req' = [req EXCEPT ![r] = x]
      /\ UNCHANGED <<db, working, redis, gen, mut, done, bytes, track>>
  BY DEF CheckStore, Goto, caches
<1>2. q \in Request /\ q # Idle /\ AnswerOK(q)
  BY <1>1, AtWork
<1> HIDE DEF q
<1>3. x \in Request
  BY <1>2 DEF Request
<1>4. AnswerOK(x)
  BY <1>1, <1>2 DEF AnswerOK, Request, Seen, Built
<1> HIDE DEF x
<1> QED BY <1>1, <1>3, <1>4, ReadStep

(* Store keeps the invariant.                                              *)
LEMMA StoreKeeps == ASSUME IInv, NEW r \in Reqs, Store(r) PROVE IInv'
<1> DEFINE q == req[r]
           x == [q EXCEPT !.pc = "answer"]
           e == [v |-> q.v, gen |-> q.gen]
<1>1. /\ q.pc = "store" /\ req' = [req EXCEPT ![r] = x]
      /\ bytes' = [bytes EXCEPT ![q.p][q.key] = e]
      /\ UNCHANGED <<db, working, redis, gen, mut, done, track>>
  BY DEF Store, Answer
<1>2. q \in Request /\ q # Idle /\ q.p \in working /\ q.p \in Procs /\ AnswerOK(q)
  BY <1>1, AtWork
<1>3. q.key \in Keys
  BY <1>2 DEF Request
<1>4. /\ bytes \in [Procs -> [Keys -> Entry \cup {None}]]
      /\ track \in [Procs -> Entry \cup {None}]
      /\ working \subseteq Procs /\ Entries
  BY DEF IInv, Typed
<1> HIDE DEF q
<1>5. e \in Entry /\ EntryOK(q.p, e)
  BY <1>1, <1>2 DEF Request, Entry, AnswerOK, EntryOK, Built
<1>6. x \in Request
  BY <1>2 DEF Request
<1>7. AnswerOK(x)
  BY <1>1, <1>2 DEF AnswerOK, Request, Seen, Built
<1> HIDE DEF x, e
<1>8. bytes' \in [Procs -> [Keys -> Entry \cup {None}]]
  BY <1>1, <1>2, <1>3, <1>4, <1>5
<1>9. \A p \in working : /\ \A k \in Keys : EntryOK(p, bytes'[p][k])
                         /\ EntryOK(p, track'[p])
  BY <1>1, <1>2, <1>3, <1>4, <1>5 DEF Entries
<1> QED BY <1>1, <1>4, <1>6, <1>7, <1>8, <1>9, RequestStep

(* GetTrack keeps the invariant.                                           *)
LEMMA GetTrackKeeps == ASSUME IInv, NEW r \in Reqs, GetTrack(r) PROVE IInv'
<1> DEFINE e == track[req[r].p]
           inside == req[r].pc = "track2"
           x == IF e = None THEN [req[r] EXCEPT !.pc = IF inside THEN "trackgen" ELSE "lock"]
                ELSE [req[r] EXCEPT !.pc = IF inside THEN "trackcheck2" ELSE "trackcheck",
                                    !.v = e.v, !.seen = e.gen]
<1>1. /\ req[r].pc \in {"track", "track2"} /\ req' = [req EXCEPT ![r] = x]
      /\ UNCHANGED <<db, working, redis, gen, mut, done, bytes, track>>
  BY DEF GetTrack, caches
<1>2. /\ req[r] \in Request /\ req[r] # Idle /\ req[r].p \in working
      /\ req[r].p \in Procs /\ AnswerOK(req[r])
  BY <1>1, AtWork
<1>3. EntryOK(req[r].p, e) /\ e \in Entry \cup {None}
  BY <1>2 DEF IInv, Entries, Typed
<1> HIDE DEF e
<1>4. x \in Request
  BY <1>2, <1>3 DEF Request, Entry
<1>5. AnswerOK(x)
  BY <1>1, <1>2, <1>3 DEF AnswerOK, EntryOK, Entry, Request, Seen, Built
<1> HIDE DEF x
<1> QED BY <1>1, <1>4, <1>5, ReadStep

(* CheckTrack keeps the invariant.                                         *)
LEMMA CheckTrackKeeps == ASSUME IInv, NEW r \in Reqs, CheckTrack(r) PROVE IInv'
<1> DEFINE q == req[r]
           fresh == q.seen = Generation(q.p)
           inside == q.pc = "trackcheck2"
           x == [q EXCEPT !.pc = IF fresh THEN "storecheck"
                                 ELSE IF inside THEN "trackgen" ELSE "lock"]
<1>1. /\ q.pc \in {"trackcheck", "trackcheck2"} /\ req' = [req EXCEPT ![r] = x]
      /\ track' = IF fresh THEN track ELSE [track EXCEPT ![q.p] = None]
      /\ UNCHANGED <<db, working, redis, gen, mut, done, bytes>>
  BY DEF CheckTrack, Goto
<1>2. /\ q \in Request /\ q # Idle /\ q.p \in working /\ q.p \in Procs /\ AnswerOK(q)
      /\ Gens \in [Procs -> Nat] /\ Gens[q.p] = Generation(q.p)
      /\ done \in Nat /\ \A v \in Current : v \in Nat /\ v >= done
  BY <1>1, AtWork
<1>3. /\ bytes \in [Procs -> [Keys -> Entry \cup {None}]]
      /\ track \in [Procs -> Entry \cup {None}]
      /\ working \subseteq Procs /\ Entries
  BY DEF IInv, Typed
<1> HIDE DEF q
<1>4. track' \in [Procs -> Entry \cup {None}]
  BY <1>1, <1>2, <1>3
<1>5. \A p \in working : /\ \A k \in Keys : EntryOK(p, bytes'[p][k])
                         /\ EntryOK(p, track'[p])
  BY <1>1, <1>2, <1>3 DEF Entries, EntryOK
<1>6. x \in Request
  BY <1>2 DEF Request
<1>7. AnswerOK(x)
  BY <1>1, <1>2 DEF AnswerOK, Request, Seen, Built
<1> HIDE DEF x
<1> QED BY <1>1, <1>3, <1>4, <1>5, <1>6, <1>7, RequestStep

(* LockBuild keeps the invariant.                                          *)
LEMMA LockBuildKeeps == ASSUME IInv, NEW r \in Reqs, LockBuild(r) PROVE IInv'
<1> DEFINE q == req[r]
           x == [q EXCEPT !.pc = "track2"]
<1>1. /\ q.pc = "lock" /\ req' = [req EXCEPT ![r] = x]
      /\ UNCHANGED <<db, working, redis, gen, mut, done, bytes, track>>
  BY DEF LockBuild, Goto, caches
<1>2. q \in Request /\ q # Idle /\ AnswerOK(q)
  BY <1>1, AtWork
<1> HIDE DEF q
<1>3. x \in Request /\ AnswerOK(x)
  BY <1>1, <1>2 DEF AnswerOK, Request, Seen, Built
<1> HIDE DEF x
<1> QED BY <1>1, <1>3, ReadStep

(* CaptureTrack keeps the invariant.                                       *)
LEMMA CaptureTrackKeeps == ASSUME IInv, NEW r \in Reqs, CaptureTrack(r) PROVE IInv'
<1> DEFINE q == req[r]
           x == [q EXCEPT !.seen = Generation(q.p), !.pc = "trackload"]
<1>1. /\ q.pc = "trackgen" /\ req' = [req EXCEPT ![r] = x]
      /\ UNCHANGED <<db, working, redis, gen, mut, done, bytes, track>>
  BY DEF CaptureTrack, caches
<1>2. /\ q \in Request /\ q # Idle /\ q.p \in working /\ q.p \in Procs /\ AnswerOK(q)
      /\ Gens \in [Procs -> Nat] /\ Gens[q.p] = Generation(q.p)
  BY <1>1, AtWork
<1> HIDE DEF q
<1>3. x \in Request
  BY <1>2 DEF Request
<1>4. AnswerOK(x)
  BY <1>1, <1>2 DEF AnswerOK, Request, Seen, Built
<1> HIDE DEF x
<1> QED BY <1>1, <1>3, <1>4, ReadStep

(* LoadTrack keeps the invariant.                                          *)
LEMMA LoadTrackKeeps == ASSUME IInv, NEW r \in Reqs, LoadTrack(r) PROVE IInv'
<1> DEFINE q == req[r]
           x == [q EXCEPT !.v = db, !.pc = "trackstorecheck"]
<1>1. /\ q.pc = "trackload" /\ req' = [req EXCEPT ![r] = x]
      /\ UNCHANGED <<db, working, redis, gen, mut, done, bytes, track>>
  BY DEF LoadTrack, caches
<1>2. /\ q \in Request /\ q # Idle /\ AnswerOK(q)
      /\ db \in Nat /\ done \in Nat /\ done <= db /\ db \in Current
  BY <1>1, AtWork
<1> HIDE DEF q
<1>3. x \in Request
  BY <1>2 DEF Request
<1>4. AnswerOK(x)
  BY <1>1, <1>2 DEF AnswerOK, Request, Seen, Built
<1> HIDE DEF x
<1> QED BY <1>1, <1>3, <1>4, ReadStep

(* CheckTrackStore keeps the invariant.                                    *)
LEMMA CheckTrackStoreKeeps == ASSUME IInv, NEW r \in Reqs, CheckTrackStore(r) PROVE IInv'
<1> DEFINE q == req[r]
           x == [q EXCEPT !.pc = IF Generation(q.p) = q.seen THEN "trackstore"
                                 ELSE "storecheck"]
<1>1. /\ q.pc = "trackstorecheck" /\ req' = [req EXCEPT ![r] = x]
      /\ UNCHANGED <<db, working, redis, gen, mut, done, bytes, track>>
  BY DEF CheckTrackStore, Goto, caches
<1>2. q \in Request /\ q # Idle /\ AnswerOK(q)
  BY <1>1, AtWork
<1> HIDE DEF q
<1>3. x \in Request /\ AnswerOK(x)
  BY <1>1, <1>2 DEF AnswerOK, Request, Seen, Built
<1> HIDE DEF x
<1> QED BY <1>1, <1>3, ReadStep

(* StoreTrack keeps the invariant.                                         *)
LEMMA StoreTrackKeeps == ASSUME IInv, NEW r \in Reqs, StoreTrack(r) PROVE IInv'
<1> DEFINE q == req[r]
           x == [q EXCEPT !.pc = "storecheck"]
           e == [v |-> q.v, gen |-> q.seen]
<1>1. /\ q.pc = "trackstore" /\ req' = [req EXCEPT ![r] = x]
      /\ track' = [track EXCEPT ![q.p] = e]
      /\ UNCHANGED <<db, working, redis, gen, mut, done, bytes>>
  BY DEF StoreTrack, Goto
<1>2. q \in Request /\ q # Idle /\ q.p \in working /\ q.p \in Procs /\ AnswerOK(q)
  BY <1>1, AtWork
<1>3. /\ bytes \in [Procs -> [Keys -> Entry \cup {None}]]
      /\ track \in [Procs -> Entry \cup {None}]
      /\ working \subseteq Procs /\ Entries
  BY DEF IInv, Typed
<1> HIDE DEF q
<1>4. e \in Entry /\ EntryOK(q.p, e)
  BY <1>1, <1>2 DEF Request, Entry, AnswerOK, EntryOK, Seen
<1>5. x \in Request /\ AnswerOK(x)
  BY <1>1, <1>2 DEF AnswerOK, Request, Seen, Built
<1> HIDE DEF x, e
<1>6. track' \in [Procs -> Entry \cup {None}]
  BY <1>1, <1>2, <1>3, <1>4
<1>7. \A p \in working : /\ \A k \in Keys : EntryOK(p, bytes'[p][k])
                         /\ EntryOK(p, track'[p])
  BY <1>1, <1>2, <1>3, <1>4 DEF Entries
<1> QED BY <1>1, <1>3, <1>5, <1>6, <1>7, RequestStep

(* Finish keeps the invariant.                                             *)
LEMMA FinishKeeps == ASSUME IInv, NEW r \in Reqs, Finish(r) PROVE IInv'
<1>1. /\ req' = [req EXCEPT ![r] = Idle] /\ AnswerOK(Idle)
      /\ UNCHANGED <<db, working, redis, gen, mut, done, bytes, track>>
  BY DEF Finish, caches, AnswerOK
<1> QED BY <1>1, ReadStep

(* Evict only ever takes an entry away.                                    *)
LEMMA EvictKeeps == ASSUME IInv, NEW p \in Procs, Evict(p) PROVE IInv'
<1>1. /\ UNCHANGED <<db, working, redis, gen, req, mut, done>>
      /\ bytes' = bytes \/ \E k \in Keys : bytes' = [bytes EXCEPT ![p][k] = None]
      /\ track' = track \/ track' = [track EXCEPT ![p] = None]
  BY DEF Evict
<1>2. Typed'
  <2>1. bytes' \in [Procs -> [Keys -> Entry \cup {None}]]
    BY <1>1 DEF IInv, Typed
  <2>2. track' \in [Procs -> Entry \cup {None}]
    BY <1>1 DEF IInv, Typed
  <2> QED BY <1>1, <2>1, <2>2 DEF IInv, Typed, shared
<1>3. Changes'
  BY <1>1 DEF IInv, Changes
<1>4. Gens' = Gens /\ Current' = Current
  BY <1>1 DEF Gens, Generation, shared, Current, Owed
<1>5. \A c \in working : /\ \A k \in Keys : bytes'[c][k] \in {bytes[c][k], None}
                         /\ track'[c] \in {track[c], None}
  BY <1>1 DEF IInv, Typed
<1>6. done <= done' /\ \A c \in working : Gens[c] <= Gens'[c]
  BY <1>1, <1>4, GensType DEF IInv, Typed
<1> QED BY <1>1, <1>2, <1>3, <1>4, <1>5, <1>6, MutationStep
-----------------------------------------------------------------------------
(* The steps of a change.  A commit adds a version, owed by its request;   *)
(* the bust that settles it brings a new generation.                       *)
LEMMA CommitKeeps ==
    ASSUME IInv, NEW m \in Muts, NEW p \in Procs, Commit(m, p)
    PROVE  IInv'
<1> DEFINE x == [pc |-> "incr", p |-> p, v |-> db + 1]
<1>1. /\ mut[m] = Idle /\ p \in working /\ db' = db + 1
      /\ mut' = [mut EXCEPT ![m] = x]
      /\ UNCHANGED <<working, redis, gen, bytes, track, req, done>>
  BY DEF Commit, caches
<1>2. /\ db \in Nat /\ done \in Nat /\ mut \in [Muts -> Mutation \cup {Idle}]
      /\ done <= db
  BY DEF IInv, Typed, Changes
<1>3. x \in Mutation /\ x # Idle
  BY <1>2 DEF Mutation, Idle
<1>4. Typed'
  BY <1>1, <1>2, <1>3 DEF IInv, Typed, shared
<1>5. Changes'
  <2>1. \A n \in Muts : n # m => mut'[n] = mut[n]
    BY <1>1, <1>2
  <2>2. mut'[m] = x
    BY <1>1, <1>2
  <2>3. \A n \in Muts : n # m /\ mut[n] # Idle => mut[n].v \in 1..db
    BY DEF IInv, Changes
  <2> QED BY <1>1, <1>2, <2>1, <2>2, <2>3 DEF IInv, Changes
<1>6. Gens' = Gens
  BY <1>1 DEF Gens, Generation, shared
<1>7. Current \subseteq Current'
  <2>1. \A n \in Muts : Owed(n) => Owed(n)' /\ mut'[n] = mut[n]
    BY <1>1, <1>2 DEF Owed, Idle, shared
  <2>2. Owed(m)' /\ mut'[m].v = db + 1
    BY <1>1, <1>2 DEF Owed
  <2> SUFFICES ASSUME NEW v \in Current, NEW w \in 1..(db + 1), w > v
               PROVE  v \in 0..(db + 1) /\ \E n \in Muts : Owed(n)' /\ mut'[n].v = w
    <3>1. \A v \in Current : v \in 0..db
      BY DEF Current
    <3> QED BY <1>1, <1>2, <3>1 DEF Current
  <2>3. v \in 0..db /\ \A u \in 1..db : u > v => \E n \in Muts : Owed(n) /\ mut[n].v = u
    BY DEF Current
  <2>4. CASE w = db + 1
    BY <1>2, <2>2, <2>3, <2>4
  <2>5. CASE w \in 1..db
    <3>1. PICK n \in Muts : Owed(n) /\ mut[n].v = w
      BY <2>3, <2>5
    <3> QED BY <1>2, <2>1, <2>3, <3>1
  <2> QED BY <1>2, <2>4, <2>5
<1>8. done <= done' /\ \A c \in working : Gens[c] <= Gens'[c]
  BY <1>1, <1>2, <1>6, GensType DEF IInv, Typed
<1> QED BY <1>1, <1>4, <1>5, <1>6, <1>7, <1>8, MutationStep

(* BustShared keeps the invariant.                                         *)
LEMMA BustSharedKeeps == ASSUME IInv, NEW m \in Muts, BustShared(m) PROVE IInv'
<1> DEFINE x == [mut[m] EXCEPT !.pc = "drop"]
<1>1. /\ mut[m].pc = "incr" /\ mut' = [mut EXCEPT ![m] = x]
      /\ redis' = IF shared THEN redis + 1 ELSE redis
      /\ UNCHANGED <<db, working, gen, bytes, track, req, done>>
  BY DEF BustShared, caches
<1>2. /\ mut \in [Muts -> Mutation \cup {Idle}] /\ mut[m] \in Mutation /\ mut[m] # Idle
      /\ redis \in Nat /\ gen \in [Procs -> Nat] /\ working \subseteq Procs
      /\ done \in Nat
  BY <1>1 DEF IInv, Typed, Idle
<1>3. x \in Mutation /\ x.v = mut[m].v /\ x.p = mut[m].p /\ x.pc = "drop" /\ x # Idle
  BY <1>2 DEF Mutation, Idle
<1> HIDE DEF x
<1>4. mut'[m] = x /\ \A n \in Muts : n # m => mut'[n] = mut[n]
  BY <1>1, <1>2
<1>5. Typed'
  BY <1>1, <1>2, <1>3 DEF IInv, Typed, shared
<1>6. Changes'
  BY <1>1, <1>2, <1>3, <1>4 DEF IInv, Changes
<1>7. \A c \in working : /\ Gens[c] <= Gens'[c]
                         /\ Gens'[c] = Gens[c] => Current \subseteq Current'
  <2>1. CASE shared
    BY <1>1, <1>2, <2>1 DEF Gens, Generation, shared
  <2>2. CASE ~shared
    <3>1. \A n \in Muts : Owed(n) => Owed(n)' /\ mut'[n].v = mut[n].v
      BY <1>1, <1>3, <1>4, <2>2 DEF Owed, shared
    <3>2. Current \subseteq Current'
      BY <1>1, <3>1 DEF Current
    <3>3. Gens' = Gens
      BY <1>1, <2>2 DEF Gens, Generation, shared
    <3> QED BY <1>2, <3>2, <3>3, GensType DEF IInv
  <2> QED BY <2>1, <2>2
<1> QED BY <1>1, <1>2, <1>5, <1>6, <1>7, MutationStep

(* BustLocal keeps the invariant.                                          *)
LEMMA BustLocalKeeps == ASSUME IInv, NEW m \in Muts, BustLocal(m) PROVE IInv'
<1> DEFINE x == [mut[m] EXCEPT !.pc = "track"]
           b == mut[m].p
<1>1. /\ mut[m].pc = "drop" /\ mut' = [mut EXCEPT ![m] = x]
      /\ bytes' = [bytes EXCEPT ![b] = [k \in Keys |-> None]]
      /\ gen' = [gen EXCEPT ![b] = gen[b] + 1]
      /\ UNCHANGED <<db, working, redis, track, req, done>>
  BY DEF BustLocal
<1>2. /\ mut \in [Muts -> Mutation \cup {Idle}] /\ mut[m] \in Mutation /\ mut[m] # Idle
      /\ redis \in Nat /\ gen \in [Procs -> Nat] /\ working \subseteq Procs
      /\ bytes \in [Procs -> [Keys -> Entry \cup {None}]]
      /\ done \in Nat
  BY <1>1 DEF IInv, Typed, Idle
<1>3. x \in Mutation /\ x.v = mut[m].v /\ x.p = mut[m].p /\ x.pc = "track" /\ x # Idle
  BY <1>2 DEF Mutation, Idle
<1>4. b \in working /\ b \in Procs
  BY <1>2 DEF IInv, Changes
<1> HIDE DEF x, b
<1>5. mut'[m] = x /\ \A n \in Muts : n # m => mut'[n] = mut[n]
  BY <1>1, <1>2
<1>6. Typed'
  <2>1. bytes' \in [Procs -> [Keys -> Entry \cup {None}]]
    BY <1>1, <1>2
  <2>2. gen' \in [Procs -> Nat]
    BY <1>1, <1>2, <1>4
  <2>3. mut' \in [Muts -> Mutation \cup {Idle}]
    BY <1>1, <1>2, <1>3
  <2> QED BY <1>1, <2>1, <2>2, <2>3 DEF IInv, Typed, shared
<1>7. Changes'
  BY <1>1, <1>2, <1>3, <1>5 DEF IInv, Changes
<1>8. \A c \in working : /\ Gens[c] <= Gens'[c]
                         /\ Gens'[c] = Gens[c] => Current \subseteq Current'
  <2>1. CASE ~shared
    <3>1. \A c \in working : c = b
      BY <1>4, <2>1 DEF IInv, Typed
    <3> QED BY <1>1, <1>2, <1>4, <2>1, <3>1 DEF Gens, Generation, shared
  <2>2. CASE shared
    <3>1. \A n \in Muts : Owed(n) => Owed(n)' /\ mut'[n].v = mut[n].v
      BY <1>1, <1>3, <1>5, <2>2 DEF Owed, shared
    <3>2. Current \subseteq Current'
      BY <1>1, <3>1 DEF Current
    <3>3. Gens' = Gens
      BY <1>1, <2>2 DEF Gens, Generation, shared
    <3> QED BY <1>2, <3>2, <3>3, GensType DEF IInv
  <2> QED BY <2>1, <2>2
<1>9. \A c \in working : /\ \A k \in Keys : bytes'[c][k] \in {bytes[c][k], None}
                         /\ track'[c] \in {track[c], None}
  BY <1>1, <1>2
<1> QED BY <1>1, <1>2, <1>6, <1>7, <1>8, <1>9, MutationStep

(* BustTrack keeps the invariant.                                          *)
LEMMA BustTrackKeeps == ASSUME IInv, NEW m \in Muts, BustTrack(m) PROVE IInv'
<1>1. /\ mut[m].pc = "track" /\ mut' = [mut EXCEPT ![m] = Idle]
      /\ track' = [track EXCEPT ![mut[m].p] = None]
      /\ done' = IF mut[m].v > done THEN mut[m].v ELSE done
      /\ UNCHANGED <<db, working, redis, gen, bytes, req>>
  BY DEF BustTrack
<1>2. /\ mut \in [Muts -> Mutation \cup {Idle}] /\ mut[m] \in Mutation /\ mut[m] # Idle
      /\ track \in [Procs -> Entry \cup {None}] /\ working \subseteq Procs
      /\ db \in Nat /\ done \in Nat
  BY <1>1 DEF IInv, Typed, Idle
<1>3. mut'[m] = Idle /\ \A n \in Muts : n # m => mut'[n] = mut[n]
  BY <1>1, <1>2
<1>4. mut[m].v \in Nat /\ mut[m].v \in 1..db
  BY <1>2 DEF IInv, Changes, Mutation
<1>5. done' \in Nat /\ done <= done'
  BY <1>1, <1>2, <1>4
<1>6. Typed'
  <2>1. track' \in [Procs -> Entry \cup {None}]
    BY <1>1, <1>2
  <2>2. mut' \in [Muts -> Mutation \cup {Idle}]
    BY <1>1, <1>2
  <2> QED BY <1>1, <1>5, <2>1, <2>2 DEF IInv, Typed, shared
<1>7. Changes'
  <2>1. done' <= db'
    BY <1>1, <1>2, <1>4 DEF IInv, Changes
  <2>2. ASSUME NEW n \in Muts, mut'[n] # Idle
        PROVE  n # m /\ mut'[n] = mut[n] /\ mut[n] # Idle
    BY <1>3, <2>2
  <2>3. ASSUME NEW n \in Muts, mut'[n] # Idle
        PROVE  mut[n].v # done /\ mut[n].v # mut[m].v
    BY <1>2, <2>2, <2>3 DEF IInv, Changes
  <2> QED BY <1>1, <2>1, <2>2, <2>3 DEF IInv, Changes
<1>8. Gens' = Gens
  BY <1>1 DEF Gens, Generation, shared
<1>9. Current \subseteq Current'
  <2>1. \A n \in Muts : Owed(n) => Owed(n)' /\ mut'[n].v = mut[n].v
    BY <1>1, <1>3 DEF Owed, shared
  <2> QED BY <1>1, <2>1 DEF Current
<1>10. \A c \in working : /\ \A k \in Keys : bytes'[c][k] \in {bytes[c][k], None}
                          /\ track'[c] \in {track[c], None}
  BY <1>1, <1>2
<1>11. \A c \in working : Gens[c] <= Gens'[c]
  BY <1>2, <1>8, GensType DEF IInv
<1> QED BY <1>1, <1>5, <1>6, <1>7, <1>8, <1>9, <1>10, <1>11, MutationStep
-----------------------------------------------------------------------------
(* The invariant holds at the start, where every cache is empty.           *)
LEMMA InitIInv == Init => IInv
<1> SUFFICES ASSUME Init PROVE IInv
  OBVIOUS
<1>1. Typed
  BY DEF Init, Typed, shared
<1>2. Changes
  BY DEF Init, Changes
<1>3. Entries
  BY <1>1 DEF Init, Typed, Entries, EntryOK
<1>4. Answers
  BY DEF Init, Answers, AnswerOK
<1> QED BY <1>1, <1>2, <1>3, <1>4 DEF IInv

(* Every step keeps it: one case per group of actions.                     *)
LEMMA StepIInv == IInv /\ [Next]_vars => IInv'
<1> SUFFICES ASSUME IInv, [Next]_vars PROVE IInv'
  OBVIOUS
<1>1. CASE UNCHANGED vars
  <2>1. Typed' /\ Changes'
    BY <1>1 DEF vars, IInv, Typed, Changes, shared
  <2>2. Gens' = Gens /\ Current' = Current
    BY <1>1 DEF vars, Gens, Generation, shared, Current, Owed
  <2>3. Entries' /\ Answers'
    BY <1>1, <2>2 DEF vars, IInv, Entries, EntryOK, Answers, AnswerOK
  <2> QED BY <2>1, <2>3 DEF IInv
<1>2. CASE \E r \in Reqs, p \in Procs, kind \in Keys \cup {"warm"} : Begin(r, p, kind)
  BY <1>2, BeginKeeps
<1>3. CASE \E r \in Reqs : GetBytes(r) \/ CheckBytes(r) \/ Capture(r) \/ Load(r)
  BY <1>3, GetBytesKeeps, CheckBytesKeeps, CaptureKeeps, LoadKeeps
<1>4. CASE \E r \in Reqs : CheckStore(r) \/ Store(r) \/ GetTrack(r) \/ CheckTrack(r)
  BY <1>4, CheckStoreKeeps, StoreKeeps, GetTrackKeeps, CheckTrackKeeps
<1>5. CASE \E r \in Reqs : LockBuild(r) \/ CaptureTrack(r) \/ LoadTrack(r)
  BY <1>5, LockBuildKeeps, CaptureTrackKeeps, LoadTrackKeeps
<1>6. CASE \E r \in Reqs : CheckTrackStore(r) \/ StoreTrack(r) \/ Finish(r)
  BY <1>6, CheckTrackStoreKeeps, StoreTrackKeeps, FinishKeeps
<1>7. CASE \E p \in Procs : Evict(p)
  BY <1>7, EvictKeeps
<1>8. CASE \E m \in Muts : \/ \E p \in Procs : Commit(m, p)
                           \/ BustShared(m) \/ BustLocal(m) \/ BustTrack(m)
  BY <1>8, CommitKeeps, BustSharedKeeps, BustLocalKeeps, BustTrackKeeps
<1> QED BY <1>1, <1>2, <1>3, <1>4, <1>5, <1>6, <1>7, <1>8 DEF Next

(* The build lock: its holder is the request of that process that is       *)
(* inside.                                                                 *)
Locked ==
    /\ holder \in [Procs -> Reqs \cup {None}]
    /\ \A p \in Procs, r \in Reqs :
          holder[p] = r <=> req[r].pc \in Inside /\ req[r].p = p

(* A request that neither takes nor leaves it changes nothing,             *)
LEMMA LockFrame ==
    ASSUME Locked, NEW r \in Reqs, holder' = holder,
           \A s \in Reqs \ {r} : req'[s] = req[s],
           req'[r].pc \in Inside <=> req[r].pc \in Inside,
           req'[r].pc \in Inside => req'[r].p = req[r].p
    PROVE  Locked'
BY DEF Locked

(* and one that leaves it has held it.                                     *)
LEMMA LockLeft ==
    ASSUME Typed, Locked, None \notin Reqs, NEW r \in Reqs, req[r] \in Request,
           \A s \in Reqs \ {r} : req'[s] = req[s],
           req[r].pc \in Inside, req'[r].pc \notin Inside,
           holder' = [holder EXCEPT ![req[r].p] = None]
    PROVE  Locked'
<1>1. req[r].p \in Procs /\ holder[req[r].p] = r BY DEF Locked, Request
<1>2. holder' \in [Procs -> Reqs \cup {None}] BY DEF Locked
<1>3. ASSUME NEW p \in Procs, NEW s \in Reqs
      PROVE  holder'[p] = s <=> req'[s].pc \in Inside /\ req'[s].p = p
  <2>1. CASE s = r BY <1>1, <2>1 DEF Locked
  <2>2. CASE s # r BY <1>1, <2>2 DEF Locked
  <2> QED BY <2>1, <2>2
<1> QED BY <1>2, <1>3 DEF Locked

LEMMA StepLocked ==
    ASSUME None \notin Reqs, IInv, Locked, [Next]_vars
    PROVE  Locked'
<1> Typed BY DEF IInv
<1>a. req \in [Reqs -> Request \cup {Idle}] BY DEF Typed
<1> USE DEF Inside
<1>1. CASE UNCHANGED <<req, holder>> BY <1>1 DEF Locked
<1>2. ASSUME NEW r \in Reqs, NEW p \in Procs, NEW kind \in Keys \cup {"warm"},
             Begin(r, p, kind)
      PROVE  Locked'
  <2>1. req'[r].pc \in {"gen", "get"} BY <1>2, <1>a DEF Begin
  <2>2. /\ req[r].pc = "idle" /\ holder' = holder
        /\ \A s \in Reqs \ {r} : req'[s] = req[s]
    BY <1>2, <1>a DEF Begin, Idle
  <2> QED BY <2>1, <2>2, LockFrame
<1>3. ASSUME NEW r \in Reqs,
             \/ GetBytes(r) \/ CheckBytes(r) \/ Capture(r) \/ Load(r) \/ CheckStore(r)
             \/ Store(r) \/ GetTrack(r) \/ CaptureTrack(r) \/ LoadTrack(r) \/ Finish(r)
      PROVE  Locked'
  <2>1. req[r] \in Request /\ req[r] # Idle
    BY <1>3, AtWork DEF GetBytes, CheckBytes, Capture, Load, CheckStore, Store, GetTrack,
                        CaptureTrack, LoadTrack, Finish
  <2>2. holder' = holder /\ \A s \in Reqs \ {r} : req'[s] = req[s]
    BY <1>3, <1>a DEF GetBytes, CheckBytes, Capture, Load, CheckStore, Store, GetTrack,
                      CaptureTrack, LoadTrack, Finish, Goto, Answer
  <2>3. /\ req'[r].pc \in Inside <=> req[r].pc \in Inside
        /\ req'[r].pc \in Inside => req'[r].p = req[r].p
    <3>1. CASE GetBytes(r) BY <1>a, <2>1, <3>1 DEF GetBytes, Request
    <3>2. CASE CheckBytes(r) BY <1>a, <2>1, <3>2 DEF CheckBytes, Request
    <3>3. CASE Capture(r) BY <1>a, <2>1, <3>3 DEF Capture, Request
    <3>4. CASE Load(r) BY <1>a, <2>1, <3>4 DEF Load, Request
    <3>5. CASE CheckStore(r) BY <1>a, <2>1, <3>5 DEF CheckStore, Goto, Request
    <3>6. CASE Store(r) BY <1>a, <2>1, <3>6 DEF Store, Answer, Request
    <3>7. CASE GetTrack(r) BY <1>a, <2>1, <3>7 DEF GetTrack, Request
    <3>8. CASE CaptureTrack(r) BY <1>a, <2>1, <3>8 DEF CaptureTrack, Request
    <3>9. CASE LoadTrack(r) BY <1>a, <2>1, <3>9 DEF LoadTrack, Request
    <3>10. CASE Finish(r) BY <1>a, <2>1, <3>10 DEF Finish, Idle
    <3> QED BY <1>3, <3>1, <3>2, <3>3, <3>4, <3>5, <3>6, <3>7, <3>8, <3>9, <3>10
  <2> QED BY <2>2, <2>3, LockFrame
<1>4. ASSUME NEW r \in Reqs, LockBuild(r) PROVE Locked'
  <2>1. req[r] \in Request BY <1>4, AtWork DEF LockBuild
  <2>2. /\ holder' = [holder EXCEPT ![req[r].p] = r] /\ holder[req[r].p] = None
        /\ req' = [req EXCEPT ![r] = [req[r] EXCEPT !.pc = "track2"]] /\ req[r].pc = "lock"
    BY <1>4 DEF LockBuild, Goto
  <2> QED BY <2>1, <2>2 DEF Typed, Locked, Request
<1>5. ASSUME NEW r \in Reqs, CheckTrack(r) \/ CheckTrackStore(r) \/ StoreTrack(r)
      PROVE  Locked'
  <2>1. req[r] \in Request /\ req[r] # Idle
    BY <1>5, AtWork DEF CheckTrack, CheckTrackStore, StoreTrack
  <2>2. \A s \in Reqs \ {r} : req'[s] = req[s]
    BY <1>5, <1>a DEF CheckTrack, CheckTrackStore, StoreTrack, Goto
  <2>3. \/ /\ holder' = holder
           /\ req'[r].pc \in Inside <=> req[r].pc \in Inside
           /\ req'[r].p = req[r].p
        \/ /\ holder' = [holder EXCEPT ![req[r].p] = None]
           /\ req[r].pc \in Inside /\ req'[r].pc \notin Inside
    <3>1. CASE CheckTrack(r) BY <1>a, <2>1, <3>1 DEF CheckTrack, Goto, Request
    <3>2. CASE CheckTrackStore(r) BY <1>a, <2>1, <3>2 DEF CheckTrackStore, Goto, Request
    <3>3. CASE StoreTrack(r) BY <1>a, <2>1, <3>3 DEF StoreTrack, Goto, Request
    <3> QED BY <1>5, <3>1, <3>2, <3>3
  <2> HIDE DEF Inside
  <2> QED BY <2>1, <2>2, <2>3, LockFrame, LockLeft
<1>6. CASE \E p \in Procs : Evict(p) BY <1>1, <1>6 DEF Evict
<1>7. CASE \E m \in Muts : \/ \E p \in Procs : Commit(m, p)
                           \/ BustShared(m) \/ BustLocal(m) \/ BustTrack(m)
  BY <1>1, <1>7 DEF Commit, BustShared, BustLocal, BustTrack
<1> QED BY <1>1, <1>2, <1>3, <1>4, <1>5, <1>6, <1>7 DEF Next, vars

(* ServedFresh and AcceptedIsCurrent follow: what is current reflects      *)
(* every answered change.                                                  *)
LEMMA IInvSound == None \notin Reqs /\ IInv /\ Locked => AnswersSound
<1> SUFFICES ASSUME None \notin Reqs, IInv, Locked PROVE AnswersSound
  OBVIOUS
<1>1. ServedFresh
  BY DEF ServedFresh, IInv, Answers, AnswerOK, Idle
<1>2. \A p \in working : p \in Procs /\ Gens[p] = Generation(p)
  BY GensType DEF IInv, Typed
<1>3. \A v \in Current : v >= done
  BY CurrentIsDone DEF IInv
<1>4. AcceptedIsCurrent
  BY <1>2, <1>3 DEF AcceptedIsCurrent, IInv, Entries, EntryOK
<1>5. TypeOK
  <2>1. db \in Nat /\ done \in 0..db /\ redis \in Nat /\ gen \in [Procs -> Nat]
    BY DEF IInv, Typed, Changes
  <2>2. \A p \in Procs : /\ bytes[p] \in [Keys -> Entry \cup {None}]
                         /\ track[p] \in Entry \cup {None}
    BY DEF IInv, Typed
  <2>3. \A r \in Reqs : req[r] # Idle => req[r].p \in working
    BY DEF IInv, Answers, AnswerOK
  <2>4. \A r \in Reqs : (\E p \in Procs : holder[p] = r) <=> req[r].pc \in Inside
    BY DEF IInv, Typed, Locked, Request, Idle, Inside
  <2> QED BY <2>1, <2>2, <2>3, <2>4 DEF TypeOK
<1> QED BY <1>1, <1>4, <1>5 DEF AnswersSound

(* The inductive invariant, with the locks.                                *)
GeoInv == IInv /\ Locked

LEMMA InitGeoInv == ASSUME None \notin Reqs PROVE Init => GeoInv
<1>1. Init => Locked BY DEF Init, Locked, Idle, Inside
<1> QED BY <1>1, InitIInv DEF GeoInv

LEMMA StepGeoInv == ASSUME None \notin Reqs, GeoInv, [Next]_vars PROVE GeoInv'
BY StepIInv, StepLocked DEF GeoInv

LEMMA GeoInvSound == ASSUME None \notin Reqs, GeoInv PROVE AnswersSound
BY IInvSound DEF GeoInv

(* For any number of processes, requests and changes: no answer of         *)
(* _geo_cache_get or _track_cache_get, in any process, with or without     *)
(* Redis, is older than the last change answered before the request began, *)
(* no cache holds what a later lookup would take and should not, and one   *)
(* request at a time prepares a trip in a process.                         *)
THEOREM AnswersHold == ASSUME None \notin Reqs PROVE Spec => []AnswersSound
<1>1. GeoInv => AnswersSound BY GeoInvSound
<1>2. Init => GeoInv BY InitGeoInv
<1>3. GeoInv /\ [Next]_vars => GeoInv' BY StepGeoInv
<1> QED BY <1>1, <1>2, <1>3, PTL DEF Spec
-----------------------------------------------------------------------------
CONSTANTS Tokens, Visits, MaxEdits, MaxVisits
VARIABLES version, token, spent, trip, features, tile, job, visit, owner, shown, overlap, visits
S == INSTANCE ShareLinks WITH MaxVersion <- MaxEdits

(* ShareLinks.  What is cached is a version or nothing.                    *)
Cached == Nat \cup {None}
Job == [at : {"none", "queued", "built", "running"}, v : Nat, fills : BOOLEAN]
Visitor == [pc : {"tile", "trip", "fill", "have", "draw"}, why : {"none"},
            kind : {"trip", "tile"}, token : Tokens, v : Nat]
OwnerCall == [pc : {"rmtree", "forget", "commit"}, why : {"edit", "revoke"}, kind : {"none"},
          token : Tokens, v : {0}]

LinksTyped ==
    /\ version \in Nat
    /\ token \in Tokens \cup {None}
    /\ spent \in SUBSET Tokens
    /\ trip \in [Tokens -> Cached] /\ features \in [Tokens -> Cached]
    /\ tile \in [Tokens -> Cached]
    /\ job \in [Tokens -> Job]
    /\ visit \in [Visits -> Visitor \cup {S!Idle}]
    /\ shown \in [Tokens -> Nat]
    /\ \A t \in Tokens : shown[t] <= version
    /\ owner = S!Idle \/ (owner \in OwnerCall /\ owner.token = token)

(* A version that is no older than the last finished refresh of the link.  *)
Recent(t, v) == v # None => v >= shown[t]

(* Everything made for the link is recent, and what a visit holds or the   *)
(* pool was given will be.                                                 *)
AllRecent(t) ==
    /\ Recent(t, trip[t]) /\ Recent(t, features[t]) /\ Recent(t, tile[t])
    /\ job[t] # S!NoJob => job[t].v >= shown[t]
    /\ \A r \in Visits : visit[r].token = t /\ visit[r].pc \in {"fill", "have", "draw"}
                            => visit[r].v >= shown[t]

(* A link that is not the trip's has nothing, and no visit to it gets      *)
(* further than the lookup of its row.                                     *)
DeadUnlessToken(t) ==
    token # t => /\ trip[t] = None /\ features[t] = None /\ tile[t] = None
                 /\ job[t] = S!NoJob
                 /\ \A r \in Visits : visit[r].token = t => visit[r].pc \in {"tile", "trip"}

(* While the owner's request is at work on the link nobody else is, and    *)
(* what it has dropped stays away.                                         *)
OwnerAlone(t) ==
    owner.token = t =>
        /\ ~S!Visiting(t) /\ ~S!Started(t)
        /\ owner.pc \in {"forget", "commit"} => tile[t] = None
        /\ owner.pc = "commit" =>
              /\ trip[t] = None /\ features[t] = None
              /\ job[t] # S!NoJob => owner.why = "edit" /\ job[t].v = version

LinkOK(t) == AllRecent(t) /\ DeadUnlessToken(t) /\ OwnerAlone(t)
LinkInv == LinksTyped /\ \A t \in Tokens \ overlap : LinkOK(t)

(* A step that touches one link at most.                                   *)
TouchesOnly(t) ==
    /\ overlap \subseteq overlap'
    /\ \A u \in Tokens \ {t} :
          /\ trip'[u] = trip[u] /\ features'[u] = features[u] /\ tile'[u] = tile[u]
          /\ job'[u] = job[u] /\ shown'[u] = shown[u]
          /\ token = u => token' = u
          /\ \A r \in Visits : visit'[r].token = u => visit'[r] = visit[r]
          /\ owner'.token = u => owner' = owner /\ version' = version

(* Such a step leaves every other link as it should be.                    *)
LEMMA OneLinkStep ==
    ASSUME LinkInv, LinksTyped', NEW t \in Tokens, TouchesOnly(t),
           t \notin overlap' => LinkOK(t)'
    PROVE  LinkInv'
<1> SUFFICES ASSUME NEW u \in Tokens \ overlap', u # t PROVE LinkOK(u)'
  BY DEF LinkInv
<1>1. LinkOK(u) BY DEF LinkInv, TouchesOnly
<1>2. /\ trip'[u] = trip[u] /\ features'[u] = features[u] /\ tile'[u] = tile[u]
      /\ job'[u] = job[u] /\ shown'[u] = shown[u]
      /\ token = u => token' = u
      /\ \A r \in Visits : visit'[r].token = u => visit'[r] = visit[r]
      /\ owner'.token = u => owner' = owner /\ version' = version
  BY DEF TouchesOnly
<1>3. AllRecent(u)' BY <1>1, <1>2 DEF LinkOK, AllRecent, Recent
<1>4. DeadUnlessToken(u)' BY <1>1, <1>2 DEF LinkOK, DeadUnlessToken
<1>5. OwnerAlone(u)' BY <1>1, <1>2 DEF LinkOK, OwnerAlone, S!Visiting, S!Started
<1> QED BY <1>3, <1>4, <1>5 DEF LinkOK

(* A visit's step, which leaves the trip and its owner's request alone.    *)
LEMMA VisitStep ==
    ASSUME None \notin Tokens, LinkInv, NEW r \in Visits, NEW x \in Visitor \cup {S!Idle},
           NEW t \in Tokens,
           x.token \in {t, None},
           visit' = [visit EXCEPT ![r] = x],
           UNCHANGED <<version, token, spent, owner, shown>>, overlap \subseteq overlap',
           trip' \in [Tokens -> Cached], features' \in [Tokens -> Cached],
           tile' \in [Tokens -> Cached], job' \in [Tokens -> Job],
           \A u \in Tokens \ {t} : /\ trip'[u] = trip[u] /\ features'[u] = features[u]
                                   /\ tile'[u] = tile[u] /\ job'[u] = job[u],
           t \notin overlap' => LinkOK(t)'
    PROVE  LinkInv'
<1>1. LinksTyped' BY DEF LinkInv, LinksTyped
<1>2. TouchesOnly(t) BY DEF LinkInv, LinksTyped, TouchesOnly
<1> QED BY <1>1, <1>2, OneLinkStep

(* What the invariant says of the link of a visit under way: unless the    *)
(* link is marked, the owner's request is not at work on it.               *)
LEMMA Visitors ==
    ASSUME LinkInv, NEW r \in Visits, visit[r].pc # "idle"
    PROVE  /\ visit[r] \in Visitor /\ visit[r].token \in Tokens
           /\ visit[r].token \notin overlap => LinkOK(visit[r].token) /\ owner.token # visit[r].token
BY DEF LinkInv, LinksTyped, LinkOK, OwnerAlone, S!Visiting, S!Idle, Visitor

LEMMA VisitKeeps ==
    ASSUME None \notin Tokens, LinkInv, NEW r \in Visits, NEW t \in Tokens,
           NEW kind \in {"trip", "tile"},
           S!Visit(r, t, kind)
    PROVE  LinkInv'
<1> DEFINE x == [S!Idle EXCEPT !.pc = kind, !.kind = kind, !.token = t]
<1>1. x \in Visitor BY DEF Visitor, S!Idle
<1>2. /\ visit' = [visit EXCEPT ![r] = x] /\ x.token = t /\ x.pc \in {"trip", "tile"}
      /\ UNCHANGED <<version, token, spent, trip, features, tile, job, owner, shown>>
      /\ overlap \subseteq overlap'
      /\ t \notin overlap' => owner.token # t
  BY DEF S!Visit, S!cached, S!Idle
<1> HIDE DEF x
<1>3. t \notin overlap' => LinkOK(t)'
  <2> SUFFICES ASSUME t \notin overlap' PROVE LinkOK(t)' OBVIOUS
  <2>1. LinkOK(t) /\ owner.token # t BY <1>2 DEF LinkInv
  <2>2. \A s \in Visits : visit'[s] = visit[s] \/ (visit'[s].pc \in {"trip", "tile"})
    BY <1>2 DEF LinkInv, LinksTyped
  <2>3. AllRecent(t)' BY <1>2, <2>1, <2>2 DEF LinkOK, AllRecent, Recent
  <2>4. DeadUnlessToken(t)' BY <1>2, <2>1, <2>2 DEF LinkOK, DeadUnlessToken
  <2>5. OwnerAlone(t)' BY <1>2, <2>1 DEF OwnerAlone
  <2> QED BY <2>3, <2>4, <2>5 DEF LinkOK
<1>4. /\ trip' \in [Tokens -> Cached] /\ features' \in [Tokens -> Cached]
      /\ tile' \in [Tokens -> Cached] /\ job' \in [Tokens -> Job]
  BY <1>2 DEF LinkInv, LinksTyped
<1> QED BY <1>1, <1>2, <1>3, <1>4, VisitStep

(* The lookups: what a visit takes along is recent and of a live link.     *)
LEMMA LookKeeps ==
    ASSUME None \notin Tokens, LinkInv, NEW r \in Visits, S!TileOnDisk(r) \/ S!FindTrip(r)
    PROVE  LinkInv'
<1> PICK l \in Tokens : l = visit[r].token
  BY Visitors DEF S!TileOnDisk, S!FindTrip
<1>1. /\ visit[r] \in Visitor /\ l = visit[r].token
      /\ l \notin overlap => LinkOK(l) /\ owner.token # l
  BY Visitors DEF S!TileOnDisk, S!FindTrip
<1>2. /\ UNCHANGED <<version, token, spent, trip, features, tile, job, owner, shown, overlap>>
      /\ visit[r].pc \in {"tile", "trip"}
  BY DEF S!TileOnDisk, S!FindTrip, S!cached
<1>3. PICK x \in Visitor \cup {S!Idle} :
         /\ visit' = [visit EXCEPT ![r] = x]
         /\ x = S!Idle \/ x.token = l
         /\ \/ x.pc \in {"idle", "tile", "trip"}
            \/ x.v \in {trip[l], features[l]} \ {None}
            \/ token = l /\ x.v = version
  <2>1. trip[l] \in Cached /\ features[l] \in Cached /\ version \in Nat
    BY <1>1 DEF LinkInv, LinksTyped
  <2>2. CASE S!TileOnDisk(r)
    <3>1. CASE tile[l] # None BY <1>1, <3>1, <2>2 DEF S!TileOnDisk, S!Served, S!Idle
    <3>2. CASE tile[l] = None /\ features[l] # None
      <4> DEFINE y == [visit[r] EXCEPT !.pc = "draw", !.v = features[l]]
      <4>1. visit' = [visit EXCEPT ![r] = y] BY <1>1, <3>2, <2>2 DEF S!TileOnDisk
      <4>2. y \in Visitor /\ y.token = l /\ y.v = features[l] BY <1>1, <2>1, <3>2 DEF Visitor, Cached
      <4> QED BY <4>1, <4>2, <3>2
    <3>3. CASE tile[l] = None /\ features[l] = None
      <4> DEFINE y == [visit[r] EXCEPT !.pc = "trip"]
      <4>1. visit' = [visit EXCEPT ![r] = y] BY <1>1, <3>3, <2>2 DEF S!TileOnDisk
      <4>2. y \in Visitor /\ y.token = l /\ y.pc = "trip" BY <1>1 DEF Visitor
      <4> QED BY <4>1, <4>2
    <3> QED BY <3>1, <3>2, <3>3
  <2>3. CASE S!FindTrip(r)
    <3>1. CASE trip[l] # None
      <4> DEFINE y == [visit[r] EXCEPT !.pc = "have", !.v = trip[l]]
      <4>1. visit' = [visit EXCEPT ![r] = y] BY <3>1, <2>3, <1>1 DEF S!FindTrip, LinkInv, LinksTyped
      <4>2. y \in Visitor /\ y.token = l /\ y.v = trip[l] BY <1>1, <2>1, <3>1 DEF Visitor, Cached
      <4> QED BY <4>1, <4>2, <3>1
    <3>2. CASE trip[l] = None /\ token = l
      <4> DEFINE y == [visit[r] EXCEPT !.pc = "fill", !.v = version]
      <4>1. visit' = [visit EXCEPT ![r] = y] BY <3>2, <2>3, <1>1 DEF S!FindTrip, LinkInv, LinksTyped
      <4>2. y \in Visitor /\ y.token = l /\ y.v = version BY <1>1, <2>1 DEF Visitor
      <4> QED BY <4>1, <4>2, <3>2
    <3>3. CASE trip[l] = None /\ token # l BY <1>1, <3>3, <2>3 DEF S!FindTrip, S!Served, S!Idle
    <3> QED BY <3>1, <3>2, <3>3
  <2> QED BY <2>2, <2>3
<1>4. x.token \in {l, None} BY <1>3 DEF S!Idle
<1>5. ASSUME l \notin overlap' PROVE LinkOK(l)'
  <2>1. LinkOK(l) /\ owner.token # l BY <1>1, <1>2, <1>5
  <2>2. \A s \in Visits : visit'[s] = visit[s] \/ visit'[s] = x
    BY <1>3 DEF LinkInv, LinksTyped
  <2>3. x.pc \in {"idle", "tile", "trip"} \/ (x.v >= shown[l] /\ token = l)
    BY <1>1, <1>3, <2>1 DEF LinkInv, LinksTyped, LinkOK, AllRecent, Recent, DeadUnlessToken
  <2>4. AllRecent(l)' BY <1>2, <2>1, <2>2, <2>3 DEF LinkOK, AllRecent, Recent
  <2>5. x.token = l => x.pc # "idle" BY <1>1, <1>3 DEF S!Idle, Visitor
  <2>6. DeadUnlessToken(l)' BY <1>2, <2>1, <2>2, <2>3, <2>5 DEF LinkOK, DeadUnlessToken
  <2>7. OwnerAlone(l)' BY <1>2, <2>1 DEF OwnerAlone
  <2> QED BY <2>4, <2>6, <2>7 DEF LinkOK
<1>6. /\ trip' \in [Tokens -> Cached] /\ features' \in [Tokens -> Cached]
      /\ tile' \in [Tokens -> Cached] /\ job' \in [Tokens -> Job]
  BY <1>2 DEF LinkInv, LinksTyped
<1> QED BY <1>1, <1>2, <1>3, <1>4, <1>5, <1>6, VisitStep

(* What a visit then stores or answers with is recent, of a link that is   *)
(* the trip's.                                                             *)
LEMMA FillKeeps ==
    ASSUME None \notin Tokens, LinkInv, NEW r \in Visits, S!FillTrip(r) \/ S!UseTrip(r) \/ S!Draw(r)
    PROVE  LinkInv'
<1> PICK l \in Tokens : l = visit[r].token
  BY Visitors DEF S!FillTrip, S!UseTrip, S!Draw
<1>1. /\ visit[r] \in Visitor /\ l = visit[r].token
      /\ visit[r].pc \in {"fill", "have", "draw"}
      /\ l \notin overlap => LinkOK(l) /\ owner.token # l
  BY Visitors DEF S!FillTrip, S!UseTrip, S!Draw
<1>2. UNCHANGED <<version, token, spent, owner, shown, overlap>>
  BY DEF S!FillTrip, S!UseTrip, S!Draw
<1>t. /\ trip \in [Tokens -> Cached] /\ features \in [Tokens -> Cached]
      /\ tile \in [Tokens -> Cached] /\ job \in [Tokens -> Job]
      /\ visit \in [Visits -> Visitor \cup {S!Idle}]
      /\ visit[r].v \in Nat /\ visit[r].v \in Cached
  BY <1>1 DEF LinkInv, LinksTyped, Visitor, Cached
<1>3. \E x \in Visitor \cup {S!Idle} :
         /\ visit' = [visit EXCEPT ![r] = x]
         /\ x = S!Idle \/ (x.token = l /\ x.v = visit[r].v)
  <2>1. \A pc \in {"have", "draw"} : LET y == [visit[r] EXCEPT !.pc = pc]
                                     IN  y \in Visitor /\ y.token = l /\ y.v = visit[r].v
    BY <1>1 DEF Visitor
  <2>2. \/ visit' = [visit EXCEPT ![r] = S!Idle]
        \/ \E pc \in {"have", "draw"} : visit' = [visit EXCEPT ![r] = [visit[r] EXCEPT !.pc = pc]]
    BY <1>t DEF S!FillTrip, S!UseTrip, S!Draw, S!Served
  <2> QED BY <2>1, <2>2
<1>4. /\ trip' \in {trip, [trip EXCEPT ![l] = visit[r].v]}
      /\ features' \in {features, [features EXCEPT ![l] = visit[r].v]}
      /\ tile' \in {tile, [tile EXCEPT ![l] = visit[r].v]}
      /\ job' \in {job, [job EXCEPT ![l] = [at |-> "queued", v |-> visit[r].v, fills |-> FALSE]]}
  BY <1>1 DEF S!FillTrip, S!UseTrip, S!Draw
<1>5. /\ trip' \in [Tokens -> Cached] /\ features' \in [Tokens -> Cached]
      /\ tile' \in [Tokens -> Cached] /\ job' \in [Tokens -> Job]
      /\ \A u \in Tokens \ {l} : /\ trip'[u] = trip[u] /\ features'[u] = features[u]
                                 /\ tile'[u] = tile[u] /\ job'[u] = job[u]
  <2>1. [at |-> "queued", v |-> visit[r].v, fills |-> FALSE] \in Job BY <1>t DEF Job
  <2>2. job' \in [Tokens -> Job] BY <1>t, <1>4, <2>1
  <2> QED BY <1>t, <1>4, <2>2
<1>6. ASSUME l \notin overlap' PROVE LinkOK(l)'
  <2>1. LinkOK(l) /\ owner.token # l BY <1>1, <1>2, <1>6
  <2>2. visit[r].v >= shown[l] /\ token = l
    BY <1>1, <2>1 DEF LinkOK, AllRecent, DeadUnlessToken
  <2>3. \A s \in Visits : visit'[s].token = l => visit'[s].v \in {visit[s].v, visit[r].v}
                                                /\ (visit'[s] = visit[s] \/ visit'[s].v = visit[r].v)
    BY <1>3, <1>t DEF S!Idle
  <2>4. /\ trip'[l] \in {trip[l], visit[r].v} /\ features'[l] \in {features[l], visit[r].v}
        /\ tile'[l] \in {tile[l], visit[r].v}
        /\ job'[l] = job[l] \/ job'[l].v = visit[r].v
    BY <1>t, <1>4
  <2>5. AllRecent(l)' BY <1>2, <2>1, <2>2, <2>3, <2>4 DEF LinkOK, AllRecent, Recent
  <2>6. DeadUnlessToken(l)' /\ OwnerAlone(l)' BY <1>2, <2>1, <2>2 DEF DeadUnlessToken, OwnerAlone
  <2> QED BY <2>5, <2>6 DEF LinkOK
<1>7. PICK x \in Visitor \cup {S!Idle} :
         visit' = [visit EXCEPT ![r] = x] /\ x.token \in {l, None}
  BY <1>3 DEF S!Idle
<1> QED BY <1>2, <1>5, <1>6, <1>7, VisitStep

(* Expiry and the pool.  A render that starts while the owner's request is *)
(* at work marks the link; one that was running then would have too.       *)
LEMMA PoolKeeps ==
    ASSUME None \notin Tokens, LinkInv, NEW t \in Tokens,
           S!Expire(t) \/ S!StartRender(t) \/ S!Render(t) \/ S!EndRender(t)
    PROVE  LinkInv'
<1>1. /\ UNCHANGED <<version, token, spent, visit, owner, shown>> /\ overlap \subseteq overlap'
  BY DEF S!Expire, S!StartRender, S!Render, S!EndRender
<1>t. /\ trip \in [Tokens -> Cached] /\ features \in [Tokens -> Cached]
      /\ tile \in [Tokens -> Cached] /\ job \in [Tokens -> Job]
      /\ job[t] \in Job /\ job[t].v \in Cached
  BY DEF LinkInv, LinksTyped, Job, Cached
<1>2. /\ trip' \in {trip, [trip EXCEPT ![t] = None]}
      /\ features' \in {features, [features EXCEPT ![t] = job[t].v]}
      /\ tile' \in {tile, [tile EXCEPT ![t] = job[t].v]}
      /\ \/ job' = job
         \/ job' = [job EXCEPT ![t] = S!NoJob]
         \/ \E at \in {"built", "running"} : job' = [job EXCEPT ![t] = [job[t] EXCEPT !.at = at]]
  BY <1>t DEF S!Expire, S!StartRender, S!Render, S!EndRender, S!cached
<1>3. /\ trip' \in [Tokens -> Cached] /\ features' \in [Tokens -> Cached]
      /\ tile' \in [Tokens -> Cached] /\ job' \in [Tokens -> Job]
  <2>1. trip' \in [Tokens -> Cached] /\ features' \in [Tokens -> Cached]
        /\ tile' \in [Tokens -> Cached]
    BY <1>t, <1>2 DEF Cached
  <2>2. S!NoJob \in Job BY DEF S!NoJob, Job
  <2>3. \A at \in {"built", "running"} : [job[t] EXCEPT !.at = at] \in Job BY <1>t DEF Job
  <2>4. job' \in [Tokens -> Job] BY <1>t, <1>2, <2>2, <2>3
  <2> QED BY <2>1, <2>4
<1>4. LinksTyped' BY <1>1, <1>3 DEF LinkInv, LinksTyped
<1>5. TouchesOnly(t) BY <1>1, <1>2, <1>t DEF TouchesOnly
<1>6. ASSUME t \notin overlap' PROVE LinkOK(t)'
  <2>1. LinkOK(t) BY <1>1, <1>6 DEF LinkInv
  <2>2. CASE S!Expire(t)
    <3>1. UNCHANGED <<features, tile, job>> /\ trip'[t] = None BY <2>2, <1>t DEF S!Expire
    <3> QED BY <1>1, <2>1, <3>1 DEF LinkOK, AllRecent, Recent, DeadUnlessToken, OwnerAlone,
                                   S!Visiting, S!Started
  <2>3. CASE ~S!Expire(t)
    <3>1. job[t] # S!NoJob /\ UNCHANGED trip
      BY <2>3 DEF S!StartRender, S!Render, S!EndRender, S!NoJob, S!cached
    <3>2. token = t /\ job[t].v >= shown[t]
      BY <2>1, <3>1 DEF LinkOK, AllRecent, DeadUnlessToken
    <3>3. owner.token # t
      BY <1>6, <2>1, <2>3 DEF S!StartRender, S!Render, S!EndRender, LinkOK, OwnerAlone, S!Started
    <3>4. /\ features'[t] \in {features[t], job[t].v} /\ tile'[t] \in {tile[t], job[t].v}
          /\ job'[t] = S!NoJob \/ job'[t].v = job[t].v
      BY <1>t, <1>2 DEF Job
    <3>5. AllRecent(t)' BY <1>1, <2>1, <3>1, <3>2, <3>4 DEF LinkOK, AllRecent, Recent
    <3>6. DeadUnlessToken(t)' /\ OwnerAlone(t)' BY <1>1, <3>2, <3>3 DEF DeadUnlessToken, OwnerAlone
    <3> QED BY <3>5, <3>6 DEF LinkOK
  <2> QED BY <2>2, <2>3
<1> QED BY <1>4, <1>5, <1>6, OneLinkStep

(* The link is made.                                                       *)
LEMMA CreateKeeps ==
    ASSUME None \notin Tokens, LinkInv, NEW t \in Tokens, S!Create(t)
    PROVE  LinkInv'
<1>1. /\ token' = t /\ token = None /\ spent' = spent \cup {t} /\ owner = S!Idle
      /\ UNCHANGED <<version, trip, features, tile, job, visit, owner, shown, overlap>>
  BY DEF S!Create, S!cached
<1>2. LinksTyped' BY <1>1 DEF LinkInv, LinksTyped
<1>3. TouchesOnly(t) BY <1>1 DEF TouchesOnly
<1>4. ASSUME t \notin overlap' PROVE LinkOK(t)'
  BY <1>1, <1>4 DEF LinkInv, LinkOK, AllRecent, Recent, DeadUnlessToken, OwnerAlone, S!Idle
<1> QED BY <1>2, <1>3, <1>4, OneLinkStep

(* The owner's request, from its start to its end.                         *)
LEMMA OwnerKeeps ==
    ASSUME None \notin Tokens, LinkInv,
           \/ \E why \in {"edit", "revoke"} : S!Begin(why)
           \/ S!RemoveTiles \/ S!Forget \/ S!Commit
    PROVE  LinkInv'
<1> PICK t \in Tokens : t = token
  BY DEF S!Begin, S!RemoveTiles, S!Forget, S!Commit, LinkInv, LinksTyped, S!Idle, OwnerCall
<1>t. LinksTyped BY DEF LinkInv
<1>1. CASE \E why \in {"edit", "revoke"} : S!Begin(why)
  <2> PICK why \in {"edit", "revoke"} : S!Begin(why) BY <1>1
  <2>1. /\ owner = S!Idle /\ version' \in {version, version + 1}
        /\ owner' = [S!Idle EXCEPT !.pc = "rmtree", !.why = why, !.token = t]
        /\ UNCHANGED <<token, spent, trip, features, tile, job, visit, shown>>
        /\ overlap \subseteq overlap'
        /\ t \notin overlap' => ~S!Visiting(t) /\ ~S!Started(t)
    BY DEF S!Begin, S!cached
  <2>2. owner' \in OwnerCall /\ owner'.token = t /\ owner'.pc = "rmtree" BY <2>1 DEF OwnerCall, S!Idle
  <2>3. LinksTyped' BY <1>t, <2>1, <2>2 DEF LinksTyped
  <2>4. TouchesOnly(t) BY <2>1, <2>2 DEF TouchesOnly
  <2>5. ASSUME t \notin overlap' PROVE LinkOK(t)'
    <3>1. LinkOK(t) BY <2>1, <2>5 DEF LinkInv
    <3>2. ~S!Visiting(t)' /\ ~S!Started(t)' BY <2>1, <2>5 DEF S!Visiting, S!Started
    <3>3. AllRecent(t)' /\ DeadUnlessToken(t)'
      BY <2>1, <3>1 DEF LinkOK, AllRecent, Recent, DeadUnlessToken
    <3>4. OwnerAlone(t)' BY <2>2, <3>2 DEF OwnerAlone
    <3> QED BY <3>3, <3>4 DEF LinkOK
  <2> QED BY <2>3, <2>4, <2>5, OneLinkStep
<1>2. CASE S!RemoveTiles
  <2>1. owner \in OwnerCall /\ owner.token = t BY <1>2, <1>t DEF S!RemoveTiles, LinksTyped, S!Idle
  <2>2. /\ owner.pc = "rmtree" /\ owner' = [owner EXCEPT !.pc = "forget"]
        /\ tile' = [tile EXCEPT ![t] = None]
        /\ UNCHANGED <<version, token, spent, trip, features, job, visit, shown, overlap>>
    BY <1>2, <2>1 DEF S!RemoveTiles
  <2>3. owner' \in OwnerCall /\ owner'.token = t /\ owner'.pc = "forget" BY <2>1, <2>2 DEF OwnerCall
  <2>4. LinksTyped' BY <1>t, <2>2, <2>3 DEF LinksTyped, Cached
  <2>5. TouchesOnly(t) BY <1>t, <2>2, <2>3 DEF TouchesOnly, LinksTyped
  <2>6. ASSUME t \notin overlap' PROVE LinkOK(t)'
    <3>1. LinkOK(t) /\ tile'[t] = None BY <1>t, <2>2, <2>6 DEF LinkInv, LinksTyped
    <3>2. AllRecent(t)' /\ DeadUnlessToken(t)'
      BY <2>2, <3>1 DEF LinkOK, AllRecent, Recent, DeadUnlessToken
    <3>3. OwnerAlone(t)'
      BY <2>1, <2>2, <2>3, <3>1 DEF LinkOK, OwnerAlone, S!Visiting, S!Started
    <3> QED BY <3>2, <3>3 DEF LinkOK
  <2> QED BY <2>4, <2>5, <2>6, OneLinkStep
<1>3. CASE S!Forget
  <2>1. owner \in OwnerCall /\ owner.token = t BY <1>3, <1>t DEF S!Forget, LinksTyped, S!Idle
  <2>2. /\ owner.pc = "forget" /\ owner' = [owner EXCEPT !.pc = "commit"]
        /\ features' = [features EXCEPT ![t] = None] /\ trip' = [trip EXCEPT ![t] = None]
        /\ job' = [job EXCEPT ![t] = S!NextJob(t)]
        /\ UNCHANGED <<version, token, spent, tile, visit, shown, overlap>>
    BY <1>3, <2>1 DEF S!Forget
  <2>3. /\ owner' \in OwnerCall /\ owner'.token = t /\ owner'.pc = "commit"
        /\ owner'.why = owner.why /\ owner.why \in {"edit", "revoke"}
    BY <2>1, <2>2 DEF OwnerCall
  <2>4. S!NextJob(t) \in Job BY <1>t DEF S!NextJob, S!NoJob, Job, LinksTyped
  <2>5. LinksTyped' BY <1>t, <2>2, <2>3, <2>4 DEF LinksTyped, Cached
  <2>6. TouchesOnly(t) BY <1>t, <2>2, <2>3 DEF TouchesOnly, LinksTyped
  <2>7. ASSUME t \notin overlap' PROVE LinkOK(t)'
    <3>1. LinkOK(t) BY <2>2, <2>7 DEF LinkInv
    <3>2. /\ trip'[t] = None /\ features'[t] = None /\ job'[t] = S!NextJob(t)
          /\ tile'[t] = None /\ ~S!Visiting(t) /\ ~S!Started(t)
      BY <1>t, <2>1, <2>2, <3>1 DEF LinksTyped, LinkOK, OwnerAlone
    <3>3. \/ job'[t] = S!NoJob
          \/ /\ owner.why = "edit" /\ job'[t] = [at |-> "queued", v |-> version, fills |-> TRUE]
      BY <3>2 DEF S!NextJob
    <3>4. shown[t] <= version BY <1>t DEF LinksTyped
    <3>5. AllRecent(t)' BY <1>t, <2>2, <3>1, <3>2, <3>3, <3>4 DEF LinksTyped, LinkOK, AllRecent, Recent
    <3>6. DeadUnlessToken(t)' BY <2>2 DEF DeadUnlessToken
    <3>7. ~S!Visiting(t)' /\ ~S!Started(t)'
      BY <2>2, <3>2, <3>3 DEF S!Visiting, S!Started, S!NoJob
    <3>8. OwnerAlone(t)' BY <2>2, <2>3, <3>2, <3>3, <3>7 DEF OwnerAlone
    <3> QED BY <3>5, <3>6, <3>8 DEF LinkOK
  <2> QED BY <2>5, <2>6, <2>7, OneLinkStep
<1>4. CASE S!Commit
  <2>1. owner \in OwnerCall /\ owner.token = t BY <1>4, <1>t DEF S!Commit, LinksTyped, S!Idle
  <2>2. /\ owner.pc = "commit" /\ owner' = S!Idle
        /\ token' = IF owner.why = "revoke" THEN None ELSE token
        /\ shown' = IF owner.why = "edit" THEN [shown EXCEPT ![t] = version] ELSE shown
        /\ UNCHANGED <<version, spent, trip, features, tile, job, visit, overlap>>
    BY <1>4, <2>1 DEF S!Commit, S!cached
  <2>3. owner'.token = None BY <2>2 DEF S!Idle
  <2>4. LinksTyped' BY <1>t, <2>2 DEF LinksTyped
  <2>5. TouchesOnly(t) BY <1>t, <2>2, <2>3 DEF TouchesOnly, LinksTyped
  <2>6. ASSUME t \notin overlap' PROVE LinkOK(t)'
    <3>1. /\ tile[t] = None /\ trip[t] = None /\ features[t] = None /\ ~S!Visiting(t)
          /\ job[t] # S!NoJob => owner.why = "edit" /\ job[t].v = version
      BY <2>1, <2>2, <2>6 DEF LinkInv, LinkOK, OwnerAlone
    <3>2. shown'[t] \in {shown[t], version} /\ shown[t] <= version /\ shown[t] \in Nat
          /\ version \in Nat
      BY <1>t, <2>2 DEF LinksTyped
    <3>3. AllRecent(t)' BY <2>2, <3>1, <3>2 DEF AllRecent, Recent, S!Visiting
    <3>4. owner.why \in {"edit", "revoke"} BY <2>1 DEF OwnerCall
    <3>5. DeadUnlessToken(t)' BY <2>2, <3>1, <3>4 DEF DeadUnlessToken, S!Visiting
    <3>6. OwnerAlone(t)' BY <2>3 DEF OwnerAlone
    <3> QED BY <3>3, <3>5, <3>6 DEF LinkOK
  <2> QED BY <2>4, <2>5, <2>6, OneLinkStep
<1> QED BY <1>1, <1>2, <1>3, <1>4

LEMMA InitLinkInv == None \notin Tokens /\ S!Init => LinkInv
<1> SUFFICES ASSUME None \notin Tokens, S!Init PROVE LinkInv OBVIOUS
<1>1. LinksTyped BY DEF S!Init, LinksTyped, Cached, Job, S!NoJob
<1>2. \A r \in Visits : visit[r] = S!Idle BY DEF S!Init
<1>3. ASSUME NEW t \in Tokens PROVE LinkOK(t)
  BY <1>2, <1>3 DEF S!Init, LinkOK, AllRecent, Recent, DeadUnlessToken, OwnerAlone, S!Idle
<1> QED BY <1>1, <1>3 DEF LinkInv

LEMMA StepLinkInv == ASSUME None \notin Tokens, LinkInv, [S!Next]_(S!vars) PROVE LinkInv'
<1>1. CASE UNCHANGED S!vars
  BY <1>1 DEF S!vars, LinkInv, LinksTyped, LinkOK, AllRecent, Recent, DeadUnlessToken, OwnerAlone,
              S!Visiting, S!Started
<1>2. CASE \E r \in Visits, t \in Tokens, kind \in {"trip", "tile"} : S!Visit(r, t, kind)
  BY <1>2, VisitKeeps
<1>3. CASE \E r \in Visits : \/ S!TileOnDisk(r) \/ S!FindTrip(r) \/ S!FillTrip(r)
                             \/ S!UseTrip(r) \/ S!Draw(r)
  BY <1>3, LookKeeps, FillKeeps
<1>4. CASE \E t \in Tokens : \/ S!Expire(t) \/ S!StartRender(t) \/ S!Render(t)
                             \/ S!EndRender(t) \/ S!Create(t)
  BY <1>4, PoolKeeps, CreateKeeps
<1>5. CASE (\E why \in {"edit", "revoke"} : S!Begin(why)) \/ S!RemoveTiles \/ S!Forget \/ S!Commit
  BY <1>5, OwnerKeeps
<1> QED BY <1>1, <1>2, <1>3, <1>4, <1>5 DEF S!Next

LEMMA LinkInvSound == LinkInv => S!RevokedLinkDead /\ S!TilesFollowEdits
BY DEF LinkInv, LinksTyped, LinkOK, AllRecent, Recent, DeadUnlessToken, S!RevokedLinkDead,
       S!TilesFollowEdits

(* For any number of links, visits and edits: a revoked link serves        *)
(* nothing, and after an edit's refresh nothing older is shown, unless a   *)
(* visit or a render ran into the revoke or the refresh.                   *)
THEOREM LinksHold ==
    ASSUME None \notin Tokens PROVE S!Spec => [](S!RevokedLinkDead /\ S!TilesFollowEdits)
<1>1. S!Spec => []LinkInv BY InitLinkInv, StepLinkInv, PTL DEF S!Spec
<1> QED BY <1>1, LinkInvSound, PTL
-----------------------------------------------------------------------------
(* Coalesced, for any number of background tasks and changes.              *)
CONSTANTS Threads, MaxChanges
VARIABLES newest, running, dirty, thread, artefact, asked, raised
C == INSTANCE Coalesced WITH version <- newest

Busy == {"read", "write", "look", "leave"}
Tasks == [pc : {"idle", "call"} \cup Busy, v : Nat]

(* The tasks, the flags and the versions keep their types, and no version  *)
(* is ahead of the trip's.                                                 *)
TasksTyped ==
    /\ newest \in Nat /\ artefact \in Nat /\ asked \in Nat
    /\ asked <= newest
    /\ running \in BOOLEAN /\ dirty \in BOOLEAN /\ raised \in BOOLEAN
    /\ thread \in [Threads -> Tasks]
    /\ \A t \in Threads : thread[t].v <= newest

(* _coalesce_state[key]["running"] is a lock: one task at work while it is *)
(* set, none while it is not.                                              *)
OneAtWork ==
    /\ \A t, u \in Threads : thread[t].pc \in Busy /\ thread[u].pc \in Busy => t = u
    /\ running <=> \E t \in Threads : thread[t].pc \in Busy

(* What a pass holds or has written is the newest version asked for, or    *)
(* the mark says that another pass is needed.                              *)
PassKnows ==
    \A t \in Threads :
        /\ C!At(t, "write") => artefact <= thread[t].v /\ (dirty \/ thread[t].v >= asked)
        /\ C!At(t, "look") => dirty \/ artefact >= asked
        /\ C!At(t, "leave") => dirty \/ raised \/ artefact >= asked

(* The inductive invariant.                                                *)
TaskInv == TasksTyped /\ artefact <= newest /\ OneAtWork /\ PassKnows /\ C!LastReflected

(* It holds initially,                                                     *)
LEMMA InitTaskInv == C!Init => TaskInv
<1> SUFFICES ASSUME C!Init PROVE TaskInv OBVIOUS
<1>1. \A t \in Threads : thread[t] = [pc |-> "idle", v |-> 0] BY DEF C!Init
<1>2. TasksTyped
  <2>1. [pc |-> "idle", v |-> 0] \in Tasks BY DEF Tasks
  <2>2. thread \in [Threads -> Tasks] BY <2>1 DEF C!Init
  <2>3. \A t \in Threads : thread[t].v = 0 BY <1>1
  <2>4. running \in BOOLEAN /\ dirty \in BOOLEAN /\ raised \in BOOLEAN BY Zenon DEF C!Init
  <2>5. newest = 0 /\ artefact = 0 /\ asked = 0 BY DEF C!Init
  <2> QED BY <2>2, <2>3, <2>4, <2>5 DEF TasksTyped
<1>3. OneAtWork /\ PassKnows BY <1>1 DEF C!Init, OneAtWork, PassKnows, C!At, Busy
<1> QED BY <1>2, <1>3 DEF C!Init, TaskInv, C!LastReflected

(* and every step keeps it and takes nothing back.                         *)
LEMMA StepTaskInv ==
    ASSUME TaskInv, [C!Next]_(C!vars) PROVE TaskInv' /\ (C!NotBack \/ UNCHANGED C!vars)
<1> USE DEF TaskInv, TasksTyped, OneAtWork, PassKnows, C!LastReflected, C!NotBack, C!At, Busy,
           C!Goto, Tasks
<1>1. CASE UNCHANGED C!vars BY <1>1 DEF C!vars
<1>2. ASSUME NEW t \in Threads, C!Change(t) PROVE TaskInv' /\ C!NotBack BY <1>2 DEF C!Change
<1>3. ASSUME NEW t \in Threads, C!Call(t) PROVE TaskInv' /\ C!NotBack
  <2>1. CASE running BY <1>3, <2>1 DEF C!Call
  <2>2. CASE ~running BY <1>3, <2>2 DEF C!Call
  <2> QED BY <2>1, <2>2
<1>4. ASSUME NEW t \in Threads, C!Read(t) PROVE TaskInv' /\ C!NotBack BY <1>4 DEF C!Read
<1>5. ASSUME NEW t \in Threads, C!Write(t) PROVE TaskInv' /\ C!NotBack
  <2>1. thread' \in [Threads -> Tasks] /\ \A u \in Threads : thread'[u].v <= newest
    BY <1>5 DEF C!Write
  <2>2. (running \in BOOLEAN /\ dirty \in BOOLEAN /\ raised \in BOOLEAN)'
    BY <1>5, Zenon DEF C!Write
  <2>3. TasksTyped' /\ (artefact <= newest)' /\ C!NotBack BY <1>5, <2>1, <2>2 DEF C!Write
  <2>4. OneAtWork' BY <1>5 DEF C!Write
  <2>5. PassKnows' BY <1>5 DEF C!Write
  <2>6. C!LastReflected' BY <1>5 DEF C!Write
  <2> QED BY <2>3, <2>4, <2>5, <2>6
<1>6. ASSUME NEW t \in Threads, C!Raise(t) PROVE TaskInv' /\ C!NotBack
  <2>1. thread' \in [Threads -> Tasks] /\ \A u \in Threads : thread'[u].v <= newest
    BY <1>6 DEF C!Raise
  <2>2. (running \in BOOLEAN /\ dirty \in BOOLEAN /\ raised \in BOOLEAN)'
    BY <1>6, Zenon DEF C!Raise
  <2>3. TasksTyped' /\ (artefact <= newest)' /\ C!NotBack BY <1>6, <2>1, <2>2 DEF C!Raise
  <2>4. OneAtWork' BY <1>6 DEF C!Raise
  <2>5. PassKnows' BY <1>6 DEF C!Raise
  <2>6. C!LastReflected' BY <1>6 DEF C!Raise
  <2> QED BY <2>3, <2>4, <2>5, <2>6
<1>7. ASSUME NEW t \in Threads, C!Look(t) PROVE TaskInv' /\ C!NotBack
  <2>1. thread' \in [Threads -> Tasks] /\ \A u \in Threads : thread'[u].v <= newest
    BY <1>7 DEF C!Look
  <2>2. (running \in BOOLEAN /\ dirty \in BOOLEAN /\ raised \in BOOLEAN)'
    BY <1>7, Zenon DEF C!Look
  <2>3. TasksTyped' /\ (artefact <= newest)' /\ C!NotBack BY <1>7, <2>1, <2>2 DEF C!Look
  <2>4. OneAtWork' BY <1>7 DEF C!Look
  <2>5. PassKnows' BY <1>7 DEF C!Look
  <2>6. C!LastReflected' BY <1>7 DEF C!Look
  <2> QED BY <2>3, <2>4, <2>5, <2>6
<1>8. ASSUME NEW t \in Threads, C!Leave(t) PROVE TaskInv' /\ C!NotBack
  <2>1. thread' \in [Threads -> Tasks] /\ \A u \in Threads : thread'[u].v <= newest
    BY <1>8 DEF C!Leave
  <2>2. (running \in BOOLEAN /\ dirty \in BOOLEAN /\ raised \in BOOLEAN)'
    BY <1>8, Zenon DEF C!Leave
  <2>3. TasksTyped' /\ (artefact <= newest)' /\ C!NotBack BY <1>8, <2>1, <2>2 DEF C!Leave
  <2>4. OneAtWork' BY <1>8 DEF C!Leave
  <2>5. PassKnows' BY <1>8 DEF C!Leave
  <2>6. C!LastReflected' BY <1>8 DEF C!Leave
  <2> QED BY <2>3, <2>4, <2>5, <2>6
<1> QED BY <1>1, <1>2, <1>3, <1>4, <1>5, <1>6, <1>7, <1>8 DEF C!Next

(* However the background tasks of a trip overlap and fail, the statistics *)
(* or tiles at rest are those of the newest version asked for,             *)
THEOREM RefreshReflects == C!Spec => []C!LastReflected
BY InitTaskInv, StepTaskInv, PTL DEF C!Spec, TaskInv

(* and no task ever replaces them by older ones.                           *)
THEOREM RefreshNeverBack == C!Spec => C!NeverBack
<1>1. TaskInv /\ [C!Next]_(C!vars) => [C!NotBack]_(C!vars) BY StepTaskInv
<1> QED BY <1>1, InitTaskInv, StepTaskInv, PTL DEF C!Spec, C!NeverBack
-----------------------------------------------------------------------------
CONSTANTS Calls, Connects, Codes, MaxTokens
VARIABLES account, encrypted, row, cache, memory, live, issued, used, expired, bound, call, first,
          linked, lost
L == INSTANCE StravaLink WITH Reqs <- Calls, req <- call

(* StravaLink.  A request under way holds a token of its own until it is   *)
(* stored or revoked.                                                      *)
Holding == {"persist", "disown", "revokerotated", "link"}
Call == {L!Idle}
        \cup [pc : {"fetch", "persist", "disown", "revokerotated"}, tok : Nat]
        \cup [pc : {"revoke", "drop"}, tok : Nat, why : {"disconnect", "delete"}]
        \cup [pc : {"exchange", "link"}, tok : Nat, state : Connects, code : Codes]
CallTyped(c, n) ==
    /\ c \in Call
    /\ c # L!Idle => c.tok <= n
    /\ c.pc \in Holding => c.tok # 0

LinkTyped ==
    /\ issued \in Nat /\ row \in 0..issued /\ live \subseteq 1..issued
    /\ call \in [Calls -> Call] /\ \A r \in Calls : CallTyped(call[r], issued)
    /\ bound \in [Codes -> Connects \cup {None}]
    /\ first \in [Codes -> Connects \cup {None}]
    /\ linked \in [Codes -> Connects \cup {None}]
    /\ expired \subseteq Connects

(* Unless something was lost, a grant that works can be taken back: one of *)
(* its tokens is stored, or held by a request that will store or revoke    *)
(* it, and what a disconnect has revoked works no more.                    *)
Covered ==
    ~lost => /\ live # {} => \E t \in live : \/ t = row
                                             \/ \E r \in Calls : /\ call[r].pc \in Holding
                                                                 /\ call[r].tok = t
             /\ \A r \in Calls : call[r].pc = "drop" => call[r].tok \notin live

(* The connect a code first came back with, or one after it ran out.       *)
Met(c, s) == s = first[c] \/ first[c] \in expired
Bindings ==
    /\ \A c \in Codes : /\ first[c] = None => bound[c] = None
                        /\ c \notin used /\ first[c] # None => Met(c, bound[c])
    /\ \A r \in Calls :
          /\ call[r].pc = "link" => /\ call[r].code \in used
                                    /\ Met(call[r].code, call[r].state)
          /\ call[r].pc = "exchange" /\ call[r].code \notin used
                => Met(call[r].code, call[r].state)

GrantInv == LinkTyped /\ Covered /\ Bindings /\ L!CodeKeepsState
            /\ L!NothingAfterDisconnect /\ L!PlainListOffDisk

(* What every step of a request does to the requests.                      *)
LEMMA CallMoves ==
    ASSUME LinkTyped, NEW r \in Calls, NEW x, CallTyped(x, issued'),
           issued' \in Nat, issued <= issued',
           call' = [call EXCEPT ![r] = x]
    PROVE  /\ call' \in [Calls -> Call] /\ \A s \in Calls : CallTyped(call'[s], issued')
           /\ call'[r] = x /\ \A s \in Calls \ {r} : call'[s] = call[s]
<1>1. x \in Call BY DEF CallTyped
<1>2. call' \in [Calls -> Call] BY <1>1 DEF LinkTyped
<1>3. call'[r] = x /\ \A s \in Calls \ {r} : call'[s] = call[s] BY DEF LinkTyped
<1>4. \A s \in Calls : call[s] # L!Idle => call[s].tok \in Nat
  BY DEF LinkTyped, Call, L!Idle
<1>5. \A s \in Calls : CallTyped(call'[s], issued')
  BY <1>3, <1>4 DEF LinkTyped, CallTyped
<1> QED BY <1>2, <1>3, <1>5

(* The steps that leave Strava's tokens and the stored one alone.          *)
LEMMA QuietMoves ==
    ASSUME LinkTyped, Covered, NEW r \in Calls, NEW x, CallTyped(x, issued'),
           call' = [call EXCEPT ![r] = x],
           UNCHANGED <<issued, live, row, lost, first, bound, linked, expired>>,
           call[r].pc \notin Holding \/ (x.pc \in Holding /\ x.tok = call[r].tok),
           x.pc # "drop"
    PROVE  LinkTyped' /\ Covered'
<1>1. /\ call' \in [Calls -> Call] /\ \A s \in Calls : CallTyped(call'[s], issued')
      /\ call'[r] = x /\ \A s \in Calls \ {r} : call'[s] = call[s]
  <2>1. issued' \in Nat /\ issued <= issued' BY DEF LinkTyped
  <2> QED BY <2>1, CallMoves
<1>2. LinkTyped' BY <1>1 DEF LinkTyped
<1>3. Covered' BY <1>1 DEF Covered
<1> QED BY <1>2, <1>3

(* POST /oauth/revoke by a request whose token is in hand: it works no     *)
(* more, or something was lost.                                            *)
LEMMA RevokeMoves ==
    ASSUME LinkTyped, Covered, NEW r \in Calls, NEW x, CallTyped(x, issued'),
           call' = [call EXCEPT ![r] = x], L!Revoke(call[r].tok),
           UNCHANGED <<issued, row, first, bound, linked, expired>>,
           x.pc \notin Holding, x.pc = "drop" => x.tok = call[r].tok
    PROVE  LinkTyped' /\ Covered'
<1>0. issued' \in Nat /\ issued <= issued' BY DEF LinkTyped
<1>1. /\ call' \in [Calls -> Call] /\ \A s \in Calls : CallTyped(call'[s], issued')
      /\ call'[r] = x /\ \A s \in Calls \ {r} : call'[s] = call[s]
  BY <1>0, CallMoves
<1>2. live' \subseteq live BY DEF L!Revoke
<1>3. LinkTyped' BY <1>1, <1>2 DEF LinkTyped
<1>4. ASSUME ~lost'
      PROVE  ~lost /\ (live' = {} \/ (call[r].tok \notin live /\ live' = live))
  <2>1. ~(lost' = TRUE) BY <1>4, Zenon
  <2> QED BY <1>4, <2>1 DEF L!Revoke
<1>7. Covered' BY <1>1, <1>4 DEF Covered
<1> QED BY <1>3, <1>7

(* A token in hand is stored.  One that no longer works takes nothing      *)
(* away, or the loss is recorded.                                          *)
LEMMA OverwriteMoves ==
    ASSUME LinkTyped, Covered, NEW r \in Calls, NEW x, CallTyped(x, issued'), call[r].pc \in Holding,
           call[r].tok <= issued, call[r].tok \in Nat,
           call' = [call EXCEPT ![r] = x], L!Overwrite(call[r].tok),
           UNCHANGED <<issued, live, first, expired>>,
           bound' \in [Codes -> Connects \cup {None}],
           linked' \in [Codes -> Connects \cup {None}],
           x.pc \notin Holding \cup {"drop"}
    PROVE  LinkTyped' /\ Covered'
<1>0. issued' \in Nat /\ issued <= issued' BY DEF LinkTyped
<1>1. /\ call' \in [Calls -> Call] /\ \A s \in Calls : CallTyped(call'[s], issued')
      /\ call'[r] = x /\ \A s \in Calls \ {r} : call'[s] = call[s]
  BY <1>0, CallMoves
<1>2. row' = call[r].tok BY DEF L!Overwrite
<1>3. LinkTyped' BY <1>1, <1>2 DEF LinkTyped
<1>4. ASSUME ~lost' PROVE ~lost /\ (row \in live => call[r].tok \in live)
  BY <1>4 DEF L!Overwrite
<1>5. Covered' BY <1>1, <1>2, <1>4 DEF Covered
<1> QED BY <1>3, <1>5

(* The requests that fetch.                                                *)
LEMMA FetchKeeps ==
    ASSUME LinkTyped, Covered, NEW r \in Calls,
           \/ L!StartFetch(r) \/ L!Refresh(r) \/ L!FetchFails(r) \/ L!Persist(r) \/ L!Disown(r)
           \/ L!SaveCache(r)
    PROVE  LinkTyped' /\ Covered'
<1>t. /\ call[r] \in Call /\ CallTyped(call[r], issued)
      /\ row \in Nat /\ row <= issued /\ issued \in Nat
  BY DEF LinkTyped
<1>1. CASE L!StartFetch(r)
  <2> DEFINE x == [pc |-> "fetch", tok |-> row]
  <2>1. CallTyped(x, issued') /\ x.pc = "fetch"
    BY <1>1, <1>t DEF L!StartFetch, L!strava, CallTyped, Call, Holding
  <2>2. call[r].pc \notin Holding BY <1>1 DEF L!StartFetch, L!Idle, Holding
  <2>3. /\ call' = [call EXCEPT ![r] = x]
        /\ UNCHANGED <<issued, live, row, lost, first, bound, linked, expired>>
    BY <1>1 DEF L!StartFetch, L!stored, L!strava, L!binding
  <2> QED BY <2>1, <2>2, <2>3, QuietMoves
<1>2. CASE L!FetchFails(r) \/ L!SaveCache(r)
  <2>1. CallTyped(L!Idle, issued') /\ L!Idle.pc = "idle" BY DEF CallTyped, Call, L!Idle, Holding
  <2>2. call[r].pc \notin Holding BY <1>2 DEF L!FetchFails, L!SaveCache, Holding
  <2>3. /\ call' = [call EXCEPT ![r] = L!Idle]
        /\ UNCHANGED <<issued, live, row, lost, first, bound, linked, expired>>
    BY <1>2 DEF L!FetchFails, L!SaveCache, L!Done, L!stored, L!strava, L!binding
  <2> QED BY <2>1, <2>2, <2>3, QuietMoves
<1>3. CASE L!Refresh(r)
  <2> DEFINE x == [pc |-> "persist", tok |-> issued + 1]
  <2>1. /\ issued' = issued + 1 /\ live' = (live \ {call[r].tok}) \cup {issued + 1}
        /\ call' = [call EXCEPT ![r] = x] /\ call[r].pc = "fetch"
        /\ UNCHANGED <<row, lost, first, bound, linked, expired>>
    BY <1>3 DEF L!Refresh, L!stored, L!binding
  <2>2. CallTyped(x, issued') BY <1>t, <2>1 DEF CallTyped, Call, L!Idle, Holding
  <2>3. issued' \in Nat /\ issued <= issued' BY <1>t, <2>1
  <2>4. /\ call' \in [Calls -> Call] /\ \A s \in Calls : CallTyped(call'[s], issued')
        /\ call'[r] = x /\ \A s \in Calls \ {r} : call'[s] = call[s]
    BY <2>1, <2>2, <2>3, CallMoves
  <2>5. LinkTyped'
    <3>1. live' \subseteq 1..issued'
      <4> SUFFICES ASSUME NEW t \in live' PROVE t \in 1..issued' OBVIOUS
      <4>1. t \in 1..issued \/ t = issued + 1 BY <2>1 DEF LinkTyped
      <4>2. issued' = issued + 1 /\ issued \in Nat BY <1>t, <2>1
      <4> QED BY <4>1, <4>2
    <3>2. row' \in 0..issued' BY <1>t, <2>1 DEF LinkTyped
    <3> QED BY <2>1, <2>3, <2>4, <3>1, <3>2 DEF LinkTyped
  <2>6. \A s \in Calls : call[s].pc = "drop" => call[s].tok # issued + 1
    BY <1>t DEF LinkTyped, CallTyped, Call, L!Idle
  <2>7. Covered' BY <2>1, <2>4, <2>6 DEF Covered, Holding
  <2> QED BY <2>5, <2>7
<1>4. CASE L!Persist(r)
  <2>0. call[r].pc = "persist" /\ call[r].tok \in Nat /\ call[r].tok # 0 /\ call[r].tok <= issued
        /\ call[r] \in [pc : {"fetch", "persist", "disown", "revokerotated"}, tok : Nat]
    BY <1>4, <1>t DEF L!Persist, CallTyped, Call, L!Idle, Holding
  <2>1. CASE row # 0
    <3> DEFINE x == [call[r] EXCEPT !.pc = "fetch"]
    <3>1. /\ call' = [call EXCEPT ![r] = x] /\ L!Overwrite(call[r].tok)
          /\ UNCHANGED <<issued, live, first, bound, linked, expired>>
      BY <1>4, <2>1 DEF L!Persist, L!Goto, L!strava, L!binding
    <3>2. CallTyped(x, issued') /\ x.pc = "fetch" BY <1>t, <2>0, <3>1 DEF CallTyped, Call, Holding
    <3>3. /\ bound' \in [Codes -> Connects \cup {None}]
          /\ linked' \in [Codes -> Connects \cup {None}]
      BY <3>1 DEF LinkTyped
    <3> HIDE DEF x
    <3> QED BY <2>0, <3>1, <3>2, <3>3, OverwriteMoves DEF Holding
  <2>2. CASE row = 0
    <3> DEFINE x == [call[r] EXCEPT !.pc = "disown"]
    <3>1. /\ call' = [call EXCEPT ![r] = x]
          /\ UNCHANGED <<issued, live, row, lost, first, bound, linked, expired>>
      BY <1>4, <2>2 DEF L!Persist, L!Goto, L!strava, L!binding
    <3>2. CallTyped(x, issued') /\ x.pc = "disown" /\ x.tok = call[r].tok
      BY <1>t, <2>0, <3>1 DEF CallTyped, Call, Holding
    <3> HIDE DEF x
    <3> QED BY <3>1, <3>2, QuietMoves DEF Holding
  <2> QED BY <2>1, <2>2
<1>5. CASE L!Disown(r)
  <2> DEFINE x == [call[r] EXCEPT !.pc = "fetch"]
  <2>0. /\ call[r].tok <= issued
        /\ call[r] \in [pc : {"fetch", "persist", "disown", "revokerotated"}, tok : Nat]
    BY <1>5, <1>t DEF L!Disown, CallTyped, Call, L!Idle, Holding
  <2>1. /\ call' = [call EXCEPT ![r] = x] /\ L!Revoke(call[r].tok)
        /\ UNCHANGED <<issued, row, first, bound, linked, expired>>
    BY <1>5 DEF L!Disown, L!Goto, L!stored, L!binding
  <2>2. CallTyped(x, issued') /\ x.pc = "fetch" BY <1>t, <2>0, <2>1 DEF CallTyped, Call, Holding
  <2> HIDE DEF x
  <2> QED BY <2>0, <2>1, <2>2, RevokeMoves DEF Holding
<1> QED BY <1>1, <1>2, <1>3, <1>4, <1>5

(* A disconnect or a deletion.                                             *)
LEMMA DropKeeps ==
    ASSUME LinkTyped, Covered, NEW r \in Calls,
           \/ \E why \in {"disconnect", "delete"} : L!ReadToDrop(r, why)
           \/ L!RevokeRead(r) \/ L!Drop(r) \/ L!RevokeRotated(r)
    PROVE  LinkTyped' /\ Covered'
<1>t. /\ call[r] \in Call /\ CallTyped(call[r], issued)
      /\ row \in Nat /\ row <= issued /\ issued \in Nat
      /\ issued <= issued /\ 0 \notin live
  BY DEF LinkTyped
<1>1. ASSUME NEW why \in {"disconnect", "delete"}, L!ReadToDrop(r, why)
      PROVE  LinkTyped' /\ Covered'
  <2> DEFINE x == [pc |-> IF row # 0 THEN "revoke" ELSE "drop", tok |-> row, why |-> why]
  <2>1. /\ call' = [call EXCEPT ![r] = x] /\ call[r].pc = "idle"
        /\ UNCHANGED <<issued, live, row, lost, first, bound, linked, expired>>
    BY <1>1 DEF L!ReadToDrop, L!stored, L!strava, L!binding, L!Idle
  <2>2. CallTyped(x, issued') BY <1>t, <2>1 DEF CallTyped, Call, Holding
  <2>3. /\ call' \in [Calls -> Call] /\ \A s \in Calls : CallTyped(call'[s], issued')
        /\ call'[r] = x /\ \A s \in Calls \ {r} : call'[s] = call[s]
    BY <1>t, <2>1, <2>2, CallMoves
  <2>4. LinkTyped' BY <2>1, <2>3 DEF LinkTyped
  <2>5. x.pc = "drop" => x.tok = 0 OBVIOUS
  <2> HIDE DEF x
  <2>6. Covered' BY <1>t, <2>1, <2>3, <2>5 DEF Covered, Holding
  <2> QED BY <2>4, <2>6
<1>2. CASE L!RevokeRead(r)
  <2> DEFINE x == [call[r] EXCEPT !.pc = "drop"]
  <2>0. call[r] \in [pc : {"revoke", "drop"}, tok : Nat, why : {"disconnect", "delete"}]
    BY <1>2, <1>t DEF L!RevokeRead, Call, L!Idle
  <2>1. /\ call' = [call EXCEPT ![r] = x] /\ L!Revoke(call[r].tok) /\ call[r].pc = "revoke"
        /\ UNCHANGED <<issued, row, first, bound, linked, expired>>
    BY <1>2 DEF L!RevokeRead, L!Goto, L!stored, L!binding
  <2>2. CallTyped(x, issued') /\ x.pc = "drop" /\ x.tok = call[r].tok
    BY <1>t, <2>0, <2>1 DEF CallTyped, Call, Holding, L!Idle
  <2> HIDE DEF x
  <2> QED BY <2>0, <2>1, <2>2, RevokeMoves DEF Holding
<1>3. CASE L!RevokeRotated(r)
  <2>0. call[r].tok # 0 BY <1>3, <1>t DEF L!RevokeRotated, CallTyped, Holding
  <2>1. /\ call' = [call EXCEPT ![r] = L!Idle] /\ L!Revoke(call[r].tok)
        /\ UNCHANGED <<issued, row, first, bound, linked, expired>>
    BY <1>3 DEF L!RevokeRotated, L!Done, L!stored, L!binding
  <2>2. CallTyped(L!Idle, issued') /\ L!Idle.pc = "idle" BY DEF CallTyped, Call, L!Idle, Holding
  <2> QED BY <2>0, <2>1, <2>2, RevokeMoves DEF Holding
<1>4. CASE L!Drop(r)
  <2>1. /\ call[r].pc = "drop" /\ UNCHANGED <<issued, live, lost, first, bound, linked, expired>>
        /\ \/ UNCHANGED row /\ call' = [call EXCEPT ![r] = L!Idle]
           \/ row' = 0 /\ (row = 0 \/ row = call[r].tok) /\ call' = [call EXCEPT ![r] = L!Idle]
           \/ /\ row' = 0 /\ row # 0
              /\ call' = [call EXCEPT ![r] = [pc |-> "revokerotated", tok |-> row]]
    BY <1>4 DEF L!Drop, L!Done, L!stored, L!strava, L!binding
  <2>2. CallTyped(L!Idle, issued') /\ L!Idle.pc = "idle" BY DEF CallTyped, Call, L!Idle, Holding
  <2>3. CASE UNCHANGED row /\ call' = [call EXCEPT ![r] = L!Idle]
    BY <2>1, <2>2, <2>3, QuietMoves DEF Holding
  <2>4. CASE row' = 0 /\ (row = 0 \/ row = call[r].tok) /\ call' = [call EXCEPT ![r] = L!Idle]
    <3>1. /\ call' \in [Calls -> Call] /\ \A s \in Calls : CallTyped(call'[s], issued')
          /\ call'[r] = L!Idle /\ \A s \in Calls \ {r} : call'[s] = call[s]
      BY <1>t, <2>1, <2>2, <2>4, CallMoves
    <3>2. LinkTyped' BY <1>t, <2>1, <2>4, <3>1 DEF LinkTyped
    <3>3. ~lost => row \notin live BY <1>t, <2>1, <2>4 DEF Covered
    <3>4. Covered' BY <2>1, <2>2, <2>4, <3>1, <3>3 DEF Covered, Holding
    <3> QED BY <3>2, <3>4
  <2>5. ASSUME row' = 0, row # 0, call' = [call EXCEPT ![r] = [pc |-> "revokerotated", tok |-> row]]
        PROVE  LinkTyped' /\ Covered'
    <3> DEFINE x == [pc |-> "revokerotated", tok |-> row]
    <3>0. CallTyped(x, issued') BY <1>t, <2>1, <2>5 DEF CallTyped, Call, Holding
    <3>1. /\ call' \in [Calls -> Call] /\ \A s \in Calls : CallTyped(call'[s], issued')
          /\ call'[r] = x /\ \A s \in Calls \ {r} : call'[s] = call[s]
      BY <1>t, <2>1, <2>5, <3>0, CallMoves
    <3>2. LinkTyped' BY <1>t, <2>1, <2>5, <3>1 DEF LinkTyped
    <3>4. Covered' BY <2>1, <2>5, <3>1 DEF Covered, Holding
    <3> QED BY <3>2, <3>4
  <2> QED BY <2>1, <2>3, <2>4, <2>5
<1> QED BY <1>1, <1>2, <1>3, <1>4

(* The connects: a code is exchanged for a new token, which is in hand     *)
(* until it is stored.                                                     *)
LEMMA ConnectKeeps ==
    ASSUME LinkTyped, Covered, NEW r \in Calls,
           \/ \E s \in Connects, c \in Codes : L!Complete(r, s, c)
           \/ L!Exchange(r) \/ L!Link(r)
    PROVE  LinkTyped' /\ Covered'
<1>t. /\ call[r] \in Call /\ CallTyped(call[r], issued) /\ issued \in Nat /\ issued <= issued
      /\ row \in Nat /\ row <= issued
  BY DEF LinkTyped
<1>0. CallTyped(L!Idle, issued') /\ L!Idle.pc = "idle" BY DEF CallTyped, Call, L!Idle, Holding
<1>1. ASSUME NEW s \in Connects, NEW c \in Codes, L!Complete(r, s, c)
      PROVE  LinkTyped' /\ Covered'
  <2> DEFINE x == [pc |-> "exchange", tok |-> 0, state |-> s, code |-> c]
  <2>1. /\ call' = [call EXCEPT ![r] = x] /\ call[r].pc = "idle"
        /\ UNCHANGED <<issued, live, row, lost, first, bound, linked, expired>>
    BY <1>1 DEF L!Complete, L!stored, L!strava, L!binding, L!Idle
  <2>2. CallTyped(x, issued') /\ x.pc = "exchange" BY <1>t, <2>1 DEF CallTyped, Call, Holding
  <2> HIDE DEF x
  <2> QED BY <2>1, <2>2, QuietMoves DEF Holding
<1>2. CASE L!Exchange(r) /\ call[r].code \in used
  <2>1. /\ call' = [call EXCEPT ![r] = L!Idle] /\ call[r].pc = "exchange"
        /\ UNCHANGED <<issued, live, row, lost, first, bound, linked, expired>>
    BY <1>2 DEF L!Exchange, L!Done, L!stored, L!strava, L!binding
  <2> QED BY <1>0, <2>1, QuietMoves DEF Holding
<1>3. CASE L!Exchange(r) /\ call[r].code \notin used
  <2> DEFINE x == [call[r] EXCEPT !.pc = "link", !.tok = issued + 1]
  <2>0. call[r] \in [pc : {"exchange", "link"}, tok : Nat, state : Connects, code : Codes]
    BY <1>3, <1>t DEF L!Exchange, Call, L!Idle
  <2>1. /\ issued' = issued + 1 /\ live' = live \cup {issued + 1} /\ call[r].pc = "exchange"
        /\ call' = [call EXCEPT ![r] = x]
        /\ UNCHANGED <<row, lost, first, bound, linked, expired>>
    <3>1. call' = [call EXCEPT ![r].pc = "link", ![r].tok = issued + 1]
      BY <1>3 DEF L!Exchange
    <3>2. call' = [call EXCEPT ![r] = x] BY <2>0, <3>1 DEF LinkTyped
    <3> QED BY <1>3, <3>2 DEF L!Exchange, L!stored, L!binding
  <2>2. CallTyped(x, issued') /\ x.pc = "link" /\ x.tok = issued + 1
    <3>1. issued + 1 \in Nat /\ issued + 1 # 0 BY <1>t
    <3>2. x \in [pc : {"exchange", "link"}, tok : Nat, state : Connects, code : Codes]
      BY <2>0, <3>1
    <3>3. x.pc = "link" /\ x.tok = issued + 1 BY <2>0
    <3>4. x \in Call BY <3>2 DEF Call
    <3>5. x.tok <= issued' /\ x.tok # 0 BY <1>t, <2>1, <3>1, <3>3
    <3> HIDE DEF x
    <3> QED BY <3>3, <3>4, <3>5 DEF CallTyped
  <2>3. issued' \in Nat /\ issued <= issued' BY <1>t, <2>1
  <2> HIDE DEF x
  <2>4. /\ call' \in [Calls -> Call] /\ \A s \in Calls : CallTyped(call'[s], issued')
        /\ call'[r] = x /\ \A s \in Calls \ {r} : call'[s] = call[s]
    BY <2>1, <2>2, <2>3, CallMoves
  <2>5. LinkTyped'
    <3>1. live' \subseteq 1..issued'
      <4> SUFFICES ASSUME NEW t \in live' PROVE t \in 1..issued' OBVIOUS
      <4>1. t \in 1..issued \/ t = issued + 1 BY <2>1 DEF LinkTyped
      <4>2. issued' = issued + 1 /\ issued \in Nat BY <1>t, <2>1
      <4> QED BY <4>1, <4>2
    <3>2. row' \in 0..issued' BY <1>t, <2>1 DEF LinkTyped
    <3> QED BY <2>1, <2>3, <2>4, <3>1, <3>2 DEF LinkTyped
  <2>6. \A s \in Calls : call[s].pc = "drop" => call[s].tok # issued + 1
    BY <1>t DEF LinkTyped, CallTyped, Call, L!Idle
  <2>7. Covered' BY <2>1, <2>2, <2>4, <2>6 DEF Covered, Holding
  <2> QED BY <2>5, <2>7
<1>4. CASE L!Link(r)
  <2>0. /\ call[r] \in [pc : {"exchange", "link"}, tok : Nat, state : Connects, code : Codes]
        /\ call[r].pc = "link" /\ call[r].tok <= issued
    BY <1>4, <1>t DEF L!Link, CallTyped, Call, L!Idle
  <2>1. /\ call' = [call EXCEPT ![r] = L!Idle] /\ L!Overwrite(call[r].tok)
        /\ bound' = [bound EXCEPT ![call[r].code] = None]
        /\ linked' = [linked EXCEPT ![call[r].code] = call[r].state]
        /\ UNCHANGED <<issued, live, first, expired>>
    BY <1>4 DEF L!Link, L!Done, L!strava
  <2>2. /\ bound' \in [Codes -> Connects \cup {None}]
        /\ linked' \in [Codes -> Connects \cup {None}]
    BY <2>0, <2>1 DEF LinkTyped
  <2> QED BY <1>0, <2>0, <2>1, <2>2, OverwriteMoves DEF Holding
<1> QED BY <1>1, <1>2, <1>3, <1>4

(* What touches no request, or all of them.                                *)
LEMMA AccountKeeps ==
    ASSUME LinkTyped, Covered,
           \/ L!Enable \/ L!Restart
           \/ \E s \in Connects : L!Expire(s) \/ \E c \in Codes : L!Callback(s, c)
    PROVE  LinkTyped' /\ Covered'
<1>1. UNCHANGED <<issued, live, row, linked>>
  BY DEF L!Enable, L!Restart, L!Expire, L!Callback, L!stored, L!strava, L!binding
<1>2. CASE L!Restart
  <2>1. call' = [r \in Calls |-> L!Idle] /\ UNCHANGED <<first, bound, expired>>
    BY <1>2 DEF L!Restart, L!binding
  <2>2. \A r \in Calls : call'[r] = L!Idle /\ CallTyped(call'[r], issued')
    BY <2>1 DEF CallTyped, Call, L!Idle, Holding
  <2>3. LinkTyped' BY <1>1, <2>1, <2>2 DEF LinkTyped, Call
  <2>4. ASSUME ~lost' PROVE ~lost /\ \A r \in Calls : call[r] = L!Idle
    BY <1>2, <2>4 DEF L!Restart
  <2>5. Covered' BY <1>1, <2>2, <2>4 DEF Covered, L!Idle, Holding
  <2> QED BY <2>3, <2>5
<1>3. CASE ~L!Restart
  <2>1. UNCHANGED <<call, lost>> BY <1>3 DEF L!Enable, L!Expire, L!Callback
  <2>2. Covered' BY <1>1, <2>1 DEF Covered
  <2>3. /\ bound' \in [Codes -> Connects \cup {None}] /\ first' \in [Codes -> Connects \cup {None}]
        /\ expired' \subseteq Connects
    BY <1>3 DEF LinkTyped, L!Enable, L!Expire, L!Callback, L!BoundTo, L!binding
  <2>4. LinkTyped' BY <1>1, <2>1, <2>3 DEF LinkTyped
  <2> QED BY <2>2, <2>4
<1> QED BY <1>2, <1>3

(* The bindings.  A request at work has met its code's connect; the rest   *)
(* is about the codes.                                                     *)
LEMMA StepBindings ==
    ASSUME None \notin Connects, LinkTyped, Bindings, L!CodeKeepsState, [L!Next]_(L!vars)
    PROVE  Bindings' /\ L!CodeKeepsState'
<1>t. /\ call \in [Calls -> Call] /\ expired \subseteq Connects
      /\ bound \in [Codes -> Connects \cup {None}] /\ first \in [Codes -> Connects \cup {None}]
      /\ linked \in [Codes -> Connects \cup {None}]
  BY DEF LinkTyped
<1>1. CASE UNCHANGED <<first, bound, linked, expired, used>>
           /\ \A r \in Calls : \/ call'[r] = call[r]
                               \/ call'[r].pc \notin {"exchange", "link"}
  BY <1>1 DEF Bindings, Met, L!CodeKeepsState
<1>2. ASSUME NEW r \in Calls,
             \/ L!StartFetch(r) \/ L!Refresh(r) \/ L!FetchFails(r) \/ L!Persist(r) \/ L!Disown(r)
             \/ L!SaveCache(r) \/ L!RevokeRead(r) \/ L!Drop(r) \/ L!RevokeRotated(r)
             \/ \E why \in {"disconnect", "delete"} : L!ReadToDrop(r, why)
      PROVE  Bindings' /\ L!CodeKeepsState'
  <2>1. UNCHANGED <<first, bound, linked, expired, used>>
    BY <1>2 DEF L!StartFetch, L!Refresh, L!FetchFails, L!Persist, L!Disown, L!SaveCache,
                L!RevokeRead, L!Drop, L!RevokeRotated, L!ReadToDrop, L!strava, L!binding
  <2>2. \A s \in Calls \ {r} : call'[s] = call[s]
    BY <1>2, <1>t DEF L!StartFetch, L!Refresh, L!FetchFails, L!Persist, L!Disown, L!SaveCache,
                L!RevokeRead, L!Drop, L!RevokeRotated, L!ReadToDrop, L!Goto, L!Done
  <2>3. call'[r].pc \notin {"exchange", "link"}
    <3>0. call[r] \in Call BY <1>t
    <3>1. CASE L!StartFetch(r) \/ L!Refresh(r) \/ L!FetchFails(r) \/ L!SaveCache(r)
               \/ L!RevokeRotated(r)
      BY <1>t, <3>1 DEF L!StartFetch, L!Refresh, L!FetchFails, L!SaveCache, L!RevokeRotated,
                        L!Done, L!Idle
    <3>2. CASE L!Persist(r) \/ L!Disown(r) \/ L!RevokeRead(r)
      BY <1>t, <3>0, <3>2 DEF L!Persist, L!Disown, L!RevokeRead, L!Goto, Call, L!Idle
    <3>3. CASE L!Drop(r) BY <1>t, <3>3 DEF L!Drop, L!Done, L!Idle
    <3>4. CASE \E why \in {"disconnect", "delete"} : L!ReadToDrop(r, why)
      BY <1>t, <3>4 DEF L!ReadToDrop
    <3> QED BY <1>2, <3>1, <3>2, <3>3, <3>4
  <2> QED BY <1>1, <2>1, <2>2, <2>3
<1>3. ASSUME NEW r \in Calls, NEW s \in Connects, NEW c \in Codes, L!Complete(r, s, c)
      PROVE  Bindings' /\ L!CodeKeepsState'
  <2>1. /\ UNCHANGED <<first, bound, linked, expired, used>> /\ bound[c] = s /\ s # None
        /\ call'[r] = [pc |-> "exchange", tok |-> 0, state |-> s, code |-> c]
        /\ \A q \in Calls \ {r} : call'[q] = call[q]
    BY <1>3, <1>t DEF L!Complete, L!strava, L!binding
  <2>2. c \notin used => Met(c, s) BY <2>1 DEF Bindings
  <2> QED BY <2>1, <2>2 DEF Bindings, Met, L!CodeKeepsState
<1>4. ASSUME NEW r \in Calls, L!Exchange(r) PROVE Bindings' /\ L!CodeKeepsState'
  <2>0. call[r] \in [pc : {"exchange", "link"}, tok : Nat, state : Connects, code : Codes]
    BY <1>4, <1>t DEF L!Exchange, Call, L!Idle
  <2>1. CASE call[r].code \in used
    BY <1>1, <1>4, <1>t, <2>1 DEF L!Exchange, L!Done, L!Idle, L!strava, L!binding
  <2>2. CASE call[r].code \notin used
    <3>1. /\ UNCHANGED <<first, bound, linked, expired>> /\ used' = used \cup {call[r].code}
          /\ call[r].pc = "exchange"
          /\ \A q \in Calls \ {r} : call'[q] = call[q]
      BY <1>4, <1>t, <2>2 DEF L!Exchange, L!binding
    <3>2. call'[r].state = call[r].state /\ call'[r].code = call[r].code
      BY <1>4, <1>t, <2>0, <2>2 DEF L!Exchange
    <3> QED BY <2>2, <3>1, <3>2 DEF Bindings, Met, L!CodeKeepsState
  <2> QED BY <2>1, <2>2
<1>5. ASSUME NEW r \in Calls, L!Link(r) PROVE Bindings' /\ L!CodeKeepsState'
  <2>0. call[r] \in [pc : {"exchange", "link"}, tok : Nat, state : Connects, code : Codes]
    BY <1>5, <1>t DEF L!Link, Call, L!Idle
  <2>1. /\ UNCHANGED <<first, expired, used>> /\ call[r].pc = "link"
        /\ bound' = [bound EXCEPT ![call[r].code] = None]
        /\ linked' = [linked EXCEPT ![call[r].code] = call[r].state]
        /\ call'[r] = L!Idle /\ \A q \in Calls \ {r} : call'[q] = call[q]
    BY <1>5, <1>t DEF L!Link, L!Done, L!strava
  <2>2. Met(call[r].code, call[r].state) BY <2>1 DEF Bindings
  <2>3. L!CodeKeepsState' BY <1>t, <2>0, <2>1, <2>2 DEF L!CodeKeepsState, Met
  <2>4. Bindings' BY <1>t, <2>0, <2>1, <2>2 DEF Bindings, Met, L!Idle
  <2> QED BY <2>3, <2>4
<1>6. CASE L!Enable \/ L!Restart
  <2>1. UNCHANGED <<first, bound, linked, expired, used>>
    BY <1>6 DEF L!Enable, L!Restart, L!strava, L!binding
  <2>2. \A r \in Calls : call'[r] = call[r] \/ call'[r] = L!Idle
    BY <1>6 DEF L!Enable, L!Restart
  <2> QED BY <1>1, <2>1, <2>2 DEF L!Idle
<1>7. ASSUME NEW s \in Connects, L!Expire(s) PROVE Bindings' /\ L!CodeKeepsState'
  <2>1. UNCHANGED <<first, bound, linked, used, call>> /\ expired' = expired \cup {s}
    BY <1>7 DEF L!Expire, L!strava
  <2> QED BY <2>1 DEF Bindings, Met, L!CodeKeepsState
<1>8. ASSUME NEW s \in Connects, NEW c \in Codes, L!Callback(s, c)
      PROVE  Bindings' /\ L!CodeKeepsState'
  <2>1. /\ UNCHANGED <<linked, expired, used, call>> /\ s \notin expired
        /\ first' = IF first[c] = None THEN [first EXCEPT ![c] = s] ELSE first
        /\ bound' = [d \in Codes |-> IF d = c THEN L!BoundTo(c, s)
                                     ELSE IF bound[d] \in expired THEN None ELSE bound[d]]
    BY <1>8 DEF L!Callback, L!strava
  <2>2. \A d \in Codes : first[d] # None => first'[d] = first[d] BY <1>t, <2>1
  <2>3. \A d \in Codes \ {c} : first'[d] = first[d] BY <1>t, <2>1
  <2>4. ASSUME NEW d \in Codes
        PROVE  /\ first'[d] = None => bound'[d] = None
               /\ d \notin used /\ first'[d] # None => Met(d, bound[d])'
    <3>1. CASE d # c
      BY <1>t, <2>1, <2>3, <3>1 DEF Bindings, Met
    <3>2. CASE d = c /\ first[c] = None
      <4>1. bound[c] = None /\ first'[c] = s /\ bound'[c] = s
        BY <1>t, <2>1, <3>2 DEF Bindings, L!BoundTo
      <4> QED BY <3>2, <4>1 DEF Met
    <3>3. CASE d = c /\ first[c] # None
      <4>1. first'[c] = first[c] /\ bound'[c] = L!BoundTo(c, s) BY <1>t, <2>1, <3>3
      <4> QED BY <1>t, <2>1, <3>3, <4>1 DEF Bindings, Met, L!BoundTo
    <3> QED BY <3>1, <3>2, <3>3
  <2>5. \A d \in Codes, q \in Connects : Met(d, q) => Met(d, q)'
    BY <1>t, <2>1, <2>2 DEF Met
  <2>6. \A r \in Calls : call[r].pc \in {"exchange", "link"} =>
                            call[r].code \in Codes /\ call[r].state \in Connects
    BY <1>t DEF Call, L!Idle
  <2>7. \A r \in Calls :
          /\ call[r].pc = "link" => call[r].code \in used /\ Met(call[r].code, call[r].state)'
          /\ call[r].pc = "exchange" /\ call[r].code \notin used
                => Met(call[r].code, call[r].state)'
    BY <2>1, <2>5, <2>6 DEF Bindings, Met
  <2>8. Bindings' BY <2>1, <2>4, <2>7 DEF Bindings, Met
  <2>9. L!CodeKeepsState' BY <1>t, <2>1, <2>2, <2>3 DEF L!CodeKeepsState, Bindings
  <2> QED BY <2>8, <2>9
<1>9. CASE UNCHANGED L!vars BY <1>1, <1>9 DEF L!vars
<1> QED BY <1>2, <1>3, <1>4, <1>5, <1>6, <1>7, <1>8, <1>9 DEF L!Next

(* The list: nothing is written for an account without a token row, and    *)
(* nothing to disk for an encrypted one.                                   *)
LEMMA StepList ==
    ASSUME LinkTyped, L!NothingAfterDisconnect, L!PlainListOffDisk, [L!Next]_(L!vars)
    PROVE  (L!NothingAfterDisconnect /\ L!PlainListOffDisk)'
<1> USE DEF L!NothingAfterDisconnect, L!PlainListOffDisk
<1>1. CASE UNCHANGED <<account, encrypted, row, cache, memory>> BY <1>1
<1>2. ASSUME NEW r \in Calls, L!Persist(r) \/ L!Link(r)
      PROVE  (L!NothingAfterDisconnect /\ L!PlainListOffDisk)'
  <2>1. call[r].tok # 0
    BY <1>2 DEF L!Persist, L!Link, LinkTyped, CallTyped, Holding
  <2> QED BY <1>2, <2>1 DEF L!Persist, L!Link, L!Overwrite
<1>3. ASSUME NEW r \in Calls, L!SaveCache(r)
      PROVE  (L!NothingAfterDisconnect /\ L!PlainListOffDisk)'
  <2>1. UNCHANGED <<account, encrypted, row>> BY <1>3 DEF L!SaveCache
  <2>2. CASE UNCHANGED <<cache, memory>> BY <1>1, <2>1, <2>2
  <2>3. CASE row # 0 /\ cache' = ~encrypted
    <3>1. row' # 0 BY <2>1, <2>3
    <3>2. encrypted' => ~cache' BY <2>1, <2>3, Zenon
    <3> QED BY <3>1, <3>2
  <2> QED BY <1>3, <2>2, <2>3 DEF L!SaveCache
<1>4. ASSUME NEW r \in Calls, L!Drop(r)
      PROVE  (L!NothingAfterDisconnect /\ L!PlainListOffDisk)'
  BY <1>4 DEF L!Drop, L!stored
<1>5. CASE L!Enable \/ L!Restart BY <1>5 DEF L!Enable, L!Restart
<1>6. CASE \/ \E r \in Calls :
                \/ L!StartFetch(r) \/ L!Refresh(r) \/ L!FetchFails(r) \/ L!Disown(r)
                \/ L!RevokeRead(r) \/ L!RevokeRotated(r) \/ L!Exchange(r)
                \/ \E why \in {"disconnect", "delete"} : L!ReadToDrop(r, why)
                \/ \E s \in Connects, c \in Codes : L!Complete(r, s, c)
           \/ \E s \in Connects : L!Expire(s) \/ \E c \in Codes : L!Callback(s, c)
  BY <1>1, <1>6 DEF L!StartFetch, L!Refresh, L!FetchFails, L!Disown, L!RevokeRead,
       L!RevokeRotated, L!Exchange, L!ReadToDrop, L!Complete, L!Expire, L!Callback, L!stored
<1>7. CASE UNCHANGED L!vars BY <1>1, <1>7 DEF L!vars
<1> QED BY <1>2, <1>3, <1>4, <1>5, <1>6, <1>7 DEF L!Next

LEMMA InitGrantInv == L!Init => GrantInv
<1> SUFFICES ASSUME L!Init PROVE GrantInv OBVIOUS
<1>1. LinkTyped
  <2>1. \A r \in Calls : call[r] = L!Idle BY DEF L!Init
  <2>2. CallTyped(L!Idle, 0) BY DEF CallTyped, Call, L!Idle, Holding
  <2> QED BY <2>1, <2>2 DEF L!Init, LinkTyped, CallTyped
<1>2. Covered BY DEF L!Init, Covered, L!Idle
<1>3. Bindings /\ L!CodeKeepsState BY DEF L!Init, Bindings, Met, L!CodeKeepsState, L!Idle
<1>4. L!NothingAfterDisconnect /\ L!PlainListOffDisk
  BY DEF L!Init, L!NothingAfterDisconnect, L!PlainListOffDisk
<1> QED BY <1>1, <1>2, <1>3, <1>4 DEF GrantInv

LEMMA StepGrantInv ==
    ASSUME None \notin Connects, GrantInv, [L!Next]_(L!vars)
    PROVE  GrantInv'
<1>1. Bindings' /\ L!CodeKeepsState' BY StepBindings DEF GrantInv
<1>2. (L!NothingAfterDisconnect /\ L!PlainListOffDisk)' BY StepList DEF GrantInv
<1>3. LinkTyped' /\ Covered'
  <2> LinkTyped /\ Covered BY DEF GrantInv
  <2>1. CASE UNCHANGED L!vars BY <2>1 DEF L!vars, LinkTyped, Covered
  <2>2. CASE L!Next BY <2>2, FetchKeeps, DropKeeps, ConnectKeeps, AccountKeeps DEF L!Next
  <2> QED BY <2>1, <2>2
<1> QED BY <1>1, <1>2, <1>3 DEF GrantInv

StravaSound == /\ L!TypeOK /\ L!NoOrphanGrant /\ L!NothingAfterDisconnect /\ L!PlainListOffDisk
           /\ L!CodeKeepsState
LEMMA GrantInvSound == GrantInv => StravaSound
<1> SUFFICES ASSUME GrantInv PROVE StravaSound OBVIOUS
<1>1. L!TypeOK
  BY DEF GrantInv, LinkTyped, CallTyped, Call, L!TypeOK, L!Idle, Holding
<1>2. L!NoOrphanGrant
  BY DEF GrantInv, LinkTyped, Covered, L!NoOrphanGrant, L!Idle, Holding
<1> QED BY <1>1, <1>2 DEF GrantInv, StravaSound

(* For any number of requests, connects, codes and tokens: a disconnected  *)
(* account leaves no grant at Strava and no list behind, an encrypted one  *)
(* no list on disk, and a code keeps the connect it came back with.        *)
THEOREM StravaHolds == ASSUME None \notin Connects PROVE L!Spec => []StravaSound
<1>1. L!Spec => []GrantInv BY InitGrantInv, StepGrantInv, PTL DEF L!Spec
<1> QED BY <1>1, GrantInvSound, PTL
-----------------------------------------------------------------------------
CONSTANTS Signs, MaxProfiles, MaxGrants
VARIABLES users, infos, profiles, apples, mails, handed, works, sign, let, crossed
A == INSTANCE Accounts WITH
    Reqs <- Signs, MaxTokens <- MaxGrants, links <- mails, issued <- handed, live <- works,
    req <- sign

(* Accounts.  A request holds an Apple token until it is stored or         *)
(* revoked; a deletion goes on once the token it read works no more.       *)
InHand == {"lookup", "store", "revoke"}
SignOk(x, n, w, l) ==
    /\ x.pc \in InHand => x.tok \in 1..n
    /\ x.pc = "revoke" => x.then = A!Idle \/ (x.then.pc = "drop" /\ x.then.tok = x.tok)
    /\ x.pc = "drop" => x.tok \in 0..n /\ (x.tok \notin w \/ x.tok \in l)
    /\ x.pc = "clear" => x = [pc |-> "clear", info |-> x.info]
    /\ x.pc \in {"adduser", "addinfo"} => x.name \in {"mail", "google"}
SignsTyped ==
    /\ handed \in Nat /\ works \subseteq 1..handed
    /\ sign = [s \in Signs |-> sign[s]]
    /\ \A s \in Signs : SignOk(sign[s], handed, works, let)

ProfileOk(p, n) ==
    /\ p.id \in 1..n
    /\ p = [id |-> p.id, local |-> p.local, name |-> p.name, verified |-> p.verified]
ProfilesTyped == profiles \in Nat /\ \A p \in infos : ProfileOk(p, profiles)

(* An account has one Apple token row, and a row an account.               *)
RowsOwned ==
    \A a \in apples : /\ a.tok \in 1..handed
                      /\ A!Exists(a.info)
                      /\ \A b \in apples : a.info = b.info => a = b

Kept(t) ==
    \/ \E a \in apples : a.tok = t
    \/ \E r \in Signs : sign[r].pc \in InHand /\ sign[r].tok = t
    \/ t \in let
AppleInv == SignsTyped /\ ProfilesTyped /\ RowsOwned /\ \A t \in works : Kept(t)

(* What a step of a request does to the requests.                          *)
LEMMA SignMoves ==
    ASSUME SignsTyped, NEW r \in Signs, NEW x, SignOk(x, handed', works', let'),
           sign' = [sign EXCEPT ![r] = x], handed' \in Nat, handed <= handed', let \subseteq let',
           works' \subseteq 1..handed', \A t \in 0..handed : t \in works' => t \in works
    PROVE  /\ SignsTyped'
           /\ sign'[r] = x /\ \A s \in Signs \ {r} : sign'[s] = sign[s]
<1>1. /\ sign'[r] = x /\ \A s \in Signs \ {r} : sign'[s] = sign[s]
      /\ sign' = [s \in Signs |-> sign'[s]]
  BY DEF SignsTyped
<1>2. ASSUME NEW s \in Signs \ {r} PROVE SignOk(sign[s], handed', works', let')
  <2>1. SignOk(sign[s], handed, works, let) BY DEF SignsTyped
  <2>2. \A t \in 1..handed : t \in 1..handed' BY DEF SignsTyped
  <2>3. \A t \in 0..handed : t \in 0..handed' BY DEF SignsTyped
  <2> QED BY <2>1, <2>2, <2>3 DEF SignOk
<1>3. \A s \in Signs : SignOk(sign'[s], handed', works', let') BY <1>1, <1>2
<1> QED BY <1>1, <1>3 DEF SignsTyped

(* The steps that leave Apple's tokens and their rows alone.               *)
LEMMA QuietSign ==
    ASSUME AppleInv, NEW r \in Signs, NEW x, SignOk(x, handed', works', let'),
           sign' = [sign EXCEPT ![r] = x], handed' \in Nat, handed <= handed',
           UNCHANGED <<apples, works, let>>, ProfilesTyped',
           \A p \in infos : \E q \in infos' : q.id = p.id,
           sign[r].pc \in InHand => x.pc \in InHand /\ x.tok = sign[r].tok
    PROVE  AppleInv'
<1>1. SignsTyped' /\ sign'[r] = x /\ \A s \in Signs \ {r} : sign'[s] = sign[s]
  <2>1. works' \subseteq 1..handed' BY DEF AppleInv, SignsTyped
  <2>2. \A t \in 0..handed : t \in works' => t \in works OBVIOUS
  <2>3. let \subseteq let' /\ SignsTyped BY DEF AppleInv
  <2> QED BY <2>1, <2>2, <2>3, SignMoves
<1>2. RowsOwned'
  <2>1. \A a \in apples : a.tok \in 1..handed => a.tok \in 1..handed' BY DEF AppleInv, SignsTyped
  <2>2. \A a \in apples : A!Exists(a.info) => A!Exists(a.info)' BY DEF A!Exists
  <2> QED BY <2>1, <2>2 DEF AppleInv, RowsOwned
<1>3. ASSUME NEW t \in works PROVE Kept(t)'
  <2>1. Kept(t) BY DEF AppleInv
  <2> QED BY <1>1, <2>1 DEF Kept
<1> QED BY <1>1, <1>2, <1>3 DEF AppleInv

(* Sign-ups, links, passwords, a look-up, and the start of a deletion.     *)
LEMMA SignUpKeeps ==
    ASSUME AppleInv, NEW r \in Signs,
           \/ A!Register(r) \/ A!GoogleLogin(r) \/ A!AddUser(r) \/ A!AddInfo(r) \/ A!Login(r)
           \/ A!Crash(r)
    PROVE  AppleInv'
<1> USE DEF A!Set, A!Done, A!rows, A!tokens
<1>0. /\ SignsTyped /\ ProfilesTyped /\ SignOk(sign[r], handed, works, let)
      /\ handed \in Nat /\ handed <= handed
  BY DEF AppleInv, SignsTyped
<1>i. SignOk(A!Idle, handed, works, let) /\ A!Idle.pc \notin InHand BY DEF SignOk, A!Idle, InHand
<1>s. UNCHANGED <<infos, profiles>> =>
        ProfilesTyped' /\ \A p \in infos : \E q \in infos' : q.id = p.id
  BY <1>0 DEF ProfilesTyped
<1>1. ASSUME NEW n \in {"mail", "google"}, sign[r] = A!Idle, A!Set(r, [pc |-> "adduser", name |-> n]),
             UNCHANGED <<A!rows, A!tokens>>
      PROVE  AppleInv'
  <2> DEFINE x == [pc |-> "adduser", name |-> n]
  <2>1. SignOk(x, handed', works', let') BY <1>1 DEF SignOk, InHand
  <2>2. sign' = [sign EXCEPT ![r] = x] /\ sign[r].pc \notin InHand BY <1>1, <1>i
  <2> HIDE DEF x
  <2> QED BY <1>0, <1>1, <1>s, <2>1, <2>2, QuietSign
<1>2. CASE A!Register(r) \/ A!GoogleLogin(r) BY <1>1, <1>2 DEF A!Register, A!GoogleLogin
<1>3. CASE A!AddUser(r)
  <2>1. /\ UNCHANGED <<infos, profiles, apples, handed, works, let>> /\ sign[r].pc \notin InHand
    BY <1>3 DEF A!AddUser, InHand
  <2>2. CASE sign' = [sign EXCEPT ![r] = A!Idle] BY <1>0, <1>i, <1>s, <2>1, <2>2, QuietSign
  <2>3. CASE A!Set(r, [pc |-> "addinfo", name |-> sign[r].name, local |-> A!FreeId,
                       mail |-> sign[r].name = "mail"])
    <3> DEFINE x == [pc |-> "addinfo", name |-> sign[r].name, local |-> A!FreeId,
                     mail |-> sign[r].name = "mail"]
    <3>1. x.pc = "addinfo" /\ x.name = sign[r].name /\ sign[r].name \in {"mail", "google"}
      BY <1>0, <1>3 DEF A!AddUser, SignOk
    <3>2. sign' = [sign EXCEPT ![r] = x] BY <2>3
    <3> HIDE DEF x
    <3>3. SignOk(x, handed', works', let') BY <3>1 DEF SignOk, InHand
    <3> QED BY <1>0, <1>s, <2>1, <3>2, <3>3, QuietSign
  <2> QED BY <1>3, <2>2, <2>3 DEF A!AddUser
<1>4. CASE A!AddInfo(r)
  <2>0. UNCHANGED <<apples, handed, works, let>> /\ sign[r].pc \notin InHand
    BY <1>4 DEF A!AddInfo, InHand
  <2>1. CASE UNCHANGED <<infos, profiles>> /\ A!Done(r)
    BY <1>0, <1>i, <1>s, <2>0, <2>1, QuietSign
  <2>2. CASE /\ infos' = infos \cup {A!Profile(sign[r].local, sign[r].name, FALSE)}
             /\ profiles' = profiles + 1
             /\ A!Set(r, IF sign[r].mail THEN [pc |-> "clear", info |-> profiles + 1] ELSE A!Idle)
    <3>1. ProfilesTyped' /\ \A p \in infos : \E q \in infos' : q.id = p.id
      <4>1. ProfileOk(A!Profile(sign[r].local, sign[r].name, FALSE), profiles')
        BY <1>0, <2>2 DEF ProfileOk, A!Profile, ProfilesTyped
      <4>2. \A p \in infos : ProfileOk(p, profiles') BY <1>0, <2>2 DEF ProfileOk, ProfilesTyped
      <4>3. profiles' \in Nat BY <1>0, <2>2 DEF ProfilesTyped
      <4> QED BY <2>2, <4>1, <4>2, <4>3 DEF ProfilesTyped
    <3> DEFINE x == [pc |-> "clear", info |-> profiles + 1]
    <3>2. SignOk(x, handed', works', let') BY DEF SignOk, InHand
    <3>3. sign' = [sign EXCEPT ![r] = x] \/ sign' = [sign EXCEPT ![r] = A!Idle] BY <2>2
    <3> HIDE DEF x
    <3> QED BY <1>0, <1>i, <2>0, <3>1, <3>2, <3>3, QuietSign
  <2> QED BY <1>4, <2>1, <2>2 DEF A!AddInfo
<1>5. CASE A!Login(r)
  <2> PICK u \in users : A!Set(r, [pc |-> "addinfo", name |-> "mail", local |-> u.id, mail |-> FALSE])
    BY <1>5 DEF A!Login
  <2> DEFINE x == [pc |-> "addinfo", name |-> "mail", local |-> u.id, mail |-> FALSE]
  <2>1. SignOk(x, handed', works', let') BY DEF SignOk, InHand
  <2>2. sign' = [sign EXCEPT ![r] = x] OBVIOUS
  <2> HIDE DEF x
  <2>3. sign[r].pc \notin InHand /\ UNCHANGED <<infos, profiles, apples, handed, works, let>>
    BY <1>5, <1>i DEF A!Login
  <2> QED BY <1>0, <1>s, <2>1, <2>2, <2>3, QuietSign
<1>6. CASE A!Crash(r)
  <2>1. sign[r].pc \notin InHand BY <1>6 DEF A!Crash, InHand
  <2> QED BY <1>0, <1>i, <1>6, <1>s, <2>1, QuietSign DEF A!Crash
<1> QED BY <1>2, <1>3, <1>4, <1>5, <1>6

LEMMA LinkAndLookKeeps ==
    ASSUME AppleInv, NEW r \in Signs,
           \/ A!ChangePassword(r) \/ A!ResetPassword(r) \/ A!SetPassword(r)
           \/ A!ClearLinks(r) \/ A!PutLink(r) \/ A!Lookup(r)
           \/ \E p \in infos : A!Delete(r, p) \/ A!Resend(r, p)
    PROVE  AppleInv'
<1> USE DEF A!Set, A!Done, A!rows, A!tokens
<1>0. /\ SignsTyped /\ ProfilesTyped /\ SignOk(sign[r], handed, works, let)
      /\ handed \in Nat /\ handed <= handed
  BY DEF AppleInv, SignsTyped
<1>i. SignOk(A!Idle, handed, works, let) /\ A!Idle.pc \notin InHand BY DEF SignOk, A!Idle, InHand
<1>s. UNCHANGED <<infos, profiles>> =>
        ProfilesTyped' /\ \A p \in infos : \E q \in infos' : q.id = p.id
  BY <1>0 DEF ProfilesTyped
<1>1. ASSUME NEW to, A!ReadPassword(r, to) PROVE AppleInv'
  <2> PICK u \in users : A!Set(r, [pc |-> "setpw", local |-> u.id, to |-> to, must |-> u.must])
    BY <1>1 DEF A!ReadPassword
  <2> DEFINE x == [pc |-> "setpw", local |-> u.id, to |-> to, must |-> u.must]
  <2>1. SignOk(x, handed', works', let') BY DEF SignOk, InHand
  <2>2. sign' = [sign EXCEPT ![r] = x] OBVIOUS
  <2> HIDE DEF x
  <2>3. sign[r].pc \notin InHand /\ UNCHANGED <<infos, profiles, apples, handed, works, let>>
    BY <1>1, <1>i DEF A!ReadPassword
  <2> QED BY <1>0, <1>s, <2>1, <2>2, <2>3, QuietSign
<1>2. CASE A!SetPassword(r)
  <2>1. sign[r].pc \notin InHand BY <1>2 DEF A!SetPassword, InHand
  <2> QED BY <1>0, <1>i, <1>2, <1>s, <2>1, QuietSign DEF A!SetPassword
<1>3. CASE A!ClearLinks(r)
  <2> DEFINE x == [pc |-> "put", info |-> sign[r].info]
  <2>1. sign[r] = [pc |-> "clear", info |-> sign[r].info] BY <1>0, <1>3 DEF A!ClearLinks, SignOk
  <2>2. [sign[r] EXCEPT !.pc = "put"] = x BY <2>1
  <2>3. sign' = [sign EXCEPT ![r] = x] BY <1>3, <2>2 DEF A!ClearLinks
  <2>4. SignOk(x, handed', works', let') BY DEF SignOk, InHand
  <2>5. sign[r].pc \notin InHand /\ UNCHANGED <<infos, profiles, apples, handed, works, let>>
    BY <1>3 DEF A!ClearLinks, InHand
  <2> HIDE DEF x
  <2> QED BY <1>0, <1>s, <2>3, <2>4, <2>5, QuietSign
<1>4. CASE A!PutLink(r)
  <2>1. /\ sign[r].pc \notin InHand /\ UNCHANGED <<infos, profiles, apples, works, let>>
        /\ sign' = [sign EXCEPT ![r] = A!Idle] /\ handed' \in {handed, handed + 1}
    BY <1>4 DEF A!PutLink, InHand
  <2>2. handed' \in Nat /\ handed <= handed' BY <1>0, <2>1
  <2>3. SignOk(A!Idle, handed', works', let') BY DEF SignOk, A!Idle, InHand
  <2> QED BY <1>0, <1>s, <2>1, <2>2, <2>3, QuietSign
<1>5. CASE A!Lookup(r)
  <2> PICK i : A!Set(r, [pc |-> "store", tok |-> sign[r].tok, info |-> i]) BY <1>5 DEF A!Lookup
  <2> DEFINE x == [pc |-> "store", tok |-> sign[r].tok, info |-> i]
  <2>0. x.pc = "store" /\ x.tok = sign[r].tok OBVIOUS
  <2>1. sign' = [sign EXCEPT ![r] = x] OBVIOUS
  <2>2. sign[r].pc = "lookup" /\ UNCHANGED <<infos, profiles, apples, handed, works, let>>
    BY <1>5 DEF A!Lookup
  <2> HIDE DEF x
  <2>3. SignOk(x, handed', works', let') BY <1>0, <2>0, <2>2 DEF SignOk, InHand
  <2>4. x.pc \in InHand BY <2>0 DEF InHand
  <2> QED BY <1>0, <1>s, <2>0, <2>1, <2>2, <2>3, <2>4, QuietSign
<1>6. ASSUME NEW p \in infos, A!Resend(r, p) PROVE AppleInv'
  <2> DEFINE x == [pc |-> "clear", info |-> p.id]
  <2>1. SignOk(x, handed', works', let') BY DEF SignOk, InHand
  <2>2. /\ sign' = [sign EXCEPT ![r] = x] /\ sign[r].pc \notin InHand
        /\ UNCHANGED <<infos, profiles, apples, handed, works, let>>
    BY <1>6, <1>i DEF A!Resend
  <2> HIDE DEF x
  <2> QED BY <1>0, <1>s, <2>1, <2>2, QuietSign
<1>7. ASSUME NEW p \in infos, A!Delete(r, p) PROVE AppleInv'
  <2> DEFINE mine == {a \in apples : a.info = p.id}
             a0 == CHOOSE a \in mine : TRUE
             drop(t) == [pc |-> "drop", info |-> p.id, tok |-> t]
             x == [pc |-> "revoke", tok |-> a0.tok, then |-> drop(a0.tok)]
  <2>1. sign[r].pc \notin InHand /\ UNCHANGED <<infos, profiles, apples, handed, works, let>>
    BY <1>7, <1>i DEF A!Delete
  <2>2. CASE mine = {}
    <3>1. sign' = [sign EXCEPT ![r] = drop(0)] BY <1>7, <2>2 DEF A!Delete
    <3>2. SignOk(drop(0), handed', works', let')
      <4>1. drop(0).pc = "drop" /\ drop(0).tok = 0 OBVIOUS
      <4>2. 0 \notin works' /\ 0 \in 0..handed' BY <1>0, <2>1 DEF SignsTyped
      <4> HIDE DEF drop
      <4> QED BY <4>1, <4>2 DEF SignOk, InHand
    <3> HIDE DEF drop
    <3> QED BY <1>0, <1>s, <2>1, <3>1, <3>2, QuietSign
  <2>3. CASE mine # {}
    <3>0. a0 \in apples BY <2>3
    <3>1. sign' = [sign EXCEPT ![r] = x] BY <1>7, <2>3 DEF A!Delete
    <3>2. x.pc = "revoke" /\ x.tok = a0.tok /\ x.then.pc = "drop" /\ x.then.tok = a0.tok OBVIOUS
    <3>3. a0.tok \in 1..handed BY <3>0 DEF AppleInv, RowsOwned
    <3> HIDE DEF x, a0
    <3>4. SignOk(x, handed', works', let') BY <2>1, <3>2, <3>3 DEF SignOk, InHand
    <3> QED BY <1>0, <1>s, <2>1, <3>1, <3>4, QuietSign
  <2> QED BY <2>2, <2>3
<1> QED BY <1>1, <1>2, <1>3, <1>4, <1>5, <1>6, <1>7 DEF A!ChangePassword, A!ResetPassword

(* Apple hands a token out, it is stored, and the one it replaces is let   *)
(* go.                                                                     *)
LEMMA StoreKeepsApple ==
    ASSUME AppleInv, NEW r \in Signs, A!Exchange(r) \/ A!StoreNew(r) \/ A!Store(r)
    PROVE  AppleInv'
<1> USE DEF A!Set, A!Done
<1>0. /\ SignsTyped /\ ProfilesTyped /\ RowsOwned /\ SignOk(sign[r], handed, works, let)
      /\ handed \in Nat /\ handed <= handed /\ profiles \in Nat /\ works \subseteq 1..handed
      /\ \A t \in works : Kept(t)
  BY DEF AppleInv, SignsTyped, ProfilesTyped
<1>i. SignOk(A!Idle, handed, works, let') /\ A!Idle.pc \notin InHand BY DEF SignOk, A!Idle, InHand
<1>1. CASE A!Exchange(r)
  <2> DEFINE x == [pc |-> "lookup", tok |-> handed + 1]
  <2>1. /\ sign' = [sign EXCEPT ![r] = x] /\ sign[r].pc \notin InHand
        /\ handed' = handed + 1 /\ works' = works \cup {handed + 1}
        /\ UNCHANGED <<infos, profiles, apples, let>>
    BY <1>1, <1>i DEF A!Exchange, A!rows
  <2>2. x.pc = "lookup" /\ x.tok = handed + 1 OBVIOUS
  <2> HIDE DEF x
  <2>3. handed' \in Nat /\ handed <= handed' /\ handed + 1 \in 1..handed' BY <1>0, <2>1
  <2>4. SignOk(x, handed', works', let') BY <2>2, <2>3 DEF SignOk, InHand
  <2>5. works' \subseteq 1..handed' /\ \A t \in 0..handed : t \in works' => t \in works
    BY <1>0, <2>1, <2>3
  <2>6. SignsTyped' /\ sign'[r] = x /\ \A s \in Signs \ {r} : sign'[s] = sign[s]
    BY <1>0, <2>1, <2>3, <2>4, <2>5, SignMoves
  <2>7. RowsOwned' /\ ProfilesTyped'
    <3>1. \A a \in apples : a.tok \in 1..handed => a.tok \in 1..handed' BY <1>0, <2>1
    <3> QED BY <1>0, <2>1, <3>1 DEF RowsOwned, ProfilesTyped, A!Exists
  <2>8. ASSUME NEW t \in works PROVE Kept(t)' BY <1>0, <2>1, <2>6 DEF Kept
  <2> PICK n : n = handed + 1 OBVIOUS
  <2>9. Kept(n)' BY <2>2, <2>6 DEF Kept, InHand
  <2> QED BY <2>1, <2>6, <2>7, <2>8, <2>9 DEF AppleInv
<1>2. CASE A!StoreNew(r)
  <2>0. /\ sign' = [sign EXCEPT ![r] = A!Idle] /\ UNCHANGED <<handed, works>>
        /\ sign[r].pc = "store" /\ let \subseteq let'
    BY <1>2 DEF A!StoreNew
  <2>1. SignsTyped' /\ sign'[r] = A!Idle /\ \A s \in Signs \ {r} : sign'[s] = sign[s]
    BY <1>0, <1>i, <2>0, SignMoves
  <2>2. sign[r].tok \in 1..handed BY <1>0, <2>0 DEF SignOk, InHand
  <2>3. CASE let' = let \cup {sign[r].tok} /\ UNCHANGED <<infos, profiles, apples>>
    <3>1. RowsOwned' /\ ProfilesTyped' BY <1>0, <2>0, <2>3 DEF RowsOwned, ProfilesTyped, A!Exists
    <3>2. ASSUME NEW t \in works PROVE Kept(t)' BY <1>0, <2>1, <2>3 DEF Kept
    <3> QED BY <2>0, <2>1, <3>1, <3>2 DEF AppleInv
  <2>4. CASE /\ infos' = infos \cup {A!Profile(A!FreeId, "apple", TRUE)}
             /\ profiles' = profiles + 1 /\ UNCHANGED let
             /\ apples' = apples \cup {[info |-> profiles + 1, tok |-> sign[r].tok]}
    <3>0. A!Profile(A!FreeId, "apple", TRUE).id = profiles + 1 BY DEF A!Profile
    <3>1. ProfilesTyped'
      <4>1. ProfileOk(A!Profile(A!FreeId, "apple", TRUE), profiles')
        BY <1>0, <2>4 DEF ProfileOk, A!Profile
      <4>2. \A p \in infos : ProfileOk(p, profiles')
        BY <1>0, <2>4 DEF ProfileOk, ProfilesTyped
      <4>3. profiles' \in Nat BY <1>0, <2>4
      <4> QED BY <2>4, <4>1, <4>2, <4>3 DEF ProfilesTyped
    <3>2. \A a \in apples : a.info # profiles + 1
      BY <1>0 DEF RowsOwned, A!Exists, ProfilesTyped, ProfileOk
    <3>3. RowsOwned'
      <4> DEFINE new == [info |-> profiles + 1, tok |-> sign[r].tok]
      <4>1. new.info = profiles + 1 /\ new.tok = sign[r].tok OBVIOUS
      <4>2. apples' = apples \cup {new} BY <2>4
      <4> HIDE DEF new
      <4>3. \E p \in infos' : p.id = profiles + 1 BY <2>4, <3>0
      <4>4. ASSUME NEW a \in apples'
            PROVE  /\ a.tok \in 1..handed' /\ A!Exists(a.info)'
                   /\ \A b \in apples' : a.info = b.info => a = b
        <5>1. CASE a = new
          <6>1. a.tok \in 1..handed' /\ a.info = profiles + 1 BY <2>0, <2>2, <4>1, <5>1
          <6>2. A!Exists(a.info)' BY <4>3, <6>1 DEF A!Exists
          <6>3. \A b \in apples' : a.info = b.info => a = b BY <3>2, <4>2, <5>1, <6>1
          <6> QED BY <6>1, <6>2, <6>3
        <5>2. CASE a \in apples
          <6>1. a.tok \in 1..handed' /\ A!Exists(a.info)'
            BY <1>0, <2>0, <2>4, <5>2 DEF RowsOwned, A!Exists
          <6>2. \A b \in apples' : a.info = b.info => a = b
            BY <1>0, <3>2, <4>1, <4>2, <5>2 DEF RowsOwned
          <6> QED BY <6>1, <6>2
        <5> QED BY <4>2, <5>1, <5>2
      <4> QED BY <4>4 DEF RowsOwned
    <3>4. ASSUME NEW t \in works PROVE Kept(t)'
      <4>1. CASE t = sign[r].tok
        <5>1. [info |-> profiles + 1, tok |-> sign[r].tok].tok = t BY <4>1
        <5> QED BY <2>4, <5>1 DEF Kept
      <4>2. CASE t # sign[r].tok BY <1>0, <2>1, <2>4, <4>2 DEF Kept
      <4> QED BY <4>1, <4>2
    <3> QED BY <2>0, <2>1, <3>1, <3>3, <3>4 DEF AppleInv
  <2> QED BY <1>2, <2>3, <2>4 DEF A!StoreNew
<1>3. CASE A!Store(r)
  <2> DEFINE i == sign[r].info
             new == [info |-> i, tok |-> sign[r].tok]
             x == [pc |-> "revoke", tok |-> sign[r].tok, then |-> A!Idle]
  <2>0. /\ sign[r].pc = "store" /\ UNCHANGED <<infos, profiles, handed, works>>
        /\ sign[r].tok \in 1..handed
    BY <1>0, <1>3 DEF A!Store, SignOk, InHand
  <2>p. ProfilesTyped' BY <1>0, <2>0 DEF ProfilesTyped
  <2>1. CASE A!Exists(i)
    <3>1. /\ sign' = [sign EXCEPT ![r] = A!Idle]
          /\ apples' = {a \in apples : a.info # i} \cup {new}
          /\ let' = let \cup {a.tok : a \in {b \in apples : b.info = i}}
      BY <1>3, <2>1 DEF A!Store, A!Replaced
    <3>2. new.info = i /\ new.tok = sign[r].tok OBVIOUS
    <3> HIDE DEF new
    <3>3. SignsTyped' /\ sign'[r] = A!Idle /\ \A s \in Signs \ {r} : sign'[s] = sign[s]
      <4>1. let \subseteq let' BY <3>1
      <4> QED BY <1>0, <1>i, <2>0, <3>1, <4>1, SignMoves
    <3>4. RowsOwned'
      <4>1. ASSUME NEW a \in apples'
            PROVE  /\ a.tok \in 1..handed' /\ A!Exists(a.info)'
                   /\ \A b \in apples' : a.info = b.info => a = b
        BY <1>0, <2>0, <2>1, <3>1, <3>2 DEF RowsOwned, A!Exists
      <4> QED BY <4>1 DEF RowsOwned
    <3>5. ASSUME NEW t \in works PROVE Kept(t)'
      <4>1. CASE t = sign[r].tok BY <3>1, <3>2, <4>1 DEF Kept
      <4>2. CASE t # sign[r].tok /\ \E a \in apples : a.tok = t
        <5> PICK a \in apples : a.tok = t BY <4>2
        <5>1. CASE a.info = i BY <3>1, <5>1 DEF Kept
        <5>2. CASE a.info # i BY <3>1, <5>2 DEF Kept
        <5> QED BY <5>1, <5>2
      <4>3. CASE t # sign[r].tok /\ ~ \E a \in apples : a.tok = t
        BY <1>0, <3>1, <3>3, <4>3 DEF Kept
      <4> QED BY <4>1, <4>2, <4>3
    <3> QED BY <2>0, <2>p, <3>3, <3>4, <3>5 DEF AppleInv
  <2>2. CASE ~A!Exists(i)
    <3>1. sign' = [sign EXCEPT ![r] = x] /\ UNCHANGED <<apples, let>>
      BY <1>3, <2>2 DEF A!Store
    <3>2. x.pc = "revoke" /\ x.tok = sign[r].tok /\ x.then = A!Idle OBVIOUS
    <3> HIDE DEF x
    <3>3. SignOk(x, handed', works', let') /\ x.pc \in InHand BY <2>0, <3>2 DEF SignOk, InHand
    <3>4. \A p \in infos : \E q \in infos' : q.id = p.id BY <2>0
    <3> QED BY <1>0, <2>0, <2>p, <3>1, <3>2, <3>3, <3>4, QuietSign
  <2> QED BY <2>1, <2>2
<1> QED BY <1>1, <1>2, <1>3

(* A token is revoked, or the failure to do so is on record, and an        *)
(* account's rows go.                                                      *)
LEMMA DropKeepsApple ==
    ASSUME AppleInv, NEW r \in Signs, A!RevokeToken(r) \/ A!DropRows(r)
    PROVE  AppleInv'
<1> USE DEF A!Set, A!Done
<1>0. /\ SignsTyped /\ ProfilesTyped /\ RowsOwned /\ SignOk(sign[r], handed, works, let)
      /\ handed \in Nat /\ handed <= handed /\ profiles \in Nat /\ works \subseteq 1..handed
      /\ \A t \in works : Kept(t)
  BY DEF AppleInv, SignsTyped, ProfilesTyped
<1>i. SignOk(A!Idle, handed, works, let) /\ A!Idle.pc \notin InHand BY DEF SignOk, A!Idle, InHand
<1>1. CASE A!RevokeToken(r)
  <2>0. /\ sign[r].pc = "revoke" /\ sign' = [sign EXCEPT ![r] = sign[r].then]
        /\ UNCHANGED <<infos, profiles, apples, handed>>
        /\ \/ works' = works \ {sign[r].tok} /\ let' = let
           \/ let' = let \cup {sign[r].tok} /\ works' = works
    BY <1>1 DEF A!RevokeToken, A!rows
  <2> PICK t : t = sign[r].tok OBVIOUS
  <2> PICK x : x = sign[r].then OBVIOUS
  <2>1. t \in 1..handed /\ (x = A!Idle \/ (x.pc = "drop" /\ x.tok = t))
    BY <1>0, <2>0 DEF SignOk, InHand
  <2>2. t \notin works' \/ t \in let' BY <2>0
  <2>3. SignOk(x, handed', works', let')
    <3>1. t \in 0..handed' BY <1>0, <2>0, <2>1
    <3> QED BY <2>1, <2>2, <3>1 DEF SignOk, A!Idle, InHand
  <2>4. SignsTyped' /\ sign'[r] = x /\ \A s \in Signs \ {r} : sign'[s] = sign[s]
    <3>1. let \subseteq let' /\ works' \subseteq 1..handed' /\ works' \subseteq works BY <1>0, <2>0
    <3> QED BY <1>0, <2>0, <2>3, <3>1, SignMoves
  <2>5. RowsOwned' /\ ProfilesTyped' BY <1>0, <2>0 DEF RowsOwned, ProfilesTyped, A!Exists
  <2>6. ASSUME NEW u \in works' PROVE Kept(u)'
    <3>1. u \in works /\ let \subseteq let' BY <2>0
    <3>2. CASE u = t BY <2>2, <3>2 DEF Kept
    <3>3. CASE u # t BY <1>0, <2>0, <2>4, <3>1, <3>3 DEF Kept
    <3> QED BY <3>2, <3>3
  <2> QED BY <2>4, <2>5, <2>6 DEF AppleInv
<1>2. CASE A!DropRows(r)
  <2> DEFINE i == sign[r].info
             t == sign[r].tok
             gone == {p \in infos : p.id = i}
             rotated == {a \in apples : a.info = i /\ a.tok # t}
             a0 == CHOOSE a \in rotated : TRUE
             x == [pc |-> "revoke", tok |-> a0.tok, then |-> A!Idle]
  <2>0. /\ sign[r].pc = "drop" /\ t \in 0..handed /\ (t \notin works \/ t \in let)
        /\ UNCHANGED <<handed, works, let, profiles>>
    BY <1>0, <1>2 DEF A!DropRows, SignOk, A!rows
  <2>1. CASE gone = {}
    <3>1. sign' = [sign EXCEPT ![r] = A!Idle] /\ UNCHANGED <<infos, apples>>
      BY <1>2, <2>1 DEF A!DropRows, A!rows
    <3>2. ProfilesTyped' /\ \A p \in infos : \E q \in infos' : q.id = p.id
      BY <1>0, <2>0, <3>1 DEF ProfilesTyped
    <3>3. sign[r].pc \notin InHand BY <2>0 DEF InHand
    <3> QED BY <1>0, <1>i, <2>0, <3>1, <3>2, <3>3, QuietSign
  <2>2. CASE gone # {}
    <3>1. /\ apples' = {a \in apples : a.info # i} /\ infos' = infos \ gone
          /\ sign' = [sign EXCEPT ![r] = IF rotated = {} THEN A!Idle ELSE x]
      BY <1>2, <2>2 DEF A!DropRows, A!Rotated
    <3>2. x.pc = "revoke" /\ x.tok = a0.tok /\ x.then = A!Idle OBVIOUS
    <3>3. rotated # {} => a0 \in rotated OBVIOUS
    <3> PICK y : y = IF rotated = {} THEN A!Idle ELSE x OBVIOUS
    <3> HIDE DEF x, a0
    <3>4. SignOk(y, handed', works', let')
      <4>1. CASE rotated = {} BY <1>i, <2>0, <4>1
      <4>2. CASE rotated # {}
        <5>1. y = x /\ a0.tok \in 1..handed BY <1>0, <3>3, <4>2 DEF RowsOwned
        <5> QED BY <2>0, <3>2, <5>1 DEF SignOk, InHand
      <4> QED BY <4>1, <4>2
    <3>5. SignsTyped' /\ sign'[r] = y /\ \A s \in Signs \ {r} : sign'[s] = sign[s]
      BY <1>0, <2>0, <3>1, <3>4, SignMoves
    <3>6. ProfilesTyped' BY <1>0, <2>0, <3>1 DEF ProfilesTyped
    <3>7. RowsOwned'
      <4>1. ASSUME NEW a \in apples' PROVE A!Exists(a.info)'
        <5>1. a \in apples /\ a.info # i BY <3>1
        <5> PICK p \in infos : p.id = a.info BY <1>0, <5>1 DEF RowsOwned, A!Exists
        <5> QED BY <3>1, <5>1 DEF A!Exists
      <4> QED BY <1>0, <2>0, <3>1, <4>1 DEF RowsOwned
    <3>8. ASSUME NEW u \in works PROVE Kept(u)'
      <4>1. CASE \E a \in apples : a.tok = u
        <5> PICK a \in apples : a.tok = u BY <4>1
        <5>1. CASE a.info # i BY <3>1, <5>1 DEF Kept
        <5>2. CASE a.info = i /\ u = t BY <2>0, <5>2 DEF Kept
        <5>3. CASE a.info = i /\ u # t
          <6>1. a \in rotated BY <5>3
          <6>2. a0 = a BY <1>0, <3>3, <6>1 DEF RowsOwned
          <6>3. y = x BY <6>1
          <6> QED BY <3>2, <3>5, <6>2, <6>3 DEF Kept, InHand
        <5> QED BY <5>1, <5>2, <5>3
      <4>2. CASE ~ \E a \in apples : a.tok = u
        BY <1>0, <2>0, <3>5, <4>2 DEF Kept, InHand
      <4> QED BY <4>1, <4>2
    <3> QED BY <2>0, <3>5, <3>6, <3>7, <3>8 DEF AppleInv
  <2> QED BY <2>1, <2>2
<1> QED BY <1>1, <1>2

(* A link is followed, or found too old; a profile stays what it was.      *)
Verified(p) == [p EXCEPT !.verified = TRUE]

LEMMA VerifiedSame ==
    ASSUME NEW n, NEW p, ProfileOk(p, n)
    PROVE  /\ ProfileOk(Verified(p), n) /\ Verified(p).id = p.id
           /\ Verified(p).name = p.name /\ Verified(p).local = p.local
<1>1. Verified(p) = [id |-> p.id, local |-> p.local, name |-> p.name, verified |-> TRUE]
  <2> DEFINE q == [id |-> p.id, local |-> p.local, name |-> p.name, verified |-> p.verified]
  <2>1. p = q BY DEF ProfileOk
  <2>2. ASSUME NEW v
        PROVE  [q EXCEPT !.verified = v]
                 = [id |-> p.id, local |-> p.local, name |-> p.name, verified |-> v]
    OBVIOUS
  <2> HIDE DEF q
  <2> QED BY <2>1, <2>2 DEF Verified
<1>2. /\ Verified(p).id = p.id /\ Verified(p).name = p.name /\ Verified(p).local = p.local
      /\ Verified(p).verified = TRUE
  BY <1>1
<1> QED BY <1>1, <1>2 DEF ProfileOk

LEMMA FollowKeeps ==
    ASSUME AppleInv, NEW l \in mails, A!Consume(l) \/ A!Expire(l)
    PROVE  AppleInv'
<1>0. UNCHANGED <<profiles, apples, handed, works, let, sign>>
  BY DEF A!Consume, A!Expire, A!tokens
<1>1. infos' = infos \/ infos' = {IF p.id = l.info THEN Verified(p) ELSE p : p \in infos}
  BY DEF A!Consume, A!Expire, Verified
<1>2. \A p \in infos : ProfileOk(p, profiles) BY DEF AppleInv, ProfilesTyped
<1>3. \A p \in infos : ProfileOk(Verified(p), profiles) /\ Verified(p).id = p.id
  BY <1>2, VerifiedSame
<1>4. \A p \in infos : \E q \in infos' : q.id = p.id
  <2> SUFFICES ASSUME NEW p \in infos PROVE \E q \in infos' : q.id = p.id OBVIOUS
  <2>1. (IF p.id = l.info THEN Verified(p) ELSE p).id = p.id BY <1>3
  <2> QED BY <1>1, <2>1
<1>5. ASSUME NEW q \in infos' PROVE ProfileOk(q, profiles) BY <1>1, <1>2, <1>3
<1>6. ProfilesTyped' BY <1>0, <1>5 DEF AppleInv, ProfilesTyped
<1>7. \A i : A!Exists(i) => A!Exists(i)' BY <1>4 DEF A!Exists
<1>8. RowsOwned' BY <1>0, <1>7 DEF AppleInv, RowsOwned
<1>9. SignsTyped' /\ \A t \in works' : Kept(t)' BY <1>0 DEF AppleInv, SignsTyped, Kept
<1> QED BY <1>6, <1>8, <1>9 DEF AppleInv

LEMMA StepAppleInv == ASSUME AppleInv, [A!Next]_(A!vars) PROVE AppleInv'
<1>1. CASE UNCHANGED A!vars
  BY <1>1 DEF A!vars, AppleInv, SignsTyped, ProfilesTyped, RowsOwned, Kept, A!Exists
<1> QED BY <1>1, SignUpKeeps, LinkAndLookKeeps, StoreKeepsApple, DropKeepsApple, FollowKeeps DEF A!Next

(* A Google or Apple profile, made or about to be, stands on the one       *)
(* credential row of its identity.                                         *)
Coming(x) == x.pc = "addinfo" /\ x.name = "google"
Credential(U, l, n) == \E u \in U : u.id = l /\ u.name = n
Standing ==
    /\ \A p \in infos : p.name \in {"google", "apple"} => Credential(users, p.local, p.name)
    /\ \A p, q \in infos : p.name = q.name /\ p.name \in {"google", "apple"} => p = q
    /\ \A r \in Signs : Coming(sign[r]) => /\ Credential(users, sign[r].local, "google")
                                           /\ \A p \in infos : p.name # "google"
    /\ \A r, s \in Signs : Coming(sign[r]) /\ Coming(sign[s]) => r = s
Identities == ~crossed => Standing

(* The credential rows; a new password leaves them whose they are.         *)
UserOk(u) == u = [id |-> u.id, name |-> u.name, pw |-> u.pw, must |-> u.must]
UsersTyped == \A u \in users : UserOk(u)

Saved(u, w, m) == [u EXCEPT !.pw = w, !.must = m]

LEMMA SavedSame ==
    ASSUME NEW u, UserOk(u), NEW w, NEW m
    PROVE  /\ UserOk(Saved(u, w, m))
           /\ Saved(u, w, m).id = u.id /\ Saved(u, w, m).name = u.name
<1> DEFINE q == [id |-> u.id, name |-> u.name, pw |-> u.pw, must |-> u.must]
           q1 == [id |-> u.id, name |-> u.name, pw |-> w, must |-> u.must]
           q2 == [id |-> u.id, name |-> u.name, pw |-> w, must |-> m]
<1>1. u = q BY DEF UserOk
<1>2. [q EXCEPT !.pw = w] = q1 OBVIOUS
<1>3. [q1 EXCEPT !.must = m] = q2 OBVIOUS
<1>4. q2.id = u.id /\ q2.name = u.name /\ UserOk(q2) BY DEF UserOk
<1> HIDE DEF q, q1, q2
<1>5. Saved(u, w, m) = q2 BY <1>1, <1>2, <1>3, Zenon DEF Saved
<1> QED BY <1>4, <1>5

LEMMA SavedUsers ==
    ASSUME UsersTyped, NEW r \in Signs, A!SetPassword(r)
    PROVE  UsersTyped' /\ \A l, n : Credential(users, l, n) <=> Credential(users', l, n)
<1> PICK w : w = sign[r].to OBVIOUS
<1> DEFINE want == w = "temp"
           must(u) == IF want # sign[r].must THEN want ELSE u.must
           saved(u) == [u EXCEPT !.pw = w, !.must = must(u)]
<1>1. users' = {IF u.id = sign[r].local THEN saved(u) ELSE u : u \in users}
  BY DEF A!SetPassword
<1>2. \A u \in users : UserOk(saved(u)) /\ saved(u).id = u.id /\ saved(u).name = u.name
  <2> SUFFICES ASSUME NEW u \in users
               PROVE  UserOk(saved(u)) /\ saved(u).id = u.id /\ saved(u).name = u.name
    OBVIOUS
  <2> PICK m : m = must(u) BY Zenon
  <2>1. saved(u) = Saved(u, w, m) BY Zenon DEF Saved
  <2>2. UserOk(u) BY DEF UsersTyped
  <2> HIDE DEF saved, must
  <2> QED BY <2>1, <2>2, SavedSame
<1> HIDE DEF saved
<1>3. UsersTyped' BY <1>1, <1>2 DEF UsersTyped
<1>4. ASSUME NEW l, NEW n PROVE Credential(users, l, n) <=> Credential(users', l, n)
  <2>1. ASSUME NEW u \in users, u.id = l, u.name = n PROVE Credential(users', l, n)
    <3> PICK v : v = IF u.id = sign[r].local THEN saved(u) ELSE u OBVIOUS
    <3>1. v \in users' BY <1>1
    <3>2. v.id = l /\ v.name = n BY <1>2, <2>1
    <3> QED BY <3>1, <3>2 DEF Credential
  <2>2. ASSUME NEW v \in users', v.id = l, v.name = n PROVE Credential(users, l, n)
    <3> PICK u \in users : v = IF u.id = sign[r].local THEN saved(u) ELSE u BY <1>1
    <3>1. u.id = l /\ u.name = n BY <1>2, <2>2
    <3> QED BY <3>1 DEF Credential
  <2> QED BY <2>1, <2>2 DEF Credential
<1> QED BY <1>3, <1>4

LEMMA StepUsers == ASSUME UsersTyped, [A!Next]_(A!vars) PROVE UsersTyped'
<1>1. CASE users' \subseteq users BY <1>1 DEF UsersTyped
<1>2. ASSUME NEW n, NEW pw, users' = users \cup {A!User(n, pw)} PROVE UsersTyped'
  <2>1. UserOk(A!User(n, pw)) BY DEF UserOk, A!User
  <2> QED BY <1>2, <2>1 DEF UsersTyped
<1>3. ASSUME NEW r \in Signs, A!AddUser(r) \/ A!StoreNew(r) PROVE UsersTyped'
  BY <1>1, <1>2, <1>3 DEF A!AddUser, A!StoreNew
<1>4. ASSUME NEW r \in Signs, A!SetPassword(r) PROVE UsersTyped' BY <1>4, SavedUsers
<1>5. ASSUME NEW r \in Signs, A!DropRows(r) PROVE UsersTyped'
  BY <1>1, <1>5 DEF A!DropRows, A!rows
<1>6. \/ UNCHANGED users
      \/ \E r \in Signs : A!AddUser(r) \/ A!StoreNew(r) \/ A!SetPassword(r) \/ A!DropRows(r)
  BY DEF A!Next, A!vars, A!Register, A!GoogleLogin, A!AddInfo, A!Login, A!Crash, A!rows,
         A!Exchange, A!Lookup, A!Store, A!RevokeToken, A!ClearLinks, A!PutLink,
         A!ChangePassword, A!ResetPassword, A!ReadPassword, A!Delete, A!Resend, A!Consume, A!Expire
<1> QED BY <1>1, <1>3, <1>4, <1>5, <1>6

(* Steps that add no profile and take no credential row.                   *)
LEMMA SameStanding ==
    ASSUME Standing, NEW r \in Signs, infos' = infos,
           \A l, n : Credential(users, l, n) => Credential(users', l, n),
           \A s \in Signs \ {r} : sign'[s] = sign[s], ~Coming(sign'[r])
    PROVE  Standing'
<1>1. \A s \in Signs : Coming(sign'[s]) => s # r /\ Coming(sign[s]) /\ sign'[s] = sign[s]
  OBVIOUS
<1> QED BY <1>1 DEF Standing

(* What the step of a request leaves of the credential rows.               *)
LEMMA StepIdentities ==
    ASSUME AppleInv, UsersTyped, Identities, [A!Next]_(A!vars) PROVE Identities'
<1> USE DEF A!Set, A!Done, A!rows, A!tokens
<1>0. sign = [s \in Signs |-> sign[s]] /\ \A s \in Signs : SignOk(sign[s], handed, works, let)
  BY DEF AppleInv, SignsTyped
<1>t. ASSUME ~crossed' PROVE ~crossed
  <2>1. CASE UNCHANGED crossed BY <1>t, <2>1
  <2>2. CASE \E r \in Signs : A!DropRows(r)
    BY <1>t, <2>2, Zenon DEF A!DropRows
  <2>3. UNCHANGED crossed \/ \E r \in Signs : A!DropRows(r)
    BY DEF A!Next, A!vars, A!Register, A!GoogleLogin, A!AddUser, A!AddInfo, A!Login, A!Crash,
           A!Exchange, A!Lookup, A!StoreNew, A!Store, A!RevokeToken, A!ClearLinks, A!PutLink,
           A!ChangePassword, A!ResetPassword, A!ReadPassword, A!SetPassword, A!Delete, A!Resend,
           A!Consume, A!Expire
  <2> QED BY <2>1, <2>2, <2>3
<1> SUFFICES ASSUME ~crossed', Standing PROVE Standing'
  BY <1>t DEF Identities
<1>m. ASSUME NEW r \in Signs, NEW x, sign' = [sign EXCEPT ![r] = x]
      PROVE  sign'[r] = x /\ \A s \in Signs \ {r} : sign'[s] = sign[s]
  BY <1>0, <1>m
<1>q. ASSUME NEW r \in Signs, NEW x, sign' = [sign EXCEPT ![r] = x], ~Coming(x),
             UNCHANGED <<users, infos>>
      PROVE  Standing'
  BY <1>m, <1>q, SameStanding
<1>i. ~Coming(A!Idle) BY DEF Coming, A!Idle
<1>1. ASSUME NEW r \in Signs,
             A!Register(r) \/ A!GoogleLogin(r) \/ A!Crash(r) \/ A!Exchange(r) \/ A!Lookup(r)
      PROVE  Standing'
  BY <1>1, <1>q, <1>i DEF A!Register, A!GoogleLogin, A!Crash, A!Exchange, A!Lookup, Coming
<1>2. ASSUME NEW r \in Signs, A!Login(r) \/ A!ChangePassword(r) \/ A!ResetPassword(r) \/ A!Store(r)
      PROVE  Standing'
  BY <1>2, <1>q, <1>i DEF A!Login, A!ChangePassword, A!ResetPassword, A!ReadPassword, A!Store, Coming
<1>3. ASSUME NEW r \in Signs, A!RevokeToken(r) PROVE Standing'
  <2>1. ~Coming(sign[r].then) BY <1>0, <1>3, <1>i DEF A!RevokeToken, SignOk, Coming
  <2> QED BY <1>3, <1>q, <2>1 DEF A!RevokeToken
<1>4. ASSUME NEW r \in Signs, A!ClearLinks(r) PROVE Standing'
  <2>1. sign[r] = [pc |-> "clear", info |-> sign[r].info] BY <1>0, <1>4 DEF A!ClearLinks, SignOk
  <2>2. ~Coming([sign[r] EXCEPT !.pc = "put"]) BY <2>1 DEF Coming
  <2> QED BY <1>4, <1>q, <2>2 DEF A!ClearLinks
<1>5. ASSUME NEW r \in Signs, A!PutLink(r) PROVE Standing'
  BY <1>5, <1>q, <1>i DEF A!PutLink
<1>6. ASSUME NEW r \in Signs, NEW p \in infos, A!Delete(r, p) \/ A!Resend(r, p) PROVE Standing'
  BY <1>6, <1>q DEF A!Delete, A!Resend, Coming
<1>7. ASSUME NEW r \in Signs, A!SetPassword(r) PROVE Standing'
  <2>1. sign' = [sign EXCEPT ![r] = A!Idle] /\ infos' = infos BY <1>7 DEF A!SetPassword
  <2>2. \A l, n : Credential(users, l, n) => Credential(users', l, n) BY <1>7, SavedUsers
  <2>3. ~Coming(sign'[r]) /\ \A s \in Signs \ {r} : sign'[s] = sign[s] BY <1>i, <1>m, <2>1
  <2> QED BY <2>1, <2>2, <2>3, SameStanding
<1>8. ASSUME NEW r \in Signs, A!AddUser(r) PROVE Standing'
  <2> PICK n : n = sign[r].name OBVIOUS
  <2> PICK l : l = A!FreeId OBVIOUS
  <2>1. CASE ~A!NameFree(n)
    BY <1>8, <1>q, <1>i, <2>1 DEF A!AddUser
  <2>2. CASE A!NameFree(n)
    <3> DEFINE x == [pc |-> "addinfo", name |-> n, local |-> l, mail |-> n = "mail"]
    <3>1. sign' = [sign EXCEPT ![r] = x] /\ infos' = infos BY <1>8, <2>2 DEF A!AddUser
    <3>2. x.pc = "addinfo" /\ x.name = n /\ x.local = l OBVIOUS
    <3> HIDE DEF x
    <3>3. sign'[r] = x /\ \A s \in Signs \ {r} : sign'[s] = sign[s] BY <1>m, <3>1
    <3>4. users \subseteq users' /\ Credential(users', l, n)
      <4> PICK pw : users' = users \cup {A!User(n, pw)} BY <1>8, <2>2 DEF A!AddUser
      <4>1. A!User(n, pw).id = l /\ A!User(n, pw).name = n BY DEF A!User
      <4> QED BY <4>1 DEF Credential
    <3>5. \A k, m : Credential(users, k, m) => Credential(users', k, m) BY <3>4 DEF Credential
    <3>6. CASE n # "google"
      <4>1. ~Coming(sign'[r]) BY <3>2, <3>3, <3>6 DEF Coming
      <4> QED BY <3>1, <3>3, <3>5, <4>1, SameStanding
    <3>7. CASE n = "google"
      <4>1. \A k : ~Credential(users, k, n) BY <2>2 DEF A!NameFree, Credential
      <4>2. /\ \A p \in infos : p.name # "google"
            /\ \A s \in Signs : ~Coming(sign[s])
        BY <3>7, <4>1 DEF Standing
      <4>3. \A s \in Signs : Coming(sign'[s]) => s = r BY <3>3, <4>2
      <4> QED BY <3>1, <3>2, <3>3, <3>4, <3>5, <3>7, <4>2, <4>3 DEF Standing
    <3> QED BY <3>6, <3>7
  <2> QED BY <2>1, <2>2
<1>9. ASSUME NEW r \in Signs, A!AddInfo(r) PROVE Standing'
  <2> PICK l : l = sign[r].local OBVIOUS
  <2> PICK n : n = sign[r].name OBVIOUS
  <2>0. users' = users /\ n \in {"mail", "google"} /\ sign[r].pc = "addinfo"
    BY <1>0, <1>9 DEF A!AddInfo, SignOk
  <2>1. CASE infos' = infos /\ A!Done(r) BY <1>i, <1>q, <2>0, <2>1
  <2>2. CASE /\ infos' = infos \cup {A!Profile(l, n, FALSE)}
             /\ \E x : sign' = [sign EXCEPT ![r] = x] /\ ~Coming(x)
    <3>1. ~Coming(sign'[r]) /\ \A s \in Signs \ {r} : sign'[s] = sign[s] BY <1>m, <2>2
    <3> PICK p : p = A!Profile(l, n, FALSE) OBVIOUS
    <3>2. p.local = l /\ p.name = n BY DEF A!Profile
    <3>3. CASE n = "mail" BY <2>0, <2>2, <3>1, <3>2, <3>3 DEF Standing
    <3>4. CASE n = "google"
      <4>1. Coming(sign[r]) BY <2>0, <3>4 DEF Coming
      <4>2. Credential(users, l, "google") /\ \A q \in infos : q.name # "google"
        BY <4>1 DEF Standing
      <4>3. \A s \in Signs : ~Coming(sign'[s]) BY <3>1, <4>1 DEF Standing
      <4> QED BY <2>0, <2>2, <3>2, <3>4, <4>2, <4>3 DEF Standing
    <3> QED BY <2>0, <3>3, <3>4
  <2>3. ~Coming([pc |-> "clear", info |-> profiles + 1]) BY DEF Coming
  <2> QED BY <1>9, <1>i, <2>1, <2>2, <2>3 DEF A!AddInfo
<1>10. ASSUME NEW r \in Signs, A!StoreNew(r) PROVE Standing'
  <2>0. sign' = [sign EXCEPT ![r] = A!Idle] BY <1>10 DEF A!StoreNew
  <2>1. CASE ~A!NameFree("apple") BY <1>10, <1>i, <1>q, <2>0, <2>1 DEF A!StoreNew
  <2>2. CASE A!NameFree("apple")
    <3>1. ~Coming(sign'[r]) /\ \A s \in Signs \ {r} : sign'[s] = sign[s] BY <1>i, <1>m, <2>0
    <3> PICK u : u = A!User("apple", "none") OBVIOUS
    <3> PICK p : p = A!Profile(A!FreeId, "apple", TRUE) OBVIOUS
    <3>2. users' = users \cup {u} /\ infos' = infos \cup {p} BY <1>10, <2>2 DEF A!StoreNew
    <3>3. u.name = "apple" /\ p.name = "apple" /\ p.local = u.id BY DEF A!User, A!Profile
    <3>4. \A l, n : Credential(users, l, n) => Credential(users', l, n) BY <3>2 DEF Credential
    <3>5. Credential(users', p.local, "apple") BY <3>2, <3>3 DEF Credential
    <3>6. \A q \in infos : q.name # "apple" BY <2>2 DEF Standing, A!NameFree, Credential
    <3>7. \A s \in Signs : Coming(sign'[s]) => Coming(sign[s]) /\ sign'[s] = sign[s] BY <3>1
    <3> QED BY <3>2, <3>3, <3>4, <3>5, <3>6, <3>7 DEF Standing
  <2> QED BY <2>1, <2>2
<1>11. ASSUME NEW r \in Signs, A!DropRows(r) PROVE Standing'
  <2> DEFINE gone == {p \in infos : p.id = sign[r].info}
             theirs == {u \in users : \E p \in gone : u.id = p.local}
  <2>0. ASSUME NEW x, sign' = [sign EXCEPT ![r] = x], x = A!Idle \/ x.pc = "revoke"
        PROVE  ~Coming(sign'[r]) /\ \A s \in Signs \ {r} : sign'[s] = sign[s]
    BY <1>i, <1>m, <2>0 DEF Coming
  <2>1. ~Coming(sign'[r]) /\ \A s \in Signs \ {r} : sign'[s] = sign[s]
    BY <1>11, <2>0 DEF A!DropRows
  <2>2. CASE gone = {}
    <3>1. UNCHANGED <<users, infos>> BY <1>11, <2>2 DEF A!DropRows
    <3> QED BY <2>1, <3>1, SameStanding
  <2>3. CASE gone # {}
    <3>1. infos' = infos \ gone /\ users' = users \ theirs BY <1>11, <2>3 DEF A!DropRows
    <3>2. \A p \in gone, u \in theirs : u.name = p.name
      <4>1. crossed' = (crossed \/ \E p \in gone, u \in theirs : u.name # p.name)
        BY <1>11, <2>3 DEF A!DropRows
      <4> HIDE DEF gone, theirs
      <4> QED BY <4>1, Zenon
    <3>3. ASSUME NEW l, NEW n \in {"google", "apple"}, Credential(users, l, n),
                 \A p \in gone : p.name # n
          PROVE  Credential(users', l, n)
      <4> PICK u \in users : u.id = l /\ u.name = n BY <3>3 DEF Credential
      <4>1. u \notin theirs BY <3>2, <3>3
      <4> QED BY <3>1, <4>1 DEF Credential
    <3>4. ASSUME NEW p \in infos', p.name \in {"google", "apple"}
          PROVE  Credential(users', p.local, p.name)
      <4>1. p \in infos /\ p \notin gone BY <3>1
      <4>2. \A q \in gone : q.name # p.name BY <3>4, <4>1 DEF Standing
      <4>3. Credential(users, p.local, p.name) BY <3>4, <4>1 DEF Standing
      <4> QED BY <3>3, <3>4, <4>2, <4>3
    <3>5. ASSUME NEW s \in Signs, Coming(sign'[s])
          PROVE  /\ Credential(users', sign'[s].local, "google")
                 /\ \A p \in infos' : p.name # "google"
      <4>1. Coming(sign[s]) /\ sign'[s] = sign[s] BY <2>1, <3>5
      <4>2. Credential(users, sign[s].local, "google") /\ \A p \in infos : p.name # "google"
        BY <4>1 DEF Standing
      <4>3. Credential(users', sign[s].local, "google") BY <3>3, <4>2
      <4> QED BY <3>1, <4>1, <4>2, <4>3
    <3>6. \A s \in Signs : Coming(sign'[s]) => Coming(sign[s]) BY <2>1
    <3>7. infos' \subseteq infos BY <3>1
    <3> HIDE DEF gone, theirs
    <3> QED BY <3>4, <3>5, <3>6, <3>7 DEF Standing
  <2> QED BY <2>2, <2>3
<1>12. ASSUME NEW l \in mails, A!Consume(l) PROVE Standing'
  <2> DEFINE f(p) == IF p.id = l.info THEN Verified(p) ELSE p
  <2>1. infos' = {f(p) : p \in infos} /\ UNCHANGED <<users, sign>>
    BY <1>12 DEF A!Consume, Verified
  <2>2. \A p \in infos : f(p).name = p.name /\ f(p).local = p.local
    BY VerifiedSame DEF AppleInv, ProfilesTyped
  <2> HIDE DEF f
  <2>3. ASSUME NEW p \in infos', NEW q \in infos', p.name = q.name, p.name \in {"google", "apple"}
        PROVE  p = q
    <3> PICK a \in infos : p = f(a) BY <2>1
    <3> PICK b \in infos : q = f(b) BY <2>1
    <3>1. a = b BY <2>2, <2>3 DEF Standing
    <3> QED BY <3>1
  <2>4. \A p \in infos' : p.name \in {"google", "apple"} => Credential(users', p.local, p.name)
    BY <2>1, <2>2 DEF Standing
  <2>5. (\A p \in infos : p.name # "google") => \A p \in infos' : p.name # "google"
    BY <2>1, <2>2
  <2> QED BY <2>1, <2>3, <2>4, <2>5 DEF Standing
<1>13. ASSUME NEW l \in mails, A!Expire(l) PROVE Standing' BY <1>13 DEF A!Expire, Standing
<1>14. CASE UNCHANGED A!vars BY <1>14 DEF A!vars, Standing
<1> QED
  BY <1>1, <1>2, <1>3, <1>4, <1>5, <1>6, <1>7, <1>8, <1>9, <1>10, <1>11, <1>12, <1>13, <1>14
  DEF A!Next

(* A link is put only where there is none.                                 *)
LEMMA StepOneLink == ASSUME A!OneLiveLink, [A!Next]_(A!vars) PROVE A!OneLiveLink'
<1>1. CASE mails' \subseteq mails BY <1>1 DEF A!OneLiveLink
<1>2. ASSUME NEW r \in Signs, A!PutLink(r) PROVE A!OneLiveLink'
  <2> DEFINE new == [info |-> sign[r].info, tok |-> handed + 1]
  <2>1. CASE A!LinkFree(sign[r].info) /\ mails' = mails \cup {new}
    <3>1. new.info = sign[r].info OBVIOUS
    <3> HIDE DEF new
    <3> QED BY <2>1, <3>1 DEF A!LinkFree, A!OneLiveLink
  <2> QED BY <1>1, <1>2, <2>1 DEF A!PutLink
<1>3. mails' \subseteq mails \/ \E r \in Signs : A!PutLink(r)
  BY DEF A!Next, A!vars, A!Register, A!GoogleLogin, A!AddUser, A!AddInfo, A!Login, A!Crash, A!rows,
         A!Exchange, A!Lookup, A!StoreNew, A!Store, A!RevokeToken, A!ClearLinks, A!DropRows,
         A!ChangePassword, A!ResetPassword, A!ReadPassword, A!SetPassword, A!Delete, A!Resend,
         A!Consume, A!Expire
<1> QED BY <1>1, <1>2, <1>3

SignInInv == AppleInv /\ UsersTyped /\ Identities /\ A!OneLiveLink
SignIns == A!NoOrphanApple /\ A!OneProfile /\ A!OneLiveLink

LEMMA InitSignInInv == A!Init => SignInInv
<1> SUFFICES ASSUME A!Init PROVE SignInInv OBVIOUS
<1> USE DEF A!Init
<1>1. \A s \in Signs : sign[s] = A!Idle OBVIOUS
<1>2. AppleInv
  BY <1>1 DEF AppleInv, SignsTyped, SignOk, A!Idle, InHand, ProfilesTyped, RowsOwned
<1>3. Identities BY <1>1 DEF Identities, Standing, Coming, A!Idle
<1> QED BY <1>2, <1>3 DEF SignInInv, UsersTyped, A!OneLiveLink

LEMMA StepSignInInv == ASSUME SignInInv, [A!Next]_(A!vars) PROVE SignInInv'
BY StepAppleInv, StepUsers, StepIdentities, StepOneLink DEF SignInInv

LEMMA SignInInvSound == SignInInv => SignIns
<1> SUFFICES ASSUME SignInInv PROVE SignIns OBVIOUS
<1>1. A!NoOrphanApple
  <2> SUFFICES ASSUME NEW t \in works
               PROVE  \/ t \in {a.tok : a \in {b \in apples : A!Exists(b.info)}}
                      \/ t \in A!Held \/ t \in let
    BY DEF A!NoOrphanApple
  <2>1. Kept(t) /\ \A a \in apples : A!Exists(a.info) BY DEF SignInInv, AppleInv, RowsOwned
  <2> QED BY <2>1 DEF Kept, A!Held, InHand
<1>2. A!OneProfile BY DEF SignInInv, Identities, Standing, A!OneProfile
<1> QED BY <1>1, <1>2 DEF SignInInv, SignIns

(* For any number of requests, accounts and tokens: no working Apple token *)
(* is orphaned by sign-ins and deletions that overlap, an identity has one *)
(* profile unless its credential row was taken, and an account one link.   *)
THEOREM SignInHolds == A!Spec => []SignIns
BY InitSignInInv, StepSignInInv, SignInInvSound, PTL DEF A!Spec
=============================================================================
