---------------------------- MODULE ServingProofs ---------------------------
(***************************************************************************)
(* Proofs about what is paid for: the refund of a withdrawn subscription   *)
(* (RefundLedger, whose names are used as they are) and the render jobs    *)
(* (J!).  Each part declares its own constants and variables and stands by *)
(* itself.                                                                 *)
(***************************************************************************)
EXTENDS RefundLedger, FiniteSetTheorems, TLAPS
-----------------------------------------------------------------------------
(***************************************************************************)
(* Proofs: LedgerSound holds of every state, for any number of requests,   *)
(* provider keys, renewals and amounts.                                    *)
(*                                                                         *)
(* No property is inductive by itself.  The invariant ties what a request  *)
(* knows to the row it claimed (Works), says that every call in flight is  *)
(* for the one note (NotesOK), that a finished row without a note gets     *)
(* none any more (Quiet), and what a finished row says in terms of what    *)
(* Stripe did (Money).  The steps come in kinds, each with a lemma: a      *)
(* request moves (ReqStep), the pending row is written (WriteStep), the    *)
(* row is finished (FinishStep), a call lands at Stripe (LandStep), a      *)
(* final row is settled or gone (CloseStep), a refund bounces (Restates).  *)
(***************************************************************************)

\* The steps a request takes under a claim of the row.
Working == {"freeze", "stamp", "compute", "problem", "plan", "lookup", "create", "find"}

\* What goes back to the card.
CardShare == Least(stripe.unused, stripe.card)
\* The provider key a note can have: a replay under a burnt one is refused.
FreeKey == IF 0 \in stripe.burnt THEN 1 ELSE 0

\* The states of Stripe, whose amounts and invoices are numbers of any size.
Stripes == [unused : Nat, card : Nat, burnt : SUBSET {0}, invoice : Nat, ended : BOOLEAN,
            late : BOOLEAN, cancelSent : BOOLEAN, refuses : BOOLEAN, byHand : Nat,
            notes : SUBSET Notes, sent : SUBSET [key : Nat, amount : Nat]]

\* The type invariant, with Stripe.
Typed == TypeOK /\ stripe \in Stripes

\* The row is pending: _claim lets a request take it.
Open == row # NoRow /\ row.state = "pending"
\* The unused period was sent back, by note or by hand.
Paid == Total(stripe.notes) + stripe.byHand >= stripe.unused
\* The notes the row still counts as refunded.
Kept == {n \in stripe.notes : n.refund # "owed"}

\* request_withdrawal, settle: what a row says once an amount is written is what Stripe
\* would say again, so that a retry sends the same call.
Frozen(m) ==
    /\ m.amount \in {-1, stripe.unused}
    /\ m.toRefund \in {-1, CardShare}
    /\ m.toRefund # -1 => m.amount = stripe.unused
    /\ m.state = "pending" /\ m.toRefund # -1 => m.owed = stripe.unused - CardShare
    /\ m.attempt \in {0, FreeKey}

\* The row keeps what was frozen, and a call in flight is of a key the row had.
RowOK ==
    row # NoRow =>
      /\ Frozen(row)
      /\ row.state # "pending" => row.token = NoReq
      /\ row.toRefund = -1 => stripe.notes = {} /\ stripe.sent = {}
      /\ stripe.notes # {} => row.attempt = FreeKey
      /\ \A c \in stripe.sent : c.key <= row.attempt

\* While the row is pending the owner has done nothing by hand.
PendingOK ==
    Open => /\ row.refund = -1 /\ row.refunded = 0
            /\ stripe.byHand = 0 /\ handed = 0 /\ Kept = stripe.notes

\* Every note is of FreeKey and for CardShare; so is every call in flight, unless
\* its key is burnt and Stripe will refuse it.
NotesOK ==
    /\ OneNote
    /\ \A n \in stripe.notes : n.key = FreeKey /\ n.amount = CardShare /\ CardShare > 0
    /\ \A c \in stripe.sent : c.key \in {0, FreeKey} /\ c.amount = CardShare /\ CardShare > 0

\* What a request knows of the row it has claimed, or had: a copy may be old, but
\* it never runs ahead of the row, and while the claim holds it is the row.
Works(r, x) ==
    x.pc \in Working =>
      /\ x.mine # NoRow /\ x.mine.state = "pending" /\ Frozen(x.mine)
      /\ row # NoRow => /\ x.mine.attempt <= row.attempt
                        /\ x.mine.toRefund # -1 => row.toRefund # -1
      /\ x.pc = "compute" => x.mine.amount = -1
      /\ x.pc \in {"problem", "plan"} => x.mine.amount = stripe.unused /\ x.mine.toRefund = -1
      /\ x.pc \in {"lookup", "create"} => x.mine.toRefund # -1
      /\ x.pc = "create" => CardShare > 0
      /\ Holds(r) => /\ row.state = "pending"
                     /\ row.amount = x.mine.amount /\ row.toRefund = x.mine.toRefund
                     /\ row.owed = x.mine.owed /\ row.attempt = x.mine.attempt

\* Every request knows as much.
WorkOK == \A r \in Reqs : Works(r, req[r])

\* A call for the note is in flight or a request may still send one.
Sendable == stripe.sent # {} \/ \E r \in Reqs : req[r].pc \in {"lookup", "create"}

\* A row is finished without a note only when none can come any more, or Stripe
\* refuses it: what resolve_pending and the one provider key are for.
Quiet == ~Open /\ CardShare > 0 => stripe.notes # {} \/ stripe.refuses \/ ~Sendable

\* Before the row nothing was asked of Stripe.
Untouched ==
    row = NoRow /\ account =>
      /\ stripe.notes = {} /\ stripe.sent = {} /\ stripe.byHand = 0 /\ handed = 0 /\ ~asked
      /\ \A r \in Reqs : req[r].pc \notin Working \cup {"reread", "write"}

\* What a finished row says, in terms of the notes and of what the owner paid.
Money ==
    row # NoRow /\ row.state # "pending" =>
      /\ row.refunded = Total(Kept)
      /\ row.refunded + stripe.byHand <= stripe.unused
      /\ row.refund # -1 => row.refunded = CardShare /\ Kept # {}
      /\ row.state = "done" => row.owed = 0 /\ row.amount # -1
      /\ row.state = "settled" => handed = 0 /\ Paid
      /\ row.state # "settled" /\ row.amount # -1 =>
           /\ row.refunded + row.owed + stripe.byHand = stripe.unused + handed
           /\ handed <= row.owed
      /\ row.state # "settled" /\ row.amount = -1 => handed = stripe.byHand

\* settle_owed_refund works on rows whose money is back.
Settlers ==
    \A r \in Reqs :
      /\ req[r].kind = "settle" => req[r].pc \in {"reread", "write"}
      /\ req[r].pc \in {"reread", "write"} => Paid /\ ~Open

\* delete_user_and_data commits only after a claim left a row.
Commits == \A r \in Reqs : req[r].pc = "commit" /\ account /\ req[r].open => row # NoRow

\* The inductive invariant.
IInv == /\ Typed /\ RowOK /\ PendingOK /\ NotesOK /\ WorkOK /\ Quiet /\ Untouched /\ Money
        /\ Settlers /\ Commits /\ NeverTwice /\ NothingForfeited

\* What the ledger promises: one note at most, no cent twice, a final row that says
\* what happened, and nothing lost by a deletion.
LedgerSound == TypeOK /\ OneNote /\ NeverTwice /\ LedgerAgrees /\ NothingForfeited
-----------------------------------------------------------------------------
\* The bounds are numbers and the two null values are no request and no row.
\* PaysPending: the owner refunds by hand only what a row owes.  The admin also
\* sees stuck pending rows; an owner who paid one of those while a request still
\* held its amount would pay beside the note, which no lock here can prevent.
RefundAssumed ==
    /\ NoReq \notin Reqs /\ NoRow \notin Rows /\ PaysPending = FALSE
    /\ Amounts \subseteq Nat /\ Cards \subseteq Nat /\ MaxAttempt \in Nat

\* A sum over no notes: the fold the community module defines, on one set.
LEMMA TotalNone == Total({}) = 0
<1> DEFINE F(f) == [s \in SUBSET {} |-> IF s = {} THEN 0
                                        ELSE (CHOOSE x \in s : TRUE).amount
                                               + f[s \ {CHOOSE x \in s : TRUE}]]
<1> DEFINE g == CHOOSE f : f = F(f)
<1>1. F([s \in SUBSET {} |-> 0]) = [s \in SUBSET {} |-> 0] OBVIOUS
<1>2. g = F(g) BY <1>1
<1>3. g[{}] = 0 BY <1>2
<1>4. Total({}) = g[{}] BY DEF Total, MapThenSumSet, MapThenFoldSet
<1> QED BY <1>3, <1>4

\* A sum over one note.
LEMMA TotalOne == ASSUME NEW n, n.amount \in Nat PROVE Total({n}) = n.amount
<1> DEFINE S == SUBSET {n}
           F(f) == [s \in S |-> IF s = {} THEN 0
                                ELSE (CHOOSE x \in s : TRUE).amount
                                       + f[s \ {CHOOSE x \in s : TRUE}]]
           h == [s \in S |-> IF s = {} THEN 0 ELSE n.amount]
           g == CHOOSE f : f = F(f)
<1>1. \A s \in S : s = {} \/ s = {n} OBVIOUS
<1>2. \A s \in S : s # {} => (CHOOSE x \in s : TRUE) = n /\ s \ {n} = {} BY <1>1
<1>3. {} \in S /\ {n} \in S OBVIOUS
<1>4. h[{}] = 0 BY <1>3
<1>5. F(h) = h BY <1>2, <1>4
<1>6. g = F(g) BY <1>5
<1>7. g[{}] = 0 BY <1>3, <1>6
<1>8. Total({n}) = g[{n}] BY DEF Total, MapThenSumSet, MapThenFoldSet
<1> HIDE DEF g
<1>9. g[{n}] = n.amount
  <2>1. g[{n}] = F(g)[{n}] BY <1>6
  <2>2. F(g)[{n}] = n.amount + g[{n} \ {n}] BY <1>2, <1>3
  <2>3. {n} \ {n} = {} OBVIOUS
  <2> QED BY <2>1, <2>2, <2>3, <1>7
<1> QED BY <1>8, <1>9

\* A sum over at most one note.
LEMMA TotalOf ==
    ASSUME NEW S, NEW a \in Nat, \A n, m \in S : n = m, \A n \in S : n.amount = a
    PROVE  /\ S = {} => Total(S) = 0
           /\ S # {} => Total(S) = a
<1>1. CASE S = {} BY <1>1, TotalNone
<1>2. CASE S # {}
  <2> PICK n \in S : TRUE BY <1>2
  <2>1. S = {n} OBVIOUS
  <2> QED BY <2>1, TotalOne
<1> QED BY <1>1, <1>2

\* The share of the card is a part of the unused period, and FreeKey is a free key.
LEMMA ShareType ==
    ASSUME stripe \in Stripes
    PROVE  /\ CardShare \in Nat /\ CardShare <= stripe.unused /\ stripe.unused \in Nat
           /\ FreeKey \in {0, 1} /\ FreeKey \notin stripe.burnt
           /\ \A k \in {0, FreeKey} : k \notin stripe.burnt => k = FreeKey
BY DEF Stripes, CardShare, Least, FreeKey

\* What the totals are, given that there is one note at most.
SumsHold ==
    /\ stripe.notes = {} => Total(stripe.notes) = 0
    /\ stripe.notes # {} => Total(stripe.notes) = CardShare
    /\ Kept = {} => Total(Kept) = 0
    /\ Kept # {} => Total(Kept) = CardShare
    /\ Returned \in {0, CardShare}
    /\ {n \in stripe.notes : n.refund = "made"} = {} => Returned = 0
    /\ Kept = {} => Returned = 0
    /\ Returned <= Total(Kept) /\ Total(Kept) <= Total(stripe.notes)

\* One note at most: each total is the share of the card or nothing.
LEMMA Sums == stripe \in Stripes /\ NotesOK => SumsHold
<1> SUFFICES ASSUME stripe \in Stripes, NotesOK PROVE SumsHold OBVIOUS
<1> DEFINE M == {n \in stripe.notes : n.refund = "made"}
<1>1. CardShare \in Nat BY ShareType
<1>2. \A n, m \in stripe.notes : n = m BY DEF NotesOK, OneNote
<1>3. \A n \in stripe.notes : n.amount = CardShare BY DEF NotesOK
<1>4. /\ stripe.notes = {} => Total(stripe.notes) = 0
      /\ stripe.notes # {} => Total(stripe.notes) = CardShare
  BY <1>1, <1>2, <1>3, TotalOf
<1>5. (Kept = {} => Total(Kept) = 0) /\ (Kept # {} => Total(Kept) = CardShare)
  BY <1>1, <1>2, <1>3, TotalOf DEF Kept
<1>6. (M = {} => Total(M) = 0) /\ (M # {} => Total(M) = CardShare)
  BY <1>1, <1>2, <1>3, TotalOf
<1>7. Returned = Total(M) BY DEF Returned
<1>8. M \subseteq Kept /\ Kept \subseteq stripe.notes BY DEF Kept
<1> HIDE DEF M
<1>9. /\ Returned \in {0, CardShare} /\ (M = {} => Returned = 0)
      /\ Kept = {} => Returned = 0
      /\ Returned <= Total(Kept) /\ Total(Kept) <= Total(stripe.notes)
  BY <1>1, <1>4, <1>5, <1>6, <1>7, <1>8
<1> QED BY <1>4, <1>5, <1>9 DEF M, SumsHold

\* The same of the next state.
LEMMA SumsNext == (stripe \in Stripes /\ NotesOK)' => SumsHold'
BY Sums, PTL
\* A call for a note that a request may have sent and lost the answer of.
Sent(c) ==
    /\ c.key \in {0, FreeKey} /\ c.amount = CardShare /\ CardShare > 0 /\ Sendable
    /\ row # NoRow => c.key <= row.attempt /\ row.toRefund # -1
    /\ row # NoRow \/ ~account

\* A step of Stripe or of the clock that leaves the money where it was.
Unmoved ==
    /\ stripe' \in Stripes
    /\ stripe'.unused = stripe.unused /\ stripe'.card = stripe.card
    /\ stripe'.burnt = stripe.burnt /\ stripe'.byHand = stripe.byHand
    /\ stripe'.notes = stripe.notes
    /\ \A c \in stripe'.sent : c \in stripe.sent \/ Sent(c)
    /\ stripe.refuses => stripe'.refuses

\* Such a step keeps all that is said of the notes.
LEMMA UnmovedKeeps ==
    ASSUME Unmoved
    PROVE  /\ CardShare' = CardShare /\ FreeKey' = FreeKey /\ Kept' = Kept
           /\ Paid' = Paid /\ Returned' = Returned /\ (NotesOK => NotesOK')
           /\ stripe'.sent # {} => Sendable
           /\ \A m : Frozen(m)' = Frozen(m)
<1>1. CardShare' = CardShare /\ FreeKey' = FreeKey BY DEF Unmoved, CardShare, FreeKey
<1>2. NotesOK => NotesOK' BY <1>1 DEF Unmoved, NotesOK, OneNote, Sent
<1>3. stripe'.sent # {} => Sendable BY DEF Unmoved, Sent, Sendable
<1> QED BY <1>1, <1>2, <1>3 DEF Unmoved, Kept, Paid, Returned, Frozen

\* A request moves on to x, and the row stays as it is.
Moves(r, x) ==
    /\ x \in Requests /\ req' = [req EXCEPT ![r] = x]
    /\ UNCHANGED <<account, row, handed, asked>> /\ Unmoved
    /\ window' \in BOOLEAN /\ fresh' \subseteq Reqs /\ ops' \in Nat
    /\ Works(r, x)
    /\ x.pc \in {"lookup", "create"} => req[r].pc \in {"lookup", "create"} \/ Open
    /\ x.pc \in Working \cup {"reread", "write"} => row # NoRow \/ ~account
    /\ x.kind = "settle" => x.pc \in {"reread", "write"}
    /\ x.pc \in {"reread", "write"} => Paid /\ ~Open
    /\ x.pc = "commit" /\ account /\ x.open => row # NoRow

\* A request moved on and nothing else: the invariant is kept.
LEMMA ReqStep == ASSUME IInv, NEW r \in Reqs, NEW x, Moves(r, x) PROVE IInv'
<1> USE DEF Moves
<1>1. req \in [Reqs -> Requests] BY DEF IInv, Typed, TypeOK
<1>2. req' \in [Reqs -> Requests] BY <1>1
<1>3. \A q \in Reqs : req'[q] = IF q = r THEN x ELSE req[q] BY <1>1
<1>4. Typed' BY <1>2 DEF IInv, Typed, TypeOK, Unmoved, Stripes
<1> USE UnmovedKeeps
<1>5. Open' = Open BY DEF Open
<1>6. RowOK' /\ PendingOK' BY <1>5 DEF IInv, RowOK, PendingOK, Unmoved, Sent
<1>7. NotesOK' BY DEF IInv
<1>8. ASSUME NEW q \in Reqs PROVE Works(q, req[q])'
  <2>1. \A y : Works(q, y)' = Works(q, y) BY DEF Works, Holds, Unmoved
  <2>2. PICK y : y = req'[q] OBVIOUS
  <2>3. Works(q, y) BY <1>3, <2>2 DEF IInv, WorkOK
  <2> QED BY <2>1, <2>2, <2>3 DEF Works, Holds
<1>9. Quiet' BY <1>3, <1>5 DEF IInv, Quiet, Sendable, Unmoved
<1>10. Untouched' BY <1>3 DEF IInv, Untouched, Unmoved, Sent
<1>11. Money' BY DEF IInv, Money, Unmoved
<1>12. Settlers' BY <1>3, <1>5 DEF IInv, Settlers
<1>13. Commits' BY <1>3 DEF IInv, Commits
<1>14. NeverTwice' /\ NothingForfeited' BY DEF IInv, NeverTwice, NothingForfeited, Unmoved
<1> QED BY <1>4, <1>6, <1>7, <1>8, <1>9, <1>10, <1>11, <1>12, <1>13, <1>14 DEF IInv, WorkOK

\* A step that no request takes and that leaves the row alone.
LEMMA IdleStep ==
    ASSUME IInv, Unmoved, UNCHANGED <<account, row, req, handed, asked>>,
           window' \in BOOLEAN, fresh' \subseteq Reqs, ops' \in Nat
    PROVE  IInv'
<1>1. Typed' BY DEF IInv, Typed, TypeOK, Unmoved, Stripes
<1> USE UnmovedKeeps
<1>2. Open' = Open BY DEF Open
<1>3. RowOK' /\ PendingOK' BY <1>2 DEF IInv, RowOK, PendingOK, Unmoved, Sent
<1>4. NotesOK' BY DEF IInv
<1>5. ASSUME NEW q \in Reqs PROVE Works(q, req[q])'
  <2>1. \A y : Works(q, y)' = Works(q, y) BY DEF Works, Holds, Unmoved
  <2>2. PICK y : y = req[q] OBVIOUS
  <2>3. Works(q, y) BY <2>2 DEF IInv, WorkOK
  <2> QED BY <2>1, <2>2, <2>3 DEF Works, Holds
<1>6. Quiet' BY <1>2 DEF IInv, Quiet, Sendable, Unmoved
<1>7. Untouched' BY DEF IInv, Untouched, Unmoved, Sent
<1>8. Money' BY DEF IInv, Money, Unmoved
<1>9. Settlers' /\ Commits' BY <1>2 DEF IInv, Settlers, Commits
<1>10. NeverTwice' /\ NothingForfeited' BY DEF IInv, NeverTwice, NothingForfeited, Unmoved
<1> QED BY <1>1, <1>3, <1>4, <1>5, <1>6, <1>7, <1>8, <1>9, <1>10 DEF IInv, WorkOK

\* The row is written while it is pending, or made.
Writes(r, x, new) ==
    /\ x \in Requests /\ new \in Rows
    /\ req' = [req EXCEPT ![r] = x] /\ row' = new /\ fresh' = {}
    /\ Open \/ (row = NoRow /\ account)
    /\ UNCHANGED <<account, window, handed, ops>> /\ Unmoved /\ asked' \in BOOLEAN
    /\ new.state = "pending" /\ new.refund = -1 /\ new.refunded = 0
    /\ new.token \in {r, NoReq} /\ Frozen(new)
    /\ row # NoRow => new.attempt >= row.attempt
    /\ row # NoRow /\ row.toRefund # -1 => new.toRefund # -1
    /\ x.pc \in Working => x.mine = new
    /\ x.pc = "compute" => new.amount = -1
    /\ x.pc \in {"problem", "plan"} => new.amount = stripe.unused /\ new.toRefund = -1
    /\ x.pc \in {"lookup", "create"} => new.toRefund # -1
    /\ x.pc \notin {"create", "reread", "write"} /\ x.kind # "settle"

\* Writing the pending row, or making it, keeps the invariant.
LEMMA WriteStep ==
    ASSUME RefundAssumed, IInv, NEW r \in Reqs, NEW x, NEW new, Writes(r, x, new) PROVE IInv'
<1> USE DEF Writes
<1>1. req \in [Reqs -> Requests] BY DEF IInv, Typed, TypeOK
<1>2. req' \in [Reqs -> Requests] BY <1>1
<1>3. \A q \in Reqs : req'[q] = IF q = r THEN x ELSE req[q] BY <1>1
<1>n. new # NoRow /\ NoReq \notin Reqs BY DEF RefundAssumed
<1>o. row = NoRow => account BY DEF Open
<1>4. Typed' BY <1>2 DEF IInv, Typed, TypeOK, Unmoved, Stripes
<1>u. stripe \in Stripes /\ stripe' \in Stripes BY DEF IInv, Typed, Unmoved
<1> USE UnmovedKeeps, <1>u
<1>5. Open' BY <1>n DEF Open
<1>t. new.attempt \in Nat /\ (row # NoRow => row.attempt \in Nat) BY DEF IInv, Typed, TypeOK, Rows
<1>k. FreeKey \in {0, 1} BY ShareType
<1>6. RowOK'
  <2>1. row = NoRow => stripe.notes = {} /\ stripe'.sent = {}
    BY <1>o DEF IInv, Untouched, Unmoved, Sent
  <2>2. \A c \in stripe'.sent : c.key \in Nat BY DEF Stripes
  <2>3. stripe.notes # {} => new.attempt = FreeKey
    BY <2>1, <1>t, <1>k DEF IInv, RowOK, Frozen
  <2>4. \A c \in stripe'.sent : c.key <= new.attempt
    BY <2>1, <2>2, <1>t DEF IInv, RowOK, Unmoved, Sent
  <2>5. new.toRefund = -1 => stripe.notes = {} /\ stripe'.sent = {}
    BY <2>1 DEF IInv, RowOK, Unmoved, Sent
  <2> QED BY <2>3, <2>4, <2>5, <1>n DEF RowOK, Unmoved
<1>7. PendingOK' BY DEF IInv, PendingOK, Untouched, Kept, Open, Unmoved
<1>8. NotesOK' BY DEF IInv
<1>9. ASSUME NEW q \in Reqs PROVE Works(q, req[q])'
  <2>1. CASE q = r
    <3>1. req'[q] = x BY <2>1, <1>3
    <3> QED BY <2>1, <3>1, <1>n, <1>t DEF Works, Holds, Unmoved
  <2>2. CASE q # r
    <3>1. req'[q] = req[q] /\ new.token # q BY <2>2, <1>3, <1>n
    <3>2. Works(q, req[q]) BY DEF IInv, WorkOK
    <3>3. row = NoRow => req[q].pc \notin Working BY <1>o DEF IInv, Untouched
    <3>4. row # NoRow /\ req[q].pc \in Working => req[q].mine.attempt \in Nat
      BY <3>2, <1>k DEF Works, Frozen
    <3>5. PICK y : y = req[q] OBVIOUS
    <3>6. Frozen(y.mine)' = Frozen(y.mine) OBVIOUS
    <3> QED BY <3>1, <3>2, <3>3, <3>4, <3>5, <3>6, <1>t, <1>n DEF Works, Holds, Unmoved
  <2> QED BY <2>1, <2>2
<1>10. Quiet' BY <1>5 DEF Quiet
<1>11. Untouched' /\ Money' BY <1>n DEF Untouched, Money
<1>12. Settlers'
  <2>1. \A q \in Reqs : req[q].pc \notin {"reread", "write"}
    BY <1>o DEF IInv, Settlers, Untouched, Open
  <2> QED BY <1>3, <2>1 DEF IInv, Settlers
<1>13. Commits' BY <1>n DEF Commits
<1>14. NeverTwice' /\ NothingForfeited' BY <1>n DEF IInv, NeverTwice, NothingForfeited, Unmoved
<1> QED BY <1>4, <1>6, <1>7, <1>8, <1>9, <1>10, <1>11, <1>12, <1>13, <1>14 DEF IInv, WorkOK

\* Stripe holds another note, perhaps, and is otherwise as it was.
Noted ==
    /\ stripe' \in Stripes
    /\ stripe'.unused = stripe.unused /\ stripe'.card = stripe.card
    /\ stripe'.burnt = stripe.burnt /\ stripe'.byHand = stripe.byHand
    /\ stripe'.sent = stripe.sent /\ stripe'.refuses = stripe.refuses
    /\ NotesOK' /\ stripe.notes \subseteq stripe'.notes /\ Kept' = stripe'.notes

\* _finish, with its result given.
Final(m, st, refunded, owed, refund) ==
    [Released(m) EXCEPT !.state = st, !.refunded = refunded, !.owed = owed, !.refund = refund]

\* The holder of the claim finishes the row: what it says was refunded is what
\* the notes sent, and the rest is owed.
Finishes(r, x, st, refunded, owed, refund) ==
    /\ Holds(r) /\ req[r].pc \in Working
    /\ x \in Requests /\ x.pc \in {"idle", "commit"} /\ x.kind # "settle"
    /\ refunded \in Nat /\ owed \in Nat /\ refund \in Nat \cup {-1} /\ st \in {"owed", "done"}
    /\ req' = [req EXCEPT ![r] = x] /\ row' = Final(row, st, refunded, owed, refund) /\ fresh' = {}
    /\ UNCHANGED <<account, window, handed, asked, ops>> /\ Noted
    /\ stripe'.notes # {} => row.attempt = FreeKey /\ row.toRefund # -1
    /\ refunded = IF stripe'.notes = {} THEN 0 ELSE CardShare
    /\ row.amount # -1 => refunded + owed = stripe.unused
    /\ st = "done" => owed = 0 /\ row.amount # -1
    /\ refund # -1 => stripe'.notes # {}
    /\ CardShare > 0 => stripe'.notes # {} \/ stripe.refuses \/ row.toRefund = -1

\* Finishing the row keeps the invariant.
LEMMA FinishStep ==
    ASSUME RefundAssumed, IInv, NEW r \in Reqs, NEW x, NEW st, NEW refunded, NEW owed,
           NEW refund,
           Finishes(r, x, st, refunded, owed, refund)
    PROVE  IInv'
<1> USE DEF Finishes
<1>1. req \in [Reqs -> Requests] BY DEF IInv, Typed, TypeOK
<1>2. req' \in [Reqs -> Requests] BY <1>1
<1>3. \A q \in Reqs : req'[q] = IF q = r THEN x ELSE req[q] BY <1>1
<1>r. row \in Rows /\ row # NoRow BY DEF IInv, Typed, TypeOK, Holds
<1>p. row.state = "pending" BY DEF IInv, WorkOK, Works
<1>w. /\ row' \in Rows /\ row'.state = st /\ row'.token = NoReq
      /\ row'.amount = row.amount /\ row'.toRefund = row.toRefund /\ row'.attempt = row.attempt
      /\ row'.refunded = refunded /\ row'.owed = owed /\ row'.refund = refund
  <2> DEFINE h == Released(row)
  <2>1. /\ h \in Rows /\ h.token = NoReq /\ h.amount = row.amount
        /\ h.toRefund = row.toRefund /\ h.attempt = row.attempt
    BY <1>r DEF Released, Rows
  <2>2. row' = [h EXCEPT !.state = st, !.refunded = refunded, !.owed = owed, !.refund = refund]
    BY DEF Final
  <2> HIDE DEF h
  <2> QED BY <2>1, <2>2 DEF Rows, FINAL
<1>n. row' # NoRow /\ NoReq \notin Reqs BY <1>w DEF RefundAssumed
<1>s. stripe \in Stripes /\ CardShare' = CardShare /\ FreeKey' = FreeKey
  BY DEF IInv, Typed, Noted, CardShare, FreeKey
<1>f. \A m : Frozen(m)' = Frozen(m) BY <1>s DEF Frozen, Noted
<1>t. /\ stripe.byHand = 0 /\ handed = 0 /\ stripe'.byHand = 0
      /\ stripe'.unused = stripe.unused
  BY <1>r, <1>p DEF IInv, PendingOK, Open, Noted
<1>c. CardShare \in Nat /\ CardShare <= stripe.unused /\ stripe.unused \in Nat BY <1>s, ShareType
<1>4. Typed' BY <1>2, <1>w DEF IInv, Typed, TypeOK, Noted, Stripes
<1>5. ~Open' /\ Open BY <1>w, <1>r, <1>p DEF Open
<1>6. RowOK'
  BY <1>r, <1>w, <1>s DEF IInv, RowOK, Frozen, Noted
<1>7. PendingOK' BY <1>5 DEF PendingOK
<1>8. NotesOK' BY DEF Noted
<1>9. ASSUME NEW q \in Reqs PROVE Works(q, req[q])'
  <2>1. CASE q = r BY <2>1, <1>3 DEF Works, Working
  <2>2. CASE q # r
    <3>1. req'[q] = req[q] /\ row'.token # q BY <2>2, <1>3, <1>n, <1>w
    <3>2. Works(q, req[q]) BY DEF IInv, WorkOK
    <3>3. PICK y : y = req[q] OBVIOUS
    <3>4. Frozen(y.mine)' = Frozen(y.mine) BY <1>f
    <3> QED BY <3>1, <3>2, <3>3, <3>4, <1>r, <1>w, <1>s, <1>t DEF Works, Holds
  <2> QED BY <2>1, <2>2
<1>10. Quiet'
  <2>1. row.toRefund = -1 => ~Sendable
    BY <1>r DEF IInv, RowOK, WorkOK, Works, Working, Sendable
  <2>2. Sendable' => Sendable BY <1>3 DEF Sendable, Noted
  <2> QED BY <2>1, <2>2, <1>s DEF Quiet, Noted
<1>11. Money'
  <2>1. SumsHold' BY <1>8, SumsNext DEF Noted
  <2>2. Total(Kept)' = refunded
    BY <2>1, <1>s DEF SumsHold, Noted
  <2>3. refunded <= stripe.unused BY <1>c
  <2>4. row'.refund # -1 => row'.refunded = CardShare' /\ Kept' # {} BY <1>w, <1>s DEF Noted
  <2>5. refunded \in Nat /\ owed \in Nat /\ handed' = 0 /\ stripe'.byHand = 0 BY <1>t
  <2>6. row.amount # -1 => refunded + owed = stripe'.unused BY <1>t
  <2>7. st \in {"owed", "done"} /\ (st = "done" => owed = 0 /\ row'.amount # -1) BY <1>w
  <2>8. row'.amount # -1 => row'.refunded + row'.owed + stripe'.byHand = stripe'.unused + handed'
    BY <2>5, <2>6, <1>w
  <2>9. row'.refunded + stripe'.byHand <= stripe'.unused BY <2>3, <2>5, <1>w, <1>t
  <2>10. row'.refunded = Total(Kept)' /\ handed' <= row'.owed /\ handed' = stripe'.byHand
    BY <2>2, <2>5, <1>w
  <2>11. row'.state = st /\ row'.owed = owed BY <1>w
  <2> QED BY ONLY <2>4, <2>7, <2>8, <2>9, <2>10, <2>11 DEF Money
<1>12. Untouched' /\ Commits' BY <1>n DEF Untouched, Commits
<1>13. Settlers'
  <2>1. \A q \in Reqs : req[q].pc \notin {"reread", "write"} BY <1>5 DEF IInv, Settlers
  <2> QED BY <1>3, <2>1 DEF IInv, Settlers
<1>14. NeverTwice'
  <2>1. SumsHold' BY <1>8, SumsNext DEF Noted
  <2>2. Returned' \in {0, CardShare} BY <2>1, <1>s DEF SumsHold
  <2> QED BY <2>2, <1>t, <1>c DEF NeverTwice
<1>15. NothingForfeited' BY <1>n DEF NothingForfeited
<1> QED BY <1>4, <1>6, <1>7, <1>8, <1>9, <1>10, <1>11, <1>12, <1>13, <1>14, <1>15 DEF IInv, WorkOK

\* What every step of a request leaves alone.
Rest == UNCHANGED <<account, window, handed, ops>>

\* The types, one by one.
LEMMA Stripped ==
    ASSUME IInv
    PROVE  /\ stripe \in Stripes /\ req \in [Reqs -> Requests] /\ fresh \subseteq Reqs
           /\ window \in BOOLEAN /\ ops \in Nat /\ asked \in BOOLEAN /\ row \in Rows \cup {NoRow}
           /\ Idle \in Requests
           /\ stripe' = stripe => Unmoved
BY DEF IInv, Typed, TypeOK, Unmoved, Idle, Requests, Steps, Kinds

\* A request ends.
LEMMA EndStep ==
    ASSUME IInv, NEW r \in Reqs, End(r), UNCHANGED <<account, row, handed, asked>>, Unmoved,
           window' \in BOOLEAN, fresh' \subseteq Reqs, ops' \in Nat
    PROVE  IInv'
<1>1. Idle \in Requests BY Stripped
<1>2. Idle.pc = "idle" /\ Idle.kind = "withdraw" BY DEF Idle
<1>3. Works(r, Idle) BY <1>2 DEF Works, Working
<1>4. Moves(r, Idle) BY <1>1, <1>2, <1>3 DEF Moves, End, Working
<1> QED BY <1>4, ReqStep

\* A request goes on to another step as it is.
LEMMA GotoIs ==
    ASSUME NEW x \in Requests, NEW s \in Steps
    PROVE  /\ [x EXCEPT !.pc = s] \in Requests
           /\ [x EXCEPT !.pc = s].pc = s /\ [x EXCEPT !.pc = s].mine = x.mine
           /\ [x EXCEPT !.pc = s].kind = x.kind /\ [x EXCEPT !.pc = s].open = x.open
BY DEF Requests

\* A request goes on to a step that needs no claim.
LEMMA GotoStep ==
    ASSUME IInv, NEW r \in Reqs, NEW s \in Steps, Goto(r, s),
           UNCHANGED <<account, row, handed, asked>>, Unmoved,
           window' \in BOOLEAN, fresh' \subseteq Reqs, ops' \in Nat,
           s \notin Working \cup {"reread", "write"}, req[r].kind # "settle",
           s = "commit" => row # NoRow
    PROVE  IInv'
<1> DEFINE x == [req[r] EXCEPT !.pc = s]
<1>1. req[r] \in Requests /\ req \in [Reqs -> Requests] BY Stripped
<1>2. x \in Requests /\ x.pc = s /\ x.kind = req[r].kind BY <1>1, GotoIs
<1>3. req' = [req EXCEPT ![r] = x] BY <1>1 DEF Goto
<1> HIDE DEF x
<1>4. Works(r, x) BY <1>2 DEF Works
<1>5. Moves(r, x) BY <1>2, <1>3, <1>4 DEF Moves, Working
<1> QED BY <1>5, ReqStep

\* _claim, whose caller has said where it goes on.
LEMMA ClaimedIs ==
    ASSUME RefundAssumed, NEW r \in Reqs, NEW m \in Rows
    PROVE  /\ Claimed(r, m) \in Rows /\ Claimed(r, m).token = r
           /\ Claimed(r, m).state = m.state /\ Claimed(r, m).amount = m.amount
           /\ Claimed(r, m).toRefund = m.toRefund /\ Claimed(r, m).owed = m.owed
           /\ Claimed(r, m).refunded = m.refunded /\ Claimed(r, m).refund = m.refund
           /\ Claimed(r, m).attempt = m.attempt
BY DEF Claimed, Rows

\* _claim makes a pending row without an amount.
LEMMA NewRowIs ==
    ASSUME IInv, NEW r \in Reqs
    PROVE  /\ NewRow(r) \in Rows /\ NewRow(r).state = "pending" /\ NewRow(r).amount = -1
           /\ NewRow(r).toRefund = -1 /\ NewRow(r).attempt = 0
           /\ NewRow(r).refund = -1 /\ NewRow(r).refunded = 0
<1>1. req[r].period \in Nat BY Stripped DEF Requests
<1> QED BY <1>1 DEF NewRow, Rows, FINAL

\* _claim keeps the invariant, whoever calls it.
LEMMA ClaimStep ==
    ASSUME RefundAssumed, IInv, NEW r \in Reqs, NEW create, NEW final, NEW step,
           Claim(r, create, final, step), Rest, UNCHANGED stripe,
           final \in {"idle", "cancel", "commit"}, req[r].kind # "settle",
           step \in {"freeze", "compute", "plan", "lookup", "find"},
           row = NoRow /\ create => step \in {"freeze", "compute"},
           row # NoRow /\ step = "compute" => row.amount = -1,
           row # NoRow /\ step = "plan" => row.amount # -1 /\ row.toRefund = -1,
           row # NoRow /\ step = "lookup" => row.toRefund # -1
    PROVE  IInv'
<1>u. Unmoved /\ window' \in BOOLEAN /\ ops' \in Nat /\ account' = account /\ handed' = handed
      /\ fresh \subseteq Reqs /\ UNCHANGED <<account, window, handed, stripe, ops>>
  BY Stripped DEF Rest
<1>q. req[r] \in Requests /\ req \in [Reqs -> Requests] BY Stripped
<1>s. step \in Steps /\ final \in Steps /\ step \in Working BY DEF Steps, Working
<1>1. CASE End(r) /\ UNCHANGED <<row, fresh, asked>> BY <1>1, <1>u, EndStep
<1>2. CASE row # NoRow /\ Goto(r, final) /\ UNCHANGED <<row, fresh, asked>> /\ final # "idle"
  <2>1. final \notin Working \cup {"reread", "write"} BY DEF Working
  <2> QED BY <1>2, <1>u, <1>s, <2>1, GotoStep
<1>3. ASSUME NEW m \in Rows, row = NoRow => account /\ m = NewRow(r) /\ create,
             row # NoRow => m = row /\ row.state = "pending",
             Put(Claimed(r, m)), asked' \in BOOLEAN,
             req' = [req EXCEPT ![r].pc = step, ![r].mine = Claimed(r, m)]
      PROVE  IInv'
  <2> DEFINE new == Claimed(r, m)
             x == [req[r] EXCEPT !.pc = step, !.mine = new]
  <2>1. /\ new \in Rows /\ new.token = r /\ new.state = m.state /\ new.amount = m.amount
        /\ new.toRefund = m.toRefund /\ new.owed = m.owed /\ new.attempt = m.attempt
        /\ new.refunded = m.refunded /\ new.refund = m.refund
    BY <1>3, ClaimedIs
  <2>2. row' = new /\ fresh' = {} /\ req' = [req EXCEPT ![r] = x] BY <1>3, <1>q DEF Put
  <2> HIDE DEF new
  <2>3. x \in Requests /\ x.pc = step /\ x.mine = new /\ x.kind = req[r].kind
    BY <1>q, <1>s, <2>1 DEF Requests
  <2> HIDE DEF x
  <2>4. Open \/ (row = NoRow /\ account) BY <1>3 DEF Open
  <2>5. m.state = "pending" /\ m.refund = -1 /\ m.refunded = 0
    <3>1. CASE row = NoRow BY <1>3, <3>1, NewRowIs
    <3>2. CASE row # NoRow BY <1>3, <3>2 DEF IInv, PendingOK, Open
    <3> QED BY <3>1, <3>2
  <2>6. Frozen(m)
    <3>1. CASE row = NoRow BY <1>3, <3>1, NewRowIs DEF Frozen
    <3>2. CASE row # NoRow BY <1>3, <3>2 DEF IInv, RowOK
    <3> QED BY <3>1, <3>2
  <2>7. Frozen(new) BY <2>1, <2>6 DEF Frozen
  <2>8. row # NoRow => new.attempt >= row.attempt
    BY <1>3, <2>1 DEF Rows
  <2>9. /\ step = "compute" => new.amount = -1
        /\ step = "plan" => new.amount = stripe.unused /\ new.toRefund = -1
        /\ step = "lookup" => new.toRefund # -1
    BY <1>3, <2>1, <2>6, NewRowIs DEF Frozen
  <2>10. row # NoRow /\ row.toRefund # -1 => new.toRefund # -1 BY <1>3, <2>1
  <2>11. Writes(r, x, new)
    BY <1>3, <1>u, <2>1, <2>2, <2>3, <2>4, <2>5, <2>7, <2>8, <2>9, <2>10 DEF Writes
  <2> QED BY <2>11, WriteStep
<1>4. CASE row = NoRow /\ create /\ account /\ Put(Claimed(r, NewRow(r))) /\ asked' = TRUE
           /\ req' = [req EXCEPT ![r].pc = step, ![r].mine = Claimed(r, NewRow(r))]
  BY <1>3, <1>4, NewRowIs
<1>5. CASE row # NoRow /\ row.state = "pending" /\ Put(Claimed(r, row)) /\ asked' = asked
           /\ req' = [req EXCEPT ![r].pc = step, ![r].mine = Claimed(r, row)]
  <2>1. row \in Rows /\ asked' \in BOOLEAN BY <1>5, Stripped
  <2> QED BY <1>3, <1>5, <2>1
<1> QED BY <1>1, <1>2, <1>4, <1>5 DEF Claim

\* What a request knows of the row while it holds the claim.
LEMMA HolderKnows ==
    ASSUME IInv, NEW r \in Reqs, Holds(r), req[r].pc \in Working
    PROVE  /\ row \in Rows /\ row # NoRow /\ Open /\ row.state = "pending" /\ Frozen(row)
           /\ row.amount = req[r].mine.amount /\ row.toRefund = req[r].mine.toRefund
           /\ row.owed = req[r].mine.owed /\ row.attempt = req[r].mine.attempt
           /\ row.refund = -1 /\ row.refunded = 0
           /\ stripe.byHand = 0 /\ handed = 0 /\ Kept = stripe.notes
<1>1. row # NoRow /\ row \in Rows BY Stripped DEF Holds
<1>2. /\ row.state = "pending"
      /\ row.amount = req[r].mine.amount /\ row.toRefund = req[r].mine.toRefund
      /\ row.owed = req[r].mine.owed /\ row.attempt = req[r].mine.attempt
  BY DEF IInv, WorkOK, Works
<1>3. Open BY <1>1, <1>2 DEF Open
<1>4. Frozen(row) BY <1>1 DEF IInv, RowOK
<1> QED BY <1>1, <1>2, <1>3, <1>4 DEF IInv, PendingOK

\* A request that is not settling is a withdrawal or a deletion.
LEMMA WorkerKind ==
    ASSUME IInv, NEW r \in Reqs, req[r].pc \notin {"reread", "write"}
    PROVE  /\ req[r].kind # "settle" /\ AfterSettle(r) \in {"commit", "idle"}
           /\ req[r] \in Requests /\ req \in [Reqs -> Requests]
BY Stripped DEF IInv, Settlers, AfterSettle

\* Letting go of the claim changes nothing else.
LEMMA ReleasedIs ==
    ASSUME NEW m \in Rows
    PROVE  /\ Released(m) \in Rows /\ Released(m).token = NoReq
           /\ Released(m).state = m.state /\ Released(m).amount = m.amount
           /\ Released(m).toRefund = m.toRefund /\ Released(m).owed = m.owed
           /\ Released(m).refunded = m.refunded /\ Released(m).refund = m.refund
           /\ Released(m).attempt = m.attempt
BY DEF Released, Rows

\* What a pending row may be saved as, and where the request goes on then.
Saves(r, new, step) ==
    /\ new \in Rows /\ new.state = "pending" /\ new.refund = -1 /\ new.refunded = 0
    /\ new.token \in {r, NoReq} /\ Frozen(new)
    /\ new.attempt >= row.attempt /\ (row.toRefund # -1 => new.toRefund # -1)
    /\ step \in {"stamp", "cancel", "problem", "plan", "lookup", "commit", "idle"}
    /\ step \in {"problem", "plan"} => new.amount = stripe.unused /\ new.toRefund = -1
    /\ step = "lookup" => new.toRefund # -1

\* Saving the row under the claim keeps the invariant; without it nothing is saved.
LEMMA SaveStep ==
    ASSUME RefundAssumed, IInv, NEW r \in Reqs, NEW new, NEW step, Save(r, new, step),
           req[r].pc \in Working, Rest, Unmoved, UNCHANGED asked,
           Holds(r) => Saves(r, new, step)
    PROVE  IInv'
<1>u. window' \in BOOLEAN /\ ops' \in Nat /\ fresh \subseteq Reqs /\ asked' \in BOOLEAN
      /\ UNCHANGED <<account, window, handed, ops>> /\ Idle \in Requests
  BY Stripped DEF Rest
<1>1. CASE ~Holds(r)
  <2>1. End(r) /\ UNCHANGED <<row, fresh>> BY <1>1 DEF Save
  <2> QED BY <2>1, <1>u, EndStep
<1>2. CASE Holds(r)
  <2> USE <1>2
  <2> DEFINE x == IF step = "idle" THEN Idle ELSE [req[r] EXCEPT !.pc = step, !.mine = new]
  <2>1. req[r].kind # "settle" /\ req[r] \in Requests /\ req \in [Reqs -> Requests]
    BY WorkerKind DEF Working
  <2>2. row' = new /\ fresh' = {} /\ req' = [req EXCEPT ![r] = x] BY <2>1 DEF Save, Put
  <2>3. new \in Rows /\ step \in Steps BY DEF Saves, Steps
  <2>4. x \in Requests /\ x.pc = step /\ x.kind # "settle" /\ (step \in Working => x.mine = new)
    <3>1. CASE step = "idle" BY <3>1, <1>u DEF Idle, Working
    <3>2. CASE step # "idle" BY <3>2, <2>1, <2>3 DEF Requests
    <3> QED BY <3>1, <3>2
  <2> HIDE DEF x
  <2>5. Open BY HolderKnows
  <2>6. Writes(r, x, new) BY <1>u, <2>2, <2>4, <2>5 DEF Writes, Saves
  <2> QED BY <2>6, WriteStep
<1> QED BY <1>1, <1>2

\* Letting go of the claim keeps the invariant.
LEMMA GiveBackStep ==
    ASSUME RefundAssumed, IInv, NEW r \in Reqs, GiveBack(r),
           req[r].pc \in Working, Rest, Unmoved, UNCHANGED asked
    PROVE  IInv'
<1>1. Save(r, Released(row), "idle") BY DEF GiveBack, Save, End
<1>2. Holds(r) => Saves(r, Released(row), "idle")
  <2> SUFFICES ASSUME Holds(r) PROVE Saves(r, Released(row), "idle") OBVIOUS
  <2>1. row \in Rows /\ row.state = "pending" /\ Frozen(row) /\ row.refund = -1 /\ row.refunded = 0
    BY HolderKnows
  <2> HIDE DEF Holds
  <2>2. Frozen(Released(row)) BY <2>1, ReleasedIs DEF Frozen
  <2>3. row.attempt >= row.attempt BY <2>1 DEF Rows
  <2> QED BY <2>1, <2>2, <2>3, ReleasedIs DEF Saves
<1> QED BY <1>1, <1>2, SaveStep

\* _finish in both of its forms.
LEMMA FinishedEq ==
    ASSUME NEW m, NEW a, NEW b, NEW c
    PROVE  /\ Finished(m, a, b, TRUE, c) = Final(m, "owed", a, b, c)
           /\ Finished(m, a, b, FALSE, c) = Final(m, IF b > 0 THEN "owed" ELSE "done", a, b, c)
BY DEF Finished, Final

\* What the row may be finished as when Stripe is as it was.
Ends(st, refunded, owed, refund) ==
    /\ refunded \in Nat /\ owed \in Nat /\ refund \in Nat \cup {-1} /\ st \in {"owed", "done"}
    /\ refunded = IF stripe.notes = {} THEN 0 ELSE CardShare
    /\ row.amount # -1 => refunded + owed = stripe.unused
    /\ st = "done" => owed = 0 /\ row.amount # -1
    /\ refund # -1 => stripe.notes # {}
    /\ CardShare > 0 => stripe.notes # {} \/ stripe.refuses \/ row.toRefund = -1

\* Finishing the row while Stripe is as it was keeps the invariant.
LEMMA EndRowStep ==
    ASSUME RefundAssumed, IInv, NEW r \in Reqs, NEW st, NEW refunded, NEW owed, NEW refund,
           Save(r, Final(row, st, refunded, owed, refund), AfterSettle(r)),
           req[r].pc \in Working, Rest, UNCHANGED <<stripe, asked>>,
           Holds(r) => Ends(st, refunded, owed, refund)
    PROVE  IInv'
<1>u. Unmoved /\ window' \in BOOLEAN /\ ops' \in Nat /\ fresh \subseteq Reqs /\ Idle \in Requests
      /\ UNCHANGED <<account, window, handed, stripe, asked, ops>> /\ stripe \in Stripes
  BY Stripped DEF Rest
<1>1. CASE ~Holds(r)
  <2>1. End(r) /\ UNCHANGED <<row, fresh>> BY <1>1 DEF Save
  <2> QED BY <2>1, <1>u, EndStep
<1>2. CASE Holds(r)
  <2> USE <1>2
  <2> DEFINE new == Final(row, st, refunded, owed, refund)
             x == IF AfterSettle(r) = "idle" THEN Idle
                  ELSE [req[r] EXCEPT !.pc = AfterSettle(r), !.mine = new]
  <2>1. /\ req[r].kind # "settle" /\ req[r] \in Requests /\ req \in [Reqs -> Requests]
        /\ AfterSettle(r) \in {"commit", "idle"}
    BY WorkerKind DEF Working
  <2>2. row' = new /\ fresh' = {} /\ req' = [req EXCEPT ![r] = x] BY <2>1 DEF Save, Put
  <2>3. row \in Rows /\ Open /\ Kept = stripe.notes BY HolderKnows
  <2>4. new \in Rows
    <3>1. Released(row) \in Rows BY <2>3, ReleasedIs
    <3> QED BY <3>1 DEF Final, Rows, FINAL, Ends
  <2> HIDE DEF new
  <2>5. x \in Requests /\ x.pc \in {"idle", "commit"} /\ x.kind # "settle"
    <3>1. CASE AfterSettle(r) = "idle" BY <3>1, <1>u DEF Idle
    <3>2. CASE AfterSettle(r) = "commit" BY <3>2, <2>1, <2>4 DEF Requests, Steps
    <3> QED BY <2>1, <3>1, <3>2
  <2> HIDE DEF x
  <2>6. Noted BY <1>u, <2>3, UnmovedKeeps DEF Noted, IInv
  <2>7. stripe.notes # {} => row.attempt = FreeKey /\ row.toRefund # -1
    BY <2>3 DEF IInv, RowOK, Open
  <2>8. Finishes(r, x, st, refunded, owed, refund)
    BY <1>u, <2>2, <2>5, <2>6, <2>7 DEF Finishes, Ends, new
  <2> QED BY <2>8, FinishStep
<1> QED BY <1>1, <1>2

(* The requests' steps.                                                    *)
\* A request starts.
LEMMA StartKeeps == ASSUME RefundAssumed, IInv, NEW r \in Reqs, Start(r) PROVE IInv'
<1>u. Unmoved /\ window' \in BOOLEAN /\ fresh' \subseteq Reqs /\ UNCHANGED <<account, row, handed>>
  BY Stripped DEF Start
<1>o. ops' \in Nat BY Stripped DEF Start
<1>t. stripe.invoice \in Nat /\ window \in BOOLEAN BY Stripped DEF Stripes
<1>1. ASSUME NEW p \in {"settle", "claim", "cancel", "resolve"},
             NEW k \in {"withdraw", "delete", "list"}, NEW o \in BOOLEAN, NEW i \in Nat,
             req' = [req EXCEPT ![r] = [Idle EXCEPT !.pc = p, !.kind = k, !.open = o, !.period = i]],
             asked' = asked
      PROVE  IInv'
  <2> DEFINE x == [Idle EXCEPT !.pc = p, !.kind = k, !.open = o, !.period = i]
  <2>1. x \in Requests /\ x.pc = p /\ x.kind = k BY DEF Idle, Requests, Steps, Kinds
  <2> HIDE DEF x
  <2>2. Works(r, x) BY <2>1 DEF Works, Working
  <2>3. Moves(r, x) BY <1>1, <1>u, <1>o, <2>1, <2>2 DEF Moves, Working, x
  <2> QED BY <2>3, ReqStep
<1>2. CASE StartWithdraw(r)
  <2> PICK p : p = IF row # NoRow /\ row.state \in FINAL THEN "settle" ELSE "claim" OBVIOUS
  <2> QED BY <1>1, <1>2, <1>t DEF StartWithdraw
<1>3. CASE StartDelete(r)
  <2> PICK p : p = IF (row # NoRow /\ row.state \in FINAL) \/ (row = NoRow /\ ~window)
                   THEN "cancel" ELSE "claim" OBVIOUS
  <2> QED BY <1>1, <1>3, <1>t DEF StartDelete
<1>4. CASE StartList(r)
  <2> DEFINE x == [Idle EXCEPT !.pc = "resolve", !.kind = "list"]
  <2>1. x \in Requests /\ x.pc = "resolve" /\ x.kind = "list" BY DEF Idle, Requests, Steps, Kinds
  <2>2. req' = [req EXCEPT ![r] = x] /\ asked' = asked BY <1>4 DEF StartList
  <2> HIDE DEF x
  <2>3. Works(r, x) BY <2>1 DEF Works, Working
  <2>4. Moves(r, x) BY <1>u, <1>o, <2>1, <2>2, <2>3 DEF Moves, Working
  <2> QED BY <2>4, ReqStep
<1>5. CASE StartSettle(r)
  <2>1. row # NoRow /\ row.state = "owed" /\ Due = 0
    BY <1>5 DEF StartSettle, Payable, RefundAssumed
  <2>2. Paid
    <3>1. /\ stripe \in Stripes /\ SumsHold /\ handed \in Nat /\ row \in Rows
      BY <2>1, Stripped, Sums DEF IInv, Typed, TypeOK
    <3>2. CASE row.amount = -1
      <4>1. handed = stripe.unused BY <2>1, <3>1, <3>2 DEF Due, Stripes
      <4>2. handed = stripe.byHand BY <2>1, <3>2 DEF IInv, Money
      <4>3. Total(stripe.notes) \in Nat BY <3>1, ShareType DEF SumsHold
      <4> QED BY <3>1, <4>1, <4>2, <4>3 DEF Paid, Stripes
    <3>3. CASE row.amount # -1
      <4>1. row.owed = handed /\ row.owed \in Nat /\ row.refunded \in Nat
        BY <2>1, <3>1, <3>3 DEF Due, Rows
      <4>2. row.refunded + row.owed + stripe.byHand = stripe.unused + handed
            /\ row.refunded = Total(Kept)
        BY <2>1, <3>3 DEF IInv, Money
      <4>3. Total(Kept) <= Total(stripe.notes) /\ Total(stripe.notes) \in Nat
        BY <3>1, ShareType DEF SumsHold
      <4> QED BY <3>1, <4>1, <4>2, <4>3 DEF Paid, Stripes
    <3> QED BY <3>2, <3>3
  <2> DEFINE x == [Idle EXCEPT !.pc = "reread", !.kind = "settle"]
  <2>3. x \in Requests /\ x.pc = "reread" /\ x.kind = "settle" BY DEF Idle, Requests, Steps, Kinds
  <2>4. req' = [req EXCEPT ![r] = x] /\ asked' = asked BY <1>5, <2>1 DEF StartSettle
  <2> HIDE DEF x
  <2>5. Works(r, x) BY <2>3 DEF Works, Working
  <2>6. Moves(r, x) BY <1>u, <1>o, <2>1, <2>2, <2>3, <2>4, <2>5 DEF Moves, Working, Open
  <2> QED BY <2>6, ReqStep
<1> QED BY <1>2, <1>3, <1>4, <1>5 DEF Start

\* The steps that claim the row.
LEMMA ClaimsKeep ==
    ASSUME RefundAssumed, IInv, NEW r \in Reqs, Rest,
           RequestWithdrawal(r) \/ Settle(r) \/ Resolve(r)
    PROVE  IInv'
<1>k. /\ req[r].kind # "settle" /\ AfterSettle(r) \in {"commit", "idle"}
  BY WorkerKind DEF RequestWithdrawal, Settle, Resolve
<1>1. CASE RequestWithdrawal(r) BY <1>1, <1>k, ClaimStep DEF RequestWithdrawal
<1>2. CASE Settle(r)
  <2> DEFINE s == IF row = NoRow THEN "compute" ELSE NextOf(row)
  <2>1. row # NoRow => row.amount \in Nat \cup {-1} /\ row.toRefund \in Nat \cup {-1}
    BY Stripped DEF Rows
  <2>2. /\ s \in {"compute", "plan", "lookup"} /\ (row = NoRow => s = "compute")
        /\ row # NoRow /\ s = "compute" => row.amount = -1
        /\ row # NoRow /\ s = "plan" => row.amount # -1 /\ row.toRefund = -1
        /\ row # NoRow /\ s = "lookup" => row.toRefund # -1
    BY <2>1 DEF NextOf
  <2>3. Claim(r, TRUE, AfterSettle(r), s) /\ UNCHANGED stripe BY <1>2 DEF Settle
  <2> HIDE DEF s
  <2> QED BY <2>2, <2>3, <1>k, ClaimStep
<1>3. CASE Resolve(r) BY <1>3, <1>k, ClaimStep DEF Resolve
<1> QED BY <1>1, <1>2, <1>3

\* A request at work goes on to another step of its work as it is.
LEMMA WorkGotoStep ==
    ASSUME IInv, NEW r \in Reqs, NEW s \in {"stamp", "create"}, Goto(r, s),
           req[r].pc \in Working,
           Rest, UNCHANGED <<row, fresh, stripe, asked>>,
           s = "create" => req[r].pc = "lookup" /\ CardShare > 0
    PROVE  IInv'
<1>u. /\ Unmoved /\ window' \in BOOLEAN /\ ops' \in Nat /\ fresh' \subseteq Reqs
      /\ UNCHANGED <<account, row, handed, asked>>
  BY Stripped DEF Rest
<1> DEFINE x == [req[r] EXCEPT !.pc = s]
<1>1. /\ req[r] \in Requests /\ req \in [Reqs -> Requests] /\ req[r].kind # "settle"
  BY WorkerKind DEF Working
<1>2. s \in Steps BY DEF Steps
<1>3. x \in Requests /\ x.pc = s /\ x.kind = req[r].kind /\ x.mine = req[r].mine
  BY <1>1, <1>2, GotoIs
<1>4. req' = [req EXCEPT ![r] = x] BY <1>1 DEF Goto
<1> HIDE DEF x
<1>5. Works(r, req[r]) BY DEF IInv, WorkOK
<1>6. Works(r, x) BY <1>3, <1>5 DEF Works
<1>7. row # NoRow \/ ~account BY DEF IInv, Untouched
<1>8. Moves(r, x) BY <1>u, <1>1, <1>3, <1>4, <1>6, <1>7 DEF Moves, Working
<1> QED BY <1>8, ReqStep

\* What can be saved over a claimed row that was not finished.
LEMMA SavedIs ==
    ASSUME NEW m \in Rows, NEW i \in Nat
    PROVE  /\ [m EXCEPT !.invoice = i] \in Rows
           /\ [m EXCEPT !.invoice = i].state = m.state /\ [m EXCEPT !.invoice = i].amount = m.amount
           /\ [m EXCEPT !.invoice = i].toRefund = m.toRefund
           /\ [m EXCEPT !.invoice = i].owed = m.owed
           /\ [m EXCEPT !.invoice = i].refunded = m.refunded
           /\ [m EXCEPT !.invoice = i].refund = m.refund
           /\ [m EXCEPT !.invoice = i].attempt = m.attempt
           /\ [m EXCEPT !.invoice = i].token = m.token
BY DEF Rows

\* The invoice is written on the claimed row.
LEMMA FreezeKeeps ==
    ASSUME RefundAssumed, IInv, NEW r \in Reqs, Rest, FreezeInvoice(r) PROVE IInv'
<1>w. req[r].pc \in Working /\ UNCHANGED <<stripe, asked>> BY DEF FreezeInvoice, Working
<1>u. Unmoved BY <1>w, Stripped
<1>1. CASE Goto(r, "stamp") /\ UNCHANGED <<row, fresh>> BY <1>1, <1>w, WorkGotoStep
<1>2. CASE Save(r, [row EXCEPT !.invoice = stripe.invoice], "stamp")
  <2> DEFINE new == [row EXCEPT !.invoice = stripe.invoice]
  <2>1. Holds(r) => Saves(r, new, "stamp")
    <3> SUFFICES ASSUME Holds(r) PROVE Saves(r, new, "stamp") OBVIOUS
    <3>1. row \in Rows /\ row.state = "pending" /\ Frozen(row) /\ row.refund = -1 /\ row.refunded = 0
      BY <1>w, HolderKnows
    <3>2. row.token = r BY DEF Holds
    <3>3. stripe.invoice \in Nat BY Stripped DEF Stripes
    <3>4. /\ new \in Rows /\ new.state = row.state /\ new.amount = row.amount
          /\ new.toRefund = row.toRefund /\ new.owed = row.owed /\ new.refunded = row.refunded
          /\ new.refund = row.refund /\ new.attempt = row.attempt /\ new.token = row.token
      BY <3>1, <3>3, SavedIs
    <3> HIDE DEF new
    <3>5. Frozen(new) BY <3>1, <3>4 DEF Frozen
    <3>6. row.attempt >= row.attempt BY <3>1 DEF Rows
    <3> QED BY <3>1, <3>2, <3>4, <3>5, <3>6 DEF Saves
  <2> HIDE DEF new
  <2>2. Save(r, new, "stamp") BY <1>2 DEF new
  <2> QED BY <2>1, <2>2, <1>w, <1>u, SaveStep
<1>3. CASE GiveBack(r) BY <1>3, <1>w, <1>u, GiveBackStep
<1> QED BY <1>1, <1>2, <1>3 DEF FreezeInvoice

\* The attempt is stamped on it.
LEMMA StampKeeps ==
    ASSUME RefundAssumed, IInv, NEW r \in Reqs, Rest, StampAttempt(r) PROVE IInv'
<1>w. req[r].pc \in Working /\ UNCHANGED asked BY DEF StampAttempt, Working
<1>u. Unmoved
  <2>1. stripe \in Stripes /\ stripe' = [stripe EXCEPT !.late = @ /\ ~Holds(r)]
    BY Stripped DEF StampAttempt
  <2>2. PICK b \in BOOLEAN : stripe' = [stripe EXCEPT !.late = b] BY <2>1 DEF Stripes
  <2> QED BY <2>1, <2>2 DEF Unmoved, Stripes
<1>1. Holds(r) => Saves(r, Released(row), "cancel")
  <2> SUFFICES ASSUME Holds(r) PROVE Saves(r, Released(row), "cancel") OBVIOUS
  <2>1. row \in Rows /\ row.state = "pending" /\ Frozen(row) /\ row.refund = -1 /\ row.refunded = 0
    BY <1>w, HolderKnows
  <2> HIDE DEF Holds
  <2>2. Frozen(Released(row)) BY <2>1, ReleasedIs DEF Frozen
  <2>3. row.attempt >= row.attempt BY <2>1 DEF Rows
  <2> QED BY <2>1, <2>2, <2>3, ReleasedIs DEF Saves
<1>2. Save(r, Released(row), "cancel") BY DEF StampAttempt
<1> QED BY <1>1, <1>2, <1>w, <1>u, SaveStep

\* The cancellation is asked for, and its answer may be lost.
LEMMA CancelsKeep ==
    ASSUME RefundAssumed, IInv, NEW r \in Reqs, Rest, Cancel(r) \/ CancelFails(r) PROVE IInv'
<1>r. /\ UNCHANGED <<account, row, handed, asked>> /\ window' \in BOOLEAN /\ fresh' \subseteq Reqs
      /\ ops' \in Nat /\ stripe \in Stripes
  BY Stripped DEF Rest, Cancel, CancelFails
<1>1. CASE Cancel(r)
  <2>1. Unmoved BY <1>1, <1>r DEF Cancel, Unmoved, Stripes
  <2>2. req[r].kind # "settle" BY <1>1, WorkerKind DEF Cancel
  <2>3. PICK s \in {"again", "settle"} : Goto(r, s) BY <1>1 DEF Cancel
  <2>4. s \in Steps /\ s \notin Working \cup {"reread", "write"} /\ s # "commit"
    BY DEF Steps, Working
  <2> QED BY <2>1, <2>2, <2>3, <2>4, <1>r, GotoStep
<1>2. CASE CancelFails(r)
  <2>1. PICK landed \in BOOLEAN : stripe' = [stripe EXCEPT !.ended = @ \/ landed, !.cancelSent = TRUE]
    BY <1>2 DEF CancelFails
  <2>2. PICK b \in BOOLEAN : stripe' = [stripe EXCEPT !.ended = b, !.cancelSent = TRUE]
    BY <2>1, <1>r DEF Stripes
  <2>3. Unmoved BY <2>2, <1>r DEF Unmoved, Stripes
  <2> QED BY <1>2, <2>3, <1>r, EndStep DEF CancelFails
<1> QED BY <1>1, <1>2

\* A deletion whose refund is done asks for the rest.
LEMMA AgainKeeps ==
    ASSUME RefundAssumed, IInv, NEW r \in Reqs, Rest, FinishPending(r) PROVE IInv'
<1>r. /\ UNCHANGED <<account, row, handed, asked>> /\ window' \in BOOLEAN /\ fresh' \subseteq Reqs
      /\ ops' \in Nat /\ Unmoved
  BY Stripped DEF Rest, FinishPending
<1>k. req[r].kind # "settle" /\ req[r] \in Requests /\ req \in [Reqs -> Requests]
  BY WorkerKind DEF FinishPending
<1>1. PICK p \in {"claim", "settle", "commit"} :
         /\ req' = [req EXCEPT ![r].retried = TRUE, ![r].pc = p]
         /\ p = "commit" => row # NoRow \/ ~req[r].open
  BY DEF FinishPending
<1> DEFINE x == [req[r] EXCEPT !.retried = TRUE, !.pc = p]
<1>2. x \in Requests /\ x.pc = p /\ x.kind = req[r].kind /\ x.open = req[r].open
  BY <1>k DEF Requests, Steps
<1>3. req' = [req EXCEPT ![r] = x] BY <1>1, <1>k
<1> HIDE DEF x
<1>4. Works(r, x) BY <1>2 DEF Works, Working
<1>5. Moves(r, x) BY <1>r, <1>k, <1>1, <1>2, <1>3, <1>4 DEF Moves, Working
<1> QED BY <1>5, ReqStep

\* The reads that only move a request.
LEMMA ReadsKeep ==
    ASSUME RefundAssumed, IInv, NEW r \in Reqs, Rest, RefuseDelete(r) \/ ReadOwed(r) PROVE IInv'
<1>r. /\ UNCHANGED <<account, row, handed, asked>> /\ window' \in BOOLEAN
      /\ ops' \in Nat /\ Unmoved /\ fresh' \subseteq Reqs
  BY Stripped DEF Rest, RefuseDelete, ReadOwed
<1>1. CASE End(r) BY <1>1, <1>r, EndStep
<1>2. CASE ReadOwed(r) /\ row # NoRow /\ Goto(r, "write")
  <2> DEFINE x == [req[r] EXCEPT !.pc = "write"]
  <2>1. req[r] \in Requests /\ req \in [Reqs -> Requests] /\ "write" \in Steps BY Stripped DEF Steps
  <2>2. x \in Requests /\ x.pc = "write" BY <2>1, GotoIs
  <2>3. req' = [req EXCEPT ![r] = x] BY <1>2, <2>1 DEF Goto
  <2>4. Paid /\ ~Open BY <1>2 DEF IInv, Settlers, ReadOwed
  <2> HIDE DEF x
  <2>5. Works(r, x) BY <2>2 DEF Works, Working
  <2>6. Moves(r, x) BY <1>2, <1>r, <2>2, <2>3, <2>4, <2>5 DEF Moves, Working
  <2> QED BY <2>6, ReqStep
<1> QED BY <1>1, <1>2 DEF RefuseDelete, ReadOwed

\* The amounts in Stripe are numbers, and what a claimed row says of them.
LEMMA Shares ==
    ASSUME IInv, NEW r \in Reqs, Holds(r), req[r].pc \in Working
    PROVE  /\ CardShare \in Nat /\ CardShare <= stripe.unused /\ stripe.unused \in Nat
           /\ row.toRefund # -1 => /\ row.toRefund = CardShare /\ row.amount = stripe.unused
                                   /\ row.owed = stripe.unused - CardShare
           /\ row.toRefund = -1 => stripe.notes = {} /\ stripe.sent = {}
           /\ row.amount \in {-1, stripe.unused}
           /\ stripe.notes # {} => CardShare > 0 /\ row.toRefund # -1 /\ row.attempt = FreeKey
           /\ \A n \in stripe.notes : n.amount = CardShare /\ n.key = FreeKey /\ n.key \in Nat
<1>1. stripe \in Stripes BY Stripped
<1>2. CardShare \in Nat /\ CardShare <= stripe.unused /\ stripe.unused \in Nat /\ FreeKey \in {0, 1}
  BY <1>1, ShareType
<1>3. Frozen(row) /\ row # NoRow /\ row.state = "pending" BY HolderKnows
<1>4. /\ row.toRefund = -1 => stripe.notes = {} /\ stripe.sent = {}
      /\ stripe.notes # {} => row.attempt = FreeKey
  BY <1>3 DEF IInv, RowOK
<1>5. \A n \in stripe.notes : n.amount = CardShare /\ n.key = FreeKey /\ CardShare > 0
  BY DEF IInv, NotesOK
<1> QED BY <1>2, <1>3, <1>4, <1>5 DEF Frozen

\* A refusal is final: all of it is owed.
LEMMA RefusedStep ==
    ASSUME RefundAssumed, IInv, NEW r \in Reqs, Rest, UNCHANGED <<stripe, asked>>,
           req[r].pc \in Working, NEW owed,
           Save(r, Finished(row, 0, owed, TRUE, -1), AfterSettle(r)),
           Holds(r) => /\ owed \in Nat /\ stripe.notes = {}
                       /\ row.amount # -1 => owed = stripe.unused
                       /\ stripe.refuses \/ row.toRefund = -1
    PROVE  IInv'
<1>1. Save(r, Final(row, "owed", 0, owed, -1), AfterSettle(r)) BY FinishedEq
<1>2. Holds(r) => Ends("owed", 0, owed, -1) BY DEF Ends
<1> QED BY <1>1, <1>2, EndRowStep

\* A note that is there is what was refunded.
LEMMA IssuedStep ==
    ASSUME RefundAssumed, IInv, NEW r \in Reqs, Rest, UNCHANGED <<stripe, asked>>,
           req[r].pc \in Working, NEW refunded, NEW owed, NEW key,
           Save(r, Finished(row, refunded, owed, FALSE, key), AfterSettle(r)),
           Holds(r) => /\ row.toRefund # -1 /\ refunded = CardShare
                       /\ owed = stripe.unused - CardShare
                       /\ key \in Nat \cup {-1} /\ (key # -1 => stripe.notes # {})
                       /\ CardShare > 0 => stripe.notes # {}
    PROVE  IInv'
<1> DEFINE st == IF owed > 0 THEN "owed" ELSE "done"
<1>1. Save(r, Final(row, st, refunded, owed, key), AfterSettle(r)) BY FinishedEq
<1>2. Holds(r) => Ends(st, refunded, owed, key)
  <2> SUFFICES ASSUME Holds(r) PROVE Ends(st, refunded, owed, key) OBVIOUS
  <2>1. /\ CardShare \in Nat /\ CardShare <= stripe.unused /\ stripe.unused \in Nat
        /\ row.amount = stripe.unused
        /\ stripe.notes # {} => CardShare > 0
    BY Shares
  <2>2. owed \in Nat /\ refunded \in Nat /\ refunded + owed = stripe.unused BY <2>1
  <2>3. refunded = IF stripe.notes = {} THEN 0 ELSE CardShare BY <2>1
  <2>4. st \in {"owed", "done"} /\ (st = "done" => owed = 0 /\ row.amount # -1) BY <2>1, <2>2
  <2> QED BY <2>2, <2>3, <2>4 DEF Ends
<1> HIDE DEF st
<1> QED BY <1>1, <1>2, EndRowStep

\* The unused period is worked out and frozen.
LEMMA ComputeKeeps ==
    ASSUME RefundAssumed, IInv, NEW r \in Reqs, Rest, Compute(r) PROVE IInv'
<1>w. req[r].pc \in Working /\ UNCHANGED <<stripe, asked>> /\ req[r].pc = "compute"
  BY DEF Compute, Working
<1>u. Unmoved BY <1>w, Stripped
<1>h. Holds(r) => row.amount = -1 /\ row.toRefund = -1 /\ stripe.notes = {}
  <2> SUFFICES ASSUME Holds(r) PROVE row.amount = -1 /\ row.toRefund = -1 /\ stripe.notes = {}
    OBVIOUS
  <2>1. req[r].mine.amount = -1 BY <1>w DEF IInv, WorkOK, Works
  <2>2. row.amount = -1 BY <1>w, <2>1, HolderKnows
  <2> QED BY <1>w, <2>2, Shares
<1>1. CASE GiveBack(r) BY <1>1, <1>w, <1>u, GiveBackStep
<1>2. CASE Save(r, Finished(row, 0, 0, TRUE, -1), AfterSettle(r))
  BY <1>2, <1>w, <1>h, RefusedStep
<1>3. ASSUME NEW s \in {"problem", "plan"},
             Save(r, [row EXCEPT !.amount = stripe.unused,
                                 !.invoice = IF @ = 0 THEN stripe.invoice ELSE @], s)
      PROVE  IInv'
  <2> DEFINE new == [row EXCEPT !.amount = stripe.unused,
                                !.invoice = IF @ = 0 THEN stripe.invoice ELSE @]
  <2>1. Holds(r) => Saves(r, new, s)
    <3> SUFFICES ASSUME Holds(r) PROVE Saves(r, new, s) OBVIOUS
    <3>1. row \in Rows /\ row.state = "pending" /\ Frozen(row) /\ row.refund = -1 /\ row.refunded = 0
      BY <1>w, HolderKnows
    <3>2. row.token = r BY DEF Holds
    <3>3. stripe.invoice \in Nat /\ stripe.unused \in Nat BY Stripped DEF Stripes
    <3>4. /\ new \in Rows /\ new.state = row.state /\ new.amount = stripe.unused
          /\ new.toRefund = row.toRefund /\ new.refunded = row.refunded
          /\ new.refund = row.refund /\ new.attempt = row.attempt /\ new.token = row.token
      BY <3>1, <3>3 DEF Rows
    <3> HIDE DEF new
    <3>5. Frozen(new) BY <1>h, <3>1, <3>4 DEF Frozen
    <3>6. row.attempt >= row.attempt BY <3>1 DEF Rows
    <3> QED BY <1>h, <3>1, <3>2, <3>4, <3>5, <3>6 DEF Saves
  <2> HIDE DEF new
  <2>2. Save(r, new, s) BY <1>3 DEF new
  <2> QED BY <2>1, <2>2, <1>w, <1>u, SaveStep
<1> QED BY <1>1, <1>2, <1>3 DEF Compute

\* A renewal or a late cancellation is recorded as owed.
LEMMA ProblemKeeps ==
    ASSUME RefundAssumed, IInv, NEW r \in Reqs, Rest, RecordProblem(r) PROVE IInv'
<1>w. req[r].pc \in Working /\ UNCHANGED <<stripe, asked>> /\ req[r].pc = "problem"
  BY DEF RecordProblem, Working
<1>h. Holds(r) => /\ req[r].mine.amount = stripe.unused /\ stripe.unused \in Nat
                  /\ row.toRefund = -1 /\ stripe.notes = {}
  <2> SUFFICES ASSUME Holds(r) PROVE /\ req[r].mine.amount = stripe.unused /\ stripe.unused \in Nat
                                     /\ row.toRefund = -1 /\ stripe.notes = {}
    OBVIOUS
  <2>1. req[r].mine.amount = stripe.unused /\ req[r].mine.toRefund = -1
    BY <1>w DEF IInv, WorkOK, Works
  <2>2. row.toRefund = -1 BY <1>w, <2>1, HolderKnows
  <2> QED BY <1>w, <2>1, <2>2, Shares
<1>1. Save(r, Finished(row, 0, req[r].mine.amount, TRUE, -1), AfterSettle(r)) BY DEF RecordProblem
<1> QED BY <1>1, <1>w, <1>h, RefusedStep

\* The amount is split between the card and the owner.
LEMMA PlanKeeps ==
    ASSUME RefundAssumed, IInv, NEW r \in Reqs, Rest, Plan(r) PROVE IInv'
<1>w. req[r].pc \in Working /\ UNCHANGED <<stripe, asked>> /\ req[r].pc = "plan"
  BY DEF Plan, Working
<1>u. Unmoved BY <1>w, Stripped
<1>h. Holds(r) => /\ req[r].mine.amount = stripe.unused /\ stripe.unused \in Nat
                  /\ row.toRefund = -1 /\ stripe.notes = {} /\ row.amount = stripe.unused
  <2> SUFFICES ASSUME Holds(r) PROVE /\ req[r].mine.amount = stripe.unused /\ stripe.unused \in Nat
                                     /\ row.toRefund = -1 /\ stripe.notes = {}
                                     /\ row.amount = stripe.unused
    OBVIOUS
  <2>1. req[r].mine.amount = stripe.unused /\ req[r].mine.toRefund = -1
    BY <1>w DEF IInv, WorkOK, Works
  <2>2. row.toRefund = -1 /\ row.amount = stripe.unused BY <1>w, <2>1, HolderKnows
  <2> QED BY <1>w, <2>1, <2>2, Shares
<1>1. CASE GiveBack(r) BY <1>1, <1>w, <1>u, GiveBackStep
<1>2. CASE Save(r, Finished(row, 0, req[r].mine.amount, TRUE, -1), AfterSettle(r))
  BY <1>2, <1>w, <1>h, RefusedStep
<1>3. ASSUME NEW n \in stripe.notes, FinishFound(r, n) PROVE IInv'
  <2>1. ~Holds(r) BY <1>h, <1>3
  <2>2. Save(r, Finished(row, n.amount, AtLeast0(req[r].mine.amount - n.amount - stripe.byHand),
                         FALSE, n.key), AfterSettle(r))
    BY <1>3 DEF FinishFound
  <2> QED BY <2>1, <2>2, <1>w, IssuedStep
<1>4. ASSUME NEW split, split = Split(req[r].mine.amount),
             Save(r, [row EXCEPT !.toRefund = split.send, !.owed = split.owed], "lookup")
      PROVE  IInv'
  <2> DEFINE new == [row EXCEPT !.toRefund = split.send, !.owed = split.owed]
  <2>1. Holds(r) => Saves(r, new, "lookup")
    <3> SUFFICES ASSUME Holds(r) PROVE Saves(r, new, "lookup") OBVIOUS
    <3>1. /\ row \in Rows /\ row.state = "pending" /\ Frozen(row) /\ row.refund = -1
          /\ row.refunded = 0 /\ stripe.byHand = 0
      BY <1>w, HolderKnows
    <3>2. row.token = r BY DEF Holds
    <3>3. stripe \in Stripes /\ CardShare \in Nat /\ CardShare <= stripe.unused
      BY Stripped, ShareType
    <3>4. split.send = CardShare /\ split.owed = stripe.unused - CardShare
      <4>1. Returned = 0 BY <1>h, <3>3, Sums DEF IInv, SumsHold
      <4> DEFINE a == req[r].mine.amount
      <4>2. a = stripe.unused /\ a \in Nat /\ stripe.card \in Nat BY <1>h, <3>3 DEF Stripes
      <4> HIDE DEF a
      <4>3. AtLeast0(a - Returned - stripe.byHand) = a BY <4>1, <4>2, <3>1 DEF AtLeast0
      <4>4. AtLeast0(Least(a, stripe.card - Returned - stripe.byHand)) = CardShare
        BY <4>1, <4>2, <3>1 DEF AtLeast0, Least, CardShare
      <4>5. split = [send |-> CardShare, owed |-> a - CardShare]
        BY <1>4, <4>3, <4>4 DEF Split, a
      <4> QED BY <4>2, <4>5
    <3>5. /\ new \in Rows /\ new.state = row.state /\ new.amount = row.amount
          /\ new.toRefund = CardShare /\ new.owed = stripe.unused - CardShare
          /\ new.refunded = row.refunded
          /\ new.refund = row.refund /\ new.attempt = row.attempt /\ new.token = row.token
      <4>1. split.send \in Nat /\ split.owed \in Nat BY <1>h, <3>3, <3>4
      <4>2. new \in Rows BY <3>1, <4>1 DEF Rows
      <4> QED BY <3>1, <3>4, <4>2 DEF Rows
    <3> HIDE DEF new
    <3>6. Frozen(new) BY <1>h, <3>1, <3>5 DEF Frozen
    <3>7. row.attempt >= row.attempt BY <3>1 DEF Rows
    <3> QED BY <1>h, <3>1, <3>2, <3>3, <3>5, <3>6, <3>7 DEF Saves
  <2> HIDE DEF new
  <2>2. Save(r, new, "lookup") BY <1>4 DEF new
  <2> QED BY <2>1, <2>2, <1>w, <1>u, SaveStep
<1> QED BY <1>1, <1>2, <1>3, <1>4 DEF Plan

\* A note made before is looked for.
LEMMA LookupKeeps ==
    ASSUME RefundAssumed, IInv, NEW r \in Reqs, Rest, Lookup(r) PROVE IInv'
<1>w. req[r].pc \in Working /\ UNCHANGED <<stripe, asked>> /\ req[r].pc = "lookup"
  BY DEF Lookup, Working
<1>u. Unmoved BY <1>w, Stripped
<1>m. req[r].mine.toRefund = CardShare /\ CardShare \in Nat
  BY <1>w, Stripped, ShareType DEF IInv, WorkOK, Works, Frozen
<1>h. Holds(r) => /\ row.toRefund # -1 /\ req[r].mine.owed = stripe.unused - CardShare
                  /\ \A n \in stripe.notes : n.key \in Nat
                  /\ stripe.notes # {} => CardShare > 0
  BY <1>w, <1>m, Shares, HolderKnows
<1>1. CASE GiveBack(r) BY <1>1, <1>w, <1>u, GiveBackStep
<1>2. CASE ~(req[r].mine.toRefund > 0) /\ FinishIssued(r, -1)
  <2>1. Save(r, Finished(row, req[r].mine.toRefund, req[r].mine.owed, FALSE, -1), AfterSettle(r))
    BY <1>2 DEF FinishIssued
  <2>2. ~(CardShare > 0) BY <1>2, <1>m
  <2> QED BY <1>w, <1>m, <1>h, <2>1, <2>2, IssuedStep
<1>3. ASSUME NEW n \in stripe.notes, FinishIssued(r, n.key) PROVE IInv'
  <2>1. Save(r, Finished(row, req[r].mine.toRefund, req[r].mine.owed, FALSE, n.key), AfterSettle(r))
    BY <1>3 DEF FinishIssued
  <2> QED BY <1>w, <1>m, <1>h, <2>1, IssuedStep
<1>4. CASE req[r].mine.toRefund > 0 /\ Goto(r, "create") /\ UNCHANGED <<row, fresh>>
  BY <1>4, <1>w, <1>m, WorkGotoStep
<1> QED BY <1>1, <1>2, <1>3, <1>4 DEF Lookup

\* The admin looks for one on a stuck row.
LEMMA FindKeeps ==
    ASSUME RefundAssumed, IInv, NEW r \in Reqs, Rest, FindNote(r) PROVE IInv'
<1>w. req[r].pc \in Working /\ UNCHANGED <<stripe, asked>> /\ req[r].pc = "find"
  BY DEF FindNote, Working
<1>u. Unmoved BY <1>w, Stripped
<1>1. CASE GiveBack(r) BY <1>1, <1>w, <1>u, GiveBackStep
<1>2. ASSUME req[r].mine.toRefund > 0, NEW n \in stripe.notes, FinishFound(r, n) PROVE IInv'
  <2> DEFINE owed == AtLeast0(req[r].mine.amount - n.amount - stripe.byHand)
  <2>1. Save(r, Finished(row, n.amount, owed, FALSE, n.key), AfterSettle(r))
    BY <1>2 DEF FinishFound
  <2>2. Holds(r) => /\ row.toRefund # -1 /\ n.amount = CardShare /\ owed = stripe.unused - CardShare
                    /\ n.key \in Nat
    <3> SUFFICES ASSUME Holds(r)
                 PROVE  /\ row.toRefund # -1 /\ n.amount = CardShare
                        /\ owed = stripe.unused - CardShare /\ n.key \in Nat
      OBVIOUS
    <3>1. /\ row.toRefund # -1 /\ n.amount = CardShare /\ n.key \in Nat
          /\ CardShare \in Nat /\ stripe.unused \in Nat /\ CardShare <= stripe.unused
          /\ row.amount = stripe.unused
      BY <1>w, <1>2, Shares
    <3>2. stripe.byHand = 0 /\ req[r].mine.amount = stripe.unused BY <1>w, <3>1, HolderKnows
    <3>3. req[r].mine.amount - n.amount - stripe.byHand = stripe.unused - CardShare BY <3>1, <3>2
    <3>4. owed = stripe.unused - CardShare BY <3>1, <3>3 DEF AtLeast0
    <3> QED BY <3>1, <3>4
  <2> HIDE DEF owed
  <2> QED BY <1>w, <2>1, <2>2, IssuedStep
<1>3. CASE Save(r, Released(row), AfterSettle(r))
  <2>k. AfterSettle(r) \in {"commit", "idle"} BY <1>w, WorkerKind
  <2>1. Holds(r) => Saves(r, Released(row), AfterSettle(r))
    <3> SUFFICES ASSUME Holds(r) PROVE Saves(r, Released(row), AfterSettle(r)) OBVIOUS
    <3>1. row \in Rows /\ row.state = "pending" /\ Frozen(row) /\ row.refund = -1 /\ row.refunded = 0
      BY <1>w, HolderKnows
    <3> HIDE DEF Holds
    <3>2. Frozen(Released(row)) BY <3>1, ReleasedIs DEF Frozen
    <3>3. row.attempt >= row.attempt BY <3>1 DEF Rows
    <3> QED BY <2>k, <3>1, <3>2, <3>3, ReleasedIs DEF Saves
  <2> QED BY <1>3, <2>1, <1>w, <1>u, SaveStep
<1> QED BY <1>1, <1>2, <1>3 DEF FindNote

\* A call for the note takes effect at Stripe.
Lands(key) ==
    /\ stripe' \in Stripes
    /\ stripe'.unused = stripe.unused /\ stripe'.card = stripe.card
    /\ stripe'.burnt = stripe.burnt /\ stripe'.byHand = stripe.byHand
    /\ stripe'.sent \subseteq stripe.sent /\ stripe'.refuses = stripe.refuses
    /\ stripe'.notes = stripe.notes \cup {[key |-> key, amount |-> CardShare, refund |-> "made"]}
    /\ NoteOf(key) = {} /\ key \in {0, FreeKey} /\ key \notin stripe.burnt /\ ~stripe.refuses
    /\ CardShare > 0 /\ Sendable
    /\ row # NoRow => key <= row.attempt /\ row.toRefund # -1
    /\ row # NoRow \/ ~account

\* It is the only one, and the row is still pending.
LEMMA LandsOnce ==
    ASSUME IInv, NEW key, Lands(key)
    PROVE  /\ key = FreeKey /\ stripe.notes = {} /\ Open /\ row.attempt = FreeKey
           /\ row.toRefund # -1 /\ stripe.byHand = 0 /\ handed = 0
           /\ NotesOK' /\ Kept' = stripe'.notes /\ stripe'.notes # {}
           /\ CardShare' = CardShare /\ FreeKey' = FreeKey
<1> USE DEF Lands
<1>1. stripe \in Stripes BY Stripped
<1>2. FreeKey \in {0, 1} /\ key = FreeKey BY <1>1, ShareType
<1>3. stripe.notes = {} BY <1>2 DEF IInv, NotesOK, NoteOf
<1>4. Open BY <1>3 DEF IInv, Quiet
<1>5. row # NoRow /\ row \in Rows BY <1>4, Stripped DEF Open
<1>6. row.attempt = FreeKey
  <2>1. row.attempt \in {0, FreeKey} BY <1>5 DEF IInv, RowOK, Frozen
  <2> QED BY <1>2, <1>5, <2>1
<1>7. CardShare' = CardShare /\ FreeKey' = FreeKey BY DEF CardShare, FreeKey
<1> DEFINE note == [key |-> key, amount |-> CardShare, refund |-> "made"]
<1>8. stripe'.notes = {note} BY <1>3
<1>9. note.key = key /\ note.amount = CardShare /\ note.refund = "made" OBVIOUS
<1> HIDE DEF note
<1>10. NotesOK' BY <1>2, <1>7, <1>8, <1>9 DEF IInv, NotesOK, OneNote
<1>11. Kept' = stripe'.notes BY <1>8, <1>9 DEF Kept
<1>12. stripe.byHand = 0 /\ handed = 0 BY <1>4 DEF IInv, PendingOK
<1> QED BY <1>2, <1>3, <1>4, <1>5, <1>6, <1>7, <1>8, <1>10, <1>11, <1>12

\* A call that takes effect keeps the invariant, whoever sent it.
LEMMA LandStep ==
    ASSUME IInv, NEW key, Lands(key), UNCHANGED <<account, window, row, fresh, handed, asked,
           ops>>,
           req' \in [Reqs -> Requests], \A q \in Reqs : req'[q] \in {req[q], Idle}
    PROVE  IInv'
<1>1. /\ key = FreeKey /\ Open /\ row.attempt = FreeKey /\ row.toRefund # -1
      /\ stripe.byHand = 0 /\ handed = 0
      /\ NotesOK' /\ Kept' = stripe'.notes /\ stripe'.notes # {}
      /\ CardShare' = CardShare /\ FreeKey' = FreeKey
  BY LandsOnce
<1>2. row # NoRow /\ Open' BY <1>1 DEF Open
<1>3. Typed' BY DEF IInv, Typed, TypeOK, Lands, Stripes
<1>f. \A m : Frozen(m)' = Frozen(m) BY <1>1 DEF Frozen, Lands
<1>i. Idle.pc = "idle" /\ Idle.kind = "withdraw" BY DEF Idle
<1>4. RowOK' BY <1>1, <1>2, <1>f DEF IInv, RowOK, Lands
<1>5. PendingOK' BY <1>1, <1>2 DEF IInv, PendingOK, Lands
<1>6. ASSUME NEW q \in Reqs PROVE Works(q, req[q])'
  <2>1. CASE req'[q] = Idle BY <2>1, <1>i DEF Works, Working
  <2>2. CASE req'[q] = req[q]
    <3>1. PICK y : y = req[q] OBVIOUS
    <3>2. Works(q, y) BY <3>1 DEF IInv, WorkOK
    <3>3. Works(q, y)' BY <3>2, <1>1, <1>f DEF Works, Holds, Lands
    <3> QED BY <2>2, <3>1, <3>3 DEF Works, Holds
  <2> QED BY <2>1, <2>2
<1>7. Quiet' BY <1>2 DEF Quiet
<1>8. Untouched' /\ Money' /\ Commits' /\ NothingForfeited'
  BY <1>2 DEF Untouched, Money, Commits, NothingForfeited, Open
<1>9. Settlers'
  <2>1. \A q \in Reqs : req[q].pc \notin {"reread", "write"} BY <1>1 DEF IInv, Settlers
  <2> QED BY <2>1, <1>i DEF IInv, Settlers
<1>10. NeverTwice'
  <2>1. SumsHold' BY <1>1, SumsNext DEF Lands
  <2>2. Returned' \in {0, CardShare} BY <2>1, <1>1 DEF SumsHold
  <2>3. CardShare \in Nat /\ CardShare <= stripe.unused /\ stripe.unused \in Nat
    BY Stripped, ShareType
  <2> QED BY <2>2, <2>3, <1>1 DEF NeverTwice, Lands
<1> QED BY <1>1, <1>3, <1>4, <1>5, <1>6, <1>7, <1>8, <1>9, <1>10 DEF IInv, WorkOK

\* What a request about to create the note knows, holding the row or not.
LEMMA CreatorKnows ==
    ASSUME IInv, NEW r \in Reqs, req[r].pc = "create"
    PROVE  /\ req[r].mine.toRefund = CardShare /\ CardShare \in Nat /\ CardShare > 0
           /\ req[r].mine.attempt \in {0, FreeKey} /\ FreeKey \in {0, 1} /\ Sendable
           /\ row # NoRow => req[r].mine.attempt <= row.attempt /\ row.toRefund # -1
           /\ row # NoRow \/ ~account
           /\ req[r].mine.owed = stripe.unused - CardShare /\ stripe.unused \in Nat
           /\ CardShare <= stripe.unused
<1>1. CardShare \in Nat /\ FreeKey \in {0, 1} /\ stripe.unused \in Nat /\ CardShare <= stripe.unused
  BY Stripped, ShareType
<1>2. /\ req[r].mine.toRefund = CardShare /\ CardShare > 0 /\ req[r].mine.attempt \in {0, FreeKey}
      /\ row # NoRow => req[r].mine.attempt <= row.attempt /\ row.toRefund # -1
      /\ req[r].mine.owed = stripe.unused - CardShare
  BY <1>1 DEF IInv, WorkOK, Works, Working, Frozen
<1>3. row # NoRow \/ ~account BY DEF IInv, Untouched, Working
<1> QED BY <1>1, <1>2, <1>3 DEF Sendable

\* What Stripe holds after it made a note.
LEMMA AddedIs ==
    ASSUME NEW s \in Stripes, NEW key \in Nat, NEW a \in Nat
    PROVE  /\ AddNote(s, key, a) \in Stripes
           /\ AddNote(s, key, a).notes = s.notes \cup {[key |-> key, amount |-> a, refund |-> "made"]}
           /\ AddNote(s, key, a).sent = s.sent /\ AddNote(s, key, a).refuses = s.refuses
           /\ AddNote(s, key, a).unused = s.unused /\ AddNote(s, key, a).card = s.card
           /\ AddNote(s, key, a).burnt = s.burnt /\ AddNote(s, key, a).byHand = s.byHand
BY DEF AddNote, Stripes, Notes

\* The note is made, replayed, refused, or its answer is lost.
LEMMA CreateKeeps ==
    ASSUME RefundAssumed, IInv, NEW r \in Reqs, Rest, CreateNote(r) PROVE IInv'
<1>w. req[r].pc \in Working /\ UNCHANGED asked /\ req[r].pc = "create" BY DEF CreateNote, Working
<1> DEFINE mine == req[r].mine
           key == NoteKey(mine)
<1>c. /\ mine.toRefund = CardShare /\ CardShare \in Nat /\ CardShare > 0 /\ key \in {0, FreeKey}
      /\ FreeKey \in {0, 1} /\ Sendable /\ key = mine.attempt /\ key \in Nat
      /\ row # NoRow => key <= row.attempt /\ row.toRefund # -1
      /\ row # NoRow \/ ~account
      /\ mine.owed = stripe.unused - CardShare /\ stripe.unused \in Nat
      /\ CardShare <= stripe.unused
  BY <1>w, CreatorKnows DEF NoteKey
<1>s. /\ stripe \in Stripes /\ req \in [Reqs -> Requests] /\ req[r] \in Requests
      /\ Idle \in Requests
      /\ fresh \subseteq Reqs /\ window \in BOOLEAN /\ ops \in Nat
  BY Stripped
<1>k. req[r].kind # "settle" /\ AfterSettle(r) \in {"commit", "idle"} BY <1>w, WorkerKind
<1> HIDE DEF key, mine
<1>1. CASE /\ Makes(key, mine.toRefund) /\ stripe' = AddNote(stripe, key, mine.toRefund)
           /\ FinishIssued(r, key)
  <2> DEFINE s == AddNote(stripe, key, CardShare)
  <2>a. /\ s \in Stripes
        /\ s.notes = stripe.notes \cup {[key |-> key, amount |-> CardShare, refund |-> "made"]}
        /\ s.sent = stripe.sent /\ s.refuses = stripe.refuses
        /\ s.unused = stripe.unused /\ s.card = stripe.card
        /\ s.burnt = stripe.burnt /\ s.byHand = stripe.byHand
    BY <1>c, <1>s DEF AddNote, Stripes, Notes
  <2>b. stripe' = s BY <1>1, <1>c
  <2> HIDE DEF s
  <2>1. Lands(key) BY <1>1, <1>c, <2>a, <2>b DEF Lands, Makes
  <2>2. CASE ~Holds(r)
    <3>1. End(r) /\ UNCHANGED <<row, fresh>> BY <1>1, <2>2 DEF FinishIssued, Save
    <3>2. req' \in [Reqs -> Requests] /\ \A q \in Reqs : req'[q] \in {req[q], Idle}
      BY <3>1, <1>s DEF End
    <3> QED BY <2>1, <3>1, <3>2, <1>w, LandStep DEF Rest
  <2>3. CASE Holds(r)
    <3> USE <2>3
    <3> DEFINE st == IF mine.owed > 0 THEN "owed" ELSE "done"
               new == Final(row, st, mine.toRefund, mine.owed, key)
               x == IF AfterSettle(r) = "idle" THEN Idle
                    ELSE [req[r] EXCEPT !.pc = AfterSettle(r), !.mine = new]
    <3>1. Save(r, new, AfterSettle(r)) BY <1>1, FinishedEq DEF FinishIssued, mine
    <3>2. row' = new /\ fresh' = {} /\ req' = [req EXCEPT ![r] = x] BY <3>1, <1>s DEF Save, Put
    <3>3. row \in Rows /\ row # NoRow /\ row.amount = mine.amount BY <1>w, HolderKnows DEF mine
    <3>4. row.amount = stripe.unused BY <1>w, <1>c, <3>3, Shares
    <3>5. mine.owed \in Nat /\ st \in {"owed", "done"} /\ (st = "done" => mine.owed = 0)
          /\ mine.toRefund + mine.owed = stripe.unused
      BY <1>c
    <3>6. new \in Rows
      <4>1. Released(row) \in Rows BY <3>3, ReleasedIs
      <4> HIDE DEF st
      <4> QED BY <1>c, <3>5, <4>1 DEF Final, Rows, FINAL
    <3> HIDE DEF new, st
    <3>7. x \in Requests /\ x.pc \in {"idle", "commit"} /\ x.kind # "settle"
      <4>1. CASE AfterSettle(r) = "idle" BY <4>1, <1>s DEF Idle
      <4>2. CASE AfterSettle(r) = "commit" BY <4>2, <1>s, <1>k, <3>6 DEF Requests, Steps
      <4> QED BY <1>k, <4>1, <4>2
    <3> HIDE DEF x
    <3>8. Noted /\ row.attempt = FreeKey /\ row.toRefund # -1 /\ stripe'.notes # {}
      <4>1. stripe'.sent = stripe.sent BY <2>a, <2>b
      <4>2. stripe.notes \subseteq stripe'.notes BY <2>1 DEF Lands
      <4> QED BY <2>1, <4>1, <4>2, LandsOnce DEF Noted, Lands
    <3>9. Finishes(r, x, st, mine.toRefund, mine.owed, key)
      BY <1>w, <1>c, <3>2, <3>4, <3>5, <3>7, <3>8 DEF Finishes, Rest, new
    <3> QED BY <3>9, FinishStep
  <2> QED BY <2>2, <2>3
<1>2. CASE NoteOf(key) # {} /\ FinishIssued(r, key) /\ UNCHANGED stripe
  <2>1. Save(r, Finished(row, mine.toRefund, mine.owed, FALSE, key), AfterSettle(r))
    BY <1>2 DEF FinishIssued, mine
  <2>2. stripe.notes # {} BY <1>2 DEF NoteOf
  <2>3. Holds(r) => row.toRefund # -1 BY <1>c DEF Holds
  <2> QED BY <1>2, <1>w, <1>c, <2>1, <2>2, <2>3, IssuedStep
<1>3. CASE /\ stripe' = [stripe EXCEPT !.sent = @ \cup {[key |-> key, amount |-> mine.toRefund]}]
           /\ GiveBack(r)
  <2> DEFINE c == [key |-> key, amount |-> mine.toRefund]
  <2>1. c.key = key /\ c.amount = CardShare /\ c \in [key : Nat, amount : Nat] BY <1>c
  <2>2. Sent(c) BY <2>1, <1>c DEF Sent
  <2>3. stripe' = [stripe EXCEPT !.sent = @ \cup {c}] BY <1>3
  <2> HIDE DEF c
  <2>4. Unmoved BY <2>1, <2>2, <2>3, <1>s DEF Unmoved, Stripes
  <2> QED BY <1>3, <2>4, <1>w, GiveBackStep
<1>4. CASE /\ NoteOf(key) = {} /\ stripe.refuses /\ UNCHANGED stripe
           /\ Save(r, Finished(row, 0, mine.toRefund + mine.owed, TRUE, -1), AfterSettle(r))
  <2>1. Holds(r) => stripe.notes = {}
    <3> SUFFICES ASSUME Holds(r), stripe.notes # {} PROVE FALSE OBVIOUS
    <3>1. row.attempt = FreeKey /\ \A n \in stripe.notes : n.key = FreeKey BY <1>w, Shares
    <3>2. key = FreeKey BY <1>w, <1>c, <3>1, HolderKnows DEF mine
    <3> QED BY <1>4, <3>1, <3>2 DEF NoteOf
  <2>2. mine.toRefund + mine.owed = stripe.unused BY <1>c
  <2> QED BY <1>4, <1>w, <1>c, <2>1, <2>2, RefusedStep
<1> QED BY <1>1, <1>2, <1>3, <1>4 DEF CreateNote, key, mine

\* A burnt key is given up for the next.
LEMMA NextKeyKeeps ==
    ASSUME RefundAssumed, IInv, NEW r \in Reqs, Rest, NextKey(r) PROVE IInv'
<1>w. req[r].pc \in Working /\ UNCHANGED <<stripe, asked>> /\ req[r].pc = "create"
  BY DEF NextKey, Working
<1>u. /\ Unmoved /\ window' \in BOOLEAN /\ ops' \in Nat /\ fresh \subseteq Reqs
      /\ UNCHANGED <<account, window, handed, asked, ops>> /\ asked' \in BOOLEAN
      /\ req \in [Reqs -> Requests] /\ req[r] \in Requests /\ stripe \in Stripes
  BY <1>w, Stripped DEF Rest
<1>1. CASE GiveBack(r) BY <1>1, <1>w, <1>u, GiveBackStep
<1>2. CASE End(r) /\ UNCHANGED <<row, fresh>> BY <1>2, <1>u, EndStep
<1>3. ASSUME NEW new, new = [row EXCEPT !.attempt = req[r].mine.attempt + 1], Holds(r), Put(new),
             req' = [req EXCEPT ![r].pc = "lookup", ![r].mine = new, ![r].rekeyed = TRUE]
      PROVE  IInv'
  <2>1. /\ row \in Rows /\ row.state = "pending" /\ Frozen(row) /\ row.refund = -1
        /\ row.refunded = 0 /\ Open /\ row.attempt = req[r].mine.attempt /\ row.token = r
    BY <1>3, <1>w, HolderKnows DEF Holds
  <2>2. row.attempt = 0 /\ FreeKey = 1 /\ row.toRefund # -1
    <3>1. req[r].mine.attempt \in stripe.burnt BY DEF NextKey, NoteKey
    <3>2. row # NoRow BY <2>1 DEF Open
    <3> QED BY <1>w, <1>u, <2>1, <3>1, <3>2, CreatorKnows DEF Stripes, FreeKey
  <2>3. /\ new \in Rows /\ new.state = row.state /\ new.amount = row.amount /\ new.attempt = 1
        /\ new.toRefund = row.toRefund /\ new.owed = row.owed /\ new.refunded = row.refunded
        /\ new.refund = row.refund /\ new.token = r
    BY <1>3, <2>1, <2>2 DEF Rows
  <2>4. Frozen(new) BY <2>1, <2>2, <2>3 DEF Frozen
  <2> DEFINE x == [req[r] EXCEPT !.pc = "lookup", !.mine = new, !.rekeyed = TRUE]
  <2>5. x \in Requests /\ x.pc = "lookup" /\ x.mine = new /\ x.kind = req[r].kind
    BY <1>u, <2>3 DEF Requests, Steps
  <2>6. req' = [req EXCEPT ![r] = x] BY <1>3, <1>u
  <2> HIDE DEF x
  <2>7. req[r].kind # "settle" BY <1>w, WorkerKind
  <2>8. new.attempt >= row.attempt BY <2>2, <2>3
  <2>9. Writes(r, x, new)
    BY <1>3, <1>u, <2>1, <2>2, <2>3, <2>4, <2>5, <2>6, <2>7, <2>8 DEF Writes, Put
  <2> QED BY <2>9, WriteStep
<1> QED BY <1>1, <1>2, <1>3 DEF NextKey

\* What a request that ends, or goes on with nothing in hand, leaves behind.
LEMMA EndedIs ==
    ASSUME IInv, NEW r \in Reqs, End(r)
    PROVE  /\ req' \in [Reqs -> Requests]
           /\ \A q \in Reqs : req'[q] \in {req[q], Idle}
           /\ Idle.pc = "idle" /\ Idle.kind = "withdraw"
<1>1. req \in [Reqs -> Requests] /\ Idle \in Requests BY Stripped
<1>2. Idle.pc = "idle" /\ Idle.kind = "withdraw" BY DEF Idle
<1> QED BY <1>1, <1>2 DEF End

\* A final row is changed, settled or gone, and Stripe is as it was.
Closes ==
    /\ req' \in [Reqs -> Requests] /\ \A q \in Reqs : req'[q] \in {req[q], Idle}
    /\ UNCHANGED <<window, stripe, ops>> /\ account' \in BOOLEAN /\ asked' \in BOOLEAN
    /\ fresh' \subseteq Reqs /\ handed' \in Nat
    /\ row' = NoRow => ~account'
    /\ row' # NoRow => /\ row # NoRow /\ row' \in Rows
                       /\ row'.amount = row.amount /\ row'.toRefund = row.toRefund
                       /\ row'.attempt = row.attempt /\ row'.refunded = row.refunded
                       /\ row'.refund = row.refund
                       /\ row'.state # "pending" => row'.token = NoReq
    /\ \/ row' = row /\ handed' = handed /\ (row = NoRow => Paid \/ ~asked')
       \/ row # NoRow /\ row.state # "pending" /\ row' = NoRow /\ Paid
       \/ row # NoRow /\ row.state # "pending" /\ row'.state = "settled" /\ handed' = 0 /\ Paid

\* Such a step keeps the invariant.
LEMMA CloseStep == ASSUME RefundAssumed, IInv, Closes PROVE IInv'
<1> USE DEF Closes
<1>s. stripe \in Stripes /\ row \in Rows \cup {NoRow} BY Stripped
<1>i. Idle.pc = "idle" /\ Idle.kind = "withdraw" BY DEF Idle
<1>n. NoReq \notin Reqs BY DEF RefundAssumed
<1>u. /\ CardShare' = CardShare /\ FreeKey' = FreeKey /\ Kept' = Kept /\ Paid' = Paid
      /\ NotesOK' = NotesOK /\ Returned' = Returned /\ \A m : Frozen(m)' = Frozen(m)
  BY DEF CardShare, FreeKey, Kept, Paid, NotesOK, OneNote, Returned, Frozen
<1>o. Open' = Open BY DEF Open
<1>1. Typed' BY <1>s DEF IInv, Typed, TypeOK
<1>2. RowOK'
  <2> SUFFICES ASSUME row' # NoRow PROVE RowOK' BY DEF RowOK
  <2>1. Frozen(row) BY DEF IInv, RowOK
  <2>2. Frozen(row') BY <2>1, <1>o DEF Frozen, Open
  <2>3. Frozen(row)' BY <2>2, <1>u DEF Frozen
  <2> QED BY <2>3, <1>u DEF IInv, RowOK
<1>3. PendingOK'
  <2> SUFFICES ASSUME Open' PROVE PendingOK' BY DEF PendingOK
  <2>1. row' = row /\ handed' = handed BY <1>o DEF Open
  <2> QED BY <2>1, <1>o, <1>u DEF IInv, PendingOK
<1>4. NotesOK' BY <1>u DEF IInv
<1>5. ASSUME NEW q \in Reqs PROVE Works(q, req[q])'
  <2>1. CASE req'[q] = Idle BY <2>1, <1>i DEF Works, Working
  <2>2. CASE req'[q] = req[q]
    <3>1. PICK y : y = req[q] OBVIOUS
    <3>2. Works(q, y) BY <3>1 DEF IInv, WorkOK
    <3>3. Frozen(y.mine)' = Frozen(y.mine) BY <1>u
    <3>4. Works(q, y)' BY <3>2, <3>3, <1>u, <1>n DEF Works, Holds
    <3> QED BY <2>2, <3>1, <3>4 DEF Works, Holds
  <2> QED BY <2>1, <2>2
<1>6. Quiet'
  <2>1. Sendable' => Sendable BY <1>i DEF Sendable
  <2> QED BY <2>1, <1>o, <1>u DEF IInv, Quiet
<1>7. Untouched'
  <2> SUFFICES ASSUME row' = NoRow, account' PROVE FALSE BY DEF Untouched
  <2> QED OBVIOUS
<1>8. Money'
  <2> SUFFICES ASSUME row' # NoRow, row'.state # "pending" PROVE Money' BY DEF Money
  <2>1. CASE row' = row /\ handed' = handed BY <2>1, <1>u DEF IInv, Money
  <2>2. CASE row.state # "pending" /\ row'.state = "settled" /\ handed' = 0 /\ Paid
    BY <2>2, <1>u DEF IInv, Money
  <2> QED BY <2>1, <2>2
<1>9. Settlers' BY <1>i, <1>o, <1>u DEF IInv, Settlers
<1>10. NeverTwice' BY <1>u DEF IInv, NeverTwice
<1>11. NothingForfeited' BY <1>u DEF NothingForfeited, Paid
<1>12. Commits' BY DEF Commits
<1> QED BY <1>1, <1>2, <1>3, <1>4, <1>5, <1>6, <1>7, <1>8, <1>9, <1>10, <1>11, <1>12
        DEF IInv, WorkOK

\* A finished row says that the unused period was sent back.
LEMMA FinishedPaid ==
    ASSUME IInv, row # NoRow, row.state \in {"done", "settled"} PROVE Paid
<1>1. CASE row.state = "settled" BY <1>1 DEF IInv, Money
<1>2. CASE row.state = "done"
  <2>1. /\ row.refunded = Total(Kept) /\ row.owed = 0 /\ row.amount # -1 /\ handed <= row.owed
        /\ row.refunded + row.owed + stripe.byHand = stripe.unused + handed
    BY <1>2 DEF IInv, Money
  <2>2. row \in Rows /\ handed \in Nat /\ stripe \in Stripes BY Stripped DEF IInv, Typed, TypeOK
  <2>3. SumsHold BY <2>2, Sums DEF IInv
  <2>4. Total(Kept) <= Total(stripe.notes) /\ Total(stripe.notes) \in Nat
    BY <2>2, <2>3, ShareType DEF SumsHold
  <2>5. stripe.byHand \in Nat /\ stripe.unused \in Nat /\ row.refunded \in Nat
    BY <2>2 DEF Stripes, Rows
  <2>6. handed = 0 BY <2>1, <2>2
  <2> QED BY <2>1, <2>4, <2>5, <2>6 DEF Paid
<1> QED BY <1>1, <1>2

\* The account goes, and finished rows with it.
LEMMA DeleteKeeps == ASSUME RefundAssumed, IInv, NEW r \in Reqs, DeleteAccount(r) PROVE IInv'
<1>1. End(r) /\ UNCHANGED <<window, stripe, handed, ops>> /\ account' = FALSE /\ req[r].pc = "commit"
      /\ asked' = (asked \/ (account /\ req[r].open))
  BY DEF DeleteAccount
<1>2. req' \in [Reqs -> Requests] /\ \A q \in Reqs : req'[q] \in {req[q], Idle} BY <1>1, EndedIs
<1>3. /\ row \in Rows \cup {NoRow} /\ fresh \subseteq Reqs /\ asked \in BOOLEAN /\ handed \in Nat
      /\ account \in BOOLEAN /\ req[r] \in Requests
  BY Stripped DEF IInv, Typed, TypeOK
<1>4. asked' \in BOOLEAN BY <1>1
<1>5. CASE row' = NoRow /\ fresh' = {} /\ row # NoRow /\ row.state \in {"done", "settled"}
  <2>1. Paid BY <1>5, FinishedPaid
  <2>2. Closes BY <1>1, <1>2, <1>3, <1>4, <1>5, <2>1 DEF Closes
  <2> QED BY <2>2, CloseStep
<1>6. CASE row' = row /\ fresh' = fresh
  <2>1. row = NoRow => Paid \/ ~asked'
    <3> SUFFICES ASSUME row = NoRow, asked' PROVE Paid OBVIOUS
    <3>1. ~(account /\ req[r].open) BY <1>1 DEF IInv, Commits
    <3>2. asked BY <1>1, <3>1
    <3>3. ~account BY <3>2 DEF IInv, Untouched
    <3> QED BY <3>2, <3>3 DEF IInv, NothingForfeited, Paid
  <2>2. row # NoRow /\ row.state # "pending" => row.token = NoReq BY DEF IInv, RowOK
  <2>3. Closes BY <1>1, <1>2, <1>3, <1>4, <1>6, <2>1, <2>2 DEF Closes
  <2> QED BY <2>3, CloseStep
<1> QED BY <1>5, <1>6 DEF DeleteAccount, Put

\* A settled row is written, if nothing moved it meanwhile.
LEMMA SettledKeeps == ASSUME RefundAssumed, IInv, NEW r \in Reqs, WriteSettled(r) PROVE IInv'
<1>1. End(r) /\ UNCHANGED <<account, window, stripe, asked, ops>> /\ req[r].pc = "write"
  BY DEF WriteSettled
<1>2. req' \in [Reqs -> Requests] /\ \A q \in Reqs : req'[q] \in {req[q], Idle} BY <1>1, EndedIs
<1>3. /\ row \in Rows \cup {NoRow} /\ fresh \subseteq Reqs /\ asked \in BOOLEAN /\ handed \in Nat
      /\ account \in BOOLEAN /\ window \in BOOLEAN /\ ops \in Nat
  BY Stripped DEF IInv, Typed, TypeOK
<1>4. Paid /\ ~Open BY <1>1 DEF IInv, Settlers
<1>5. CASE UNCHANGED <<row, fresh, handed>>
  <2>1. Unmoved BY <1>1, Stripped
  <2> QED BY <1>1, <1>3, <1>5, <2>1, EndStep
<1>6. ASSUME row # NoRow, fresh' = {}, handed' = 0,
             row' = IF account THEN [Released(row) EXCEPT !.state = "settled"] ELSE NoRow
      PROVE  IInv'
  <2>1. row \in Rows /\ row.state # "pending" BY <1>3, <1>4, <1>6 DEF Open
  <2>2. CASE account
    <3> DEFINE h == Released(row)
    <3>1. /\ h \in Rows /\ h.token = NoReq /\ h.amount = row.amount /\ h.toRefund = row.toRefund
          /\ h.attempt = row.attempt /\ h.refunded = row.refunded /\ h.refund = row.refund
      BY <2>1, ReleasedIs
    <3>2. row' = [h EXCEPT !.state = "settled"] BY <1>6, <2>2
    <3> HIDE DEF h
    <3>3. /\ row' \in Rows /\ row'.token = NoReq /\ row'.amount = row.amount
          /\ row'.toRefund = row.toRefund /\ row'.attempt = row.attempt
          /\ row'.refunded = row.refunded /\ row'.refund = row.refund /\ row'.state = "settled"
      BY <3>1, <3>2 DEF Rows, FINAL
    <3>4. row' # NoRow BY <3>3 DEF RefundAssumed
    <3>5. Closes BY <1>1, <1>2, <1>3, <1>4, <1>6, <2>1, <3>3, <3>4 DEF Closes
    <3> QED BY <3>5, CloseStep
  <2>3. CASE ~account
    <3>1. Closes BY <1>1, <1>2, <1>3, <1>4, <1>6, <2>1, <2>3 DEF Closes
    <3> QED BY <3>1, CloseStep
  <2> QED BY <2>2, <2>3
<1> QED BY <1>5, <1>6 DEF WriteSettled, Put

\* The owner pays what is owed.
LEMMA OwnerKeeps == ASSUME RefundAssumed, IInv, OwnerPays PROVE IInv'
<1>s. /\ stripe \in Stripes /\ row \in Rows /\ handed \in Nat /\ row # NoRow /\ row.state = "owed"
      /\ UNCHANGED <<account, window, row, req, fresh, asked, ops>>
  BY Stripped DEF IInv, Typed, TypeOK, OwnerPays, Payable, RefundAssumed
<1>t. /\ stripe.byHand \in Nat /\ stripe.unused \in Nat /\ row.owed \in Nat /\ row.refunded \in Nat
      /\ row.amount \in Nat \cup {-1}
  BY <1>s DEF Stripes, Rows
<1>p. PICK d : d = Due OBVIOUS
<1>d. d \in Nat /\ d > 0
  <2>1. d \in Int BY <1>p, <1>s, <1>t DEF Due
  <2> QED BY <1>p, <2>1 DEF OwnerPays
<1>h. handed' = handed + d /\ stripe' = [stripe EXCEPT !.byHand = @ + d] BY <1>p DEF OwnerPays
<1>1. /\ stripe' \in Stripes /\ stripe'.byHand = stripe.byHand + d
      /\ stripe'.unused = stripe.unused /\ stripe'.card = stripe.card
      /\ stripe'.burnt = stripe.burnt
      /\ stripe'.notes = stripe.notes /\ stripe'.sent = stripe.sent
      /\ stripe'.refuses = stripe.refuses
  BY <1>s, <1>t, <1>d, <1>h DEF Stripes
<1>2. /\ CardShare' = CardShare /\ FreeKey' = FreeKey /\ Kept' = Kept /\ Returned' = Returned
      /\ NotesOK' = NotesOK /\ \A m : Frozen(m)' = Frozen(m)
  BY <1>1 DEF CardShare, FreeKey, Kept, NotesOK, OneNote, Returned, Frozen
<1>c. CardShare \in Nat BY <1>s, ShareType
<1>3. SumsHold BY <1>s, Sums DEF IInv
<1>q. Total(stripe.notes) \in Nat /\ Returned \in Nat BY <1>3, <1>c DEF SumsHold
<1>4. Paid => Paid' BY <1>1, <1>t, <1>d, <1>q DEF Paid
<1>m. /\ row.refunded = Total(Kept)
      /\ row.amount # -1 => row.refunded + row.owed + stripe.byHand = stripe.unused + handed
      /\ row.amount = -1 => handed = stripe.byHand
  BY <1>s DEF IInv, Money
<1>5. row.amount = -1 => row.refunded = 0 /\ d = stripe.unused - handed
  <2> SUFFICES ASSUME row.amount = -1 PROVE row.refunded = 0 /\ d = stripe.unused - handed OBVIOUS
  <2>1. row.toRefund = -1 BY <1>s, <1>t DEF IInv, RowOK, Frozen
  <2>2. Kept = {} BY <1>s, <2>1 DEF IInv, RowOK, Kept
  <2> QED BY <1>s, <1>m, <1>3, <1>p, <2>2 DEF SumsHold, Due
<1>6. row.amount # -1 => d = row.owed - handed BY <1>s, <1>t, <1>p DEF Due
<1>7. /\ row.refunded + stripe'.byHand <= stripe.unused
      /\ row.amount # -1 => /\ row.refunded + row.owed + stripe'.byHand = stripe.unused + handed'
                            /\ handed' <= row.owed
      /\ row.amount = -1 => handed' = stripe'.byHand
  <2> HIDE DEF Paid
  <2>1. CASE row.amount = -1 BY ONLY <2>1, <1>5, <1>m, <1>s, <1>t, <1>d, <1>h, <1>1
  <2>2. CASE row.amount # -1
    <3>1. row.refunded + row.owed + stripe.byHand = stripe.unused + handed BY <2>2, <1>m
    <3>2. d = row.owed - handed BY <2>2, <1>6
    <3> QED BY ONLY <2>2, <3>1, <3>2, <1>s, <1>t, <1>d, <1>h, <1>1
  <2> QED BY <2>1, <2>2
<1>8. Typed' BY <1>s, <1>d, <1>h, <1>1 DEF IInv, Typed, TypeOK
<1>9. ~Open /\ ~Open' BY <1>s DEF Open
<1>10. RowOK' /\ PendingOK' BY <1>s, <1>1, <1>2, <1>9 DEF IInv, RowOK, PendingOK
<1>11. NotesOK' BY <1>2 DEF IInv
<1>12. ASSUME NEW q \in Reqs PROVE Works(q, req[q])'
  <2>1. PICK y : y = req[q] OBVIOUS
  <2>2. Works(q, y) BY <2>1 DEF IInv, WorkOK
  <2>3. Works(q, y)' BY <2>2, <1>s, <1>1, <1>2 DEF Works, Holds
  <2> QED BY <1>s, <2>1, <2>3 DEF Works, Holds
<1>13. Quiet' BY <1>s, <1>1, <1>2, <1>9 DEF IInv, Quiet, Sendable
<1>14. Untouched' /\ Commits' /\ NothingForfeited' BY <1>s DEF Untouched, Commits, NothingForfeited
<1>15. Money'
  <2>1. row.refund # -1 => row.refunded = CardShare /\ Kept # {} BY <1>s DEF IInv, Money
  <2> QED BY <2>1, <1>s, <1>m, <1>1, <1>2, <1>7 DEF Money
<1>16. Settlers' BY <1>s, <1>4, <1>9 DEF IInv, Settlers
<1>17. NeverTwice'
  <2>1. Returned <= row.refunded BY <1>3, <1>m DEF SumsHold
  <2>2. Returned + stripe'.byHand <= stripe.unused
    BY <2>1, <1>7, <1>q, <1>t, <1>d, <1>1
  <2> QED BY <2>2, <1>1, <1>2 DEF NeverTwice
<1> QED BY <1>8, <1>10, <1>11, <1>12, <1>13, <1>14, <1>15, <1>16, <1>17 DEF IInv, WorkOK

\* The refund of a note takes another state.
Restates(n, f) ==
    /\ n \in stripe.notes /\ n.refund # "owed" /\ f \in {"failed", "owed", "logged"}
    /\ stripe' = [stripe EXCEPT !.notes = (@ \ {n}) \cup {[n EXCEPT !.refund = f]}]
    /\ UNCHANGED <<account, window, req, handed, asked, ops>>

\* A note whose refund changed is still the only one, for the same amount.
LEMMA RestatedIs ==
    ASSUME IInv, NEW n, NEW f, Restates(n, f)
    PROVE  /\ stripe \in Stripes /\ stripe' \in Stripes
           /\ stripe'.unused = stripe.unused /\ stripe'.card = stripe.card
           /\ stripe'.burnt = stripe.burnt /\ stripe'.byHand = stripe.byHand
           /\ stripe'.sent = stripe.sent /\ stripe'.refuses = stripe.refuses
           /\ stripe'.notes # {} /\ stripe.notes # {} /\ n.amount = CardShare /\ n.key \in Nat
           /\ NotesOK' /\ Paid' = Paid /\ CardShare' = CardShare /\ FreeKey' = FreeKey
           /\ Kept # {} /\ Total(Kept) = CardShare
           /\ Kept' = IF f = "owed" THEN {} ELSE stripe'.notes
           /\ Total(Kept)' = IF f = "owed" THEN 0 ELSE CardShare
           /\ \A m : Frozen(m)' = Frozen(m)
           /\ CardShare \in Nat /\ CardShare <= stripe.unused /\ stripe.unused \in Nat
           /\ stripe.byHand \in Nat /\ Returned' = 0 /\ Returned \in Nat
<1> USE DEF Restates
<1>1. stripe \in Stripes BY Stripped
<1>c. /\ CardShare \in Nat /\ CardShare <= stripe.unused /\ stripe.unused \in Nat
      /\ stripe.byHand \in Nat
  BY <1>1, ShareType DEF Stripes
<1>2. n \in Notes BY <1>1 DEF Stripes
<1> DEFINE k == [n EXCEPT !.refund = f]
<1>3. k \in Notes /\ k.key = n.key /\ k.amount = n.amount /\ k.refund = f BY <1>2 DEF Notes
<1>4. stripe' = [stripe EXCEPT !.notes = (@ \ {n}) \cup {k}] OBVIOUS
<1> HIDE DEF k
<1>5. /\ stripe' \in Stripes /\ stripe'.notes = (stripe.notes \ {n}) \cup {k}
      /\ stripe'.unused = stripe.unused /\ stripe'.card = stripe.card
      /\ stripe'.burnt = stripe.burnt /\ stripe'.byHand = stripe.byHand
      /\ stripe'.sent = stripe.sent /\ stripe'.refuses = stripe.refuses
  BY <1>1, <1>3, <1>4 DEF Stripes
<1>6. stripe.notes = {n} BY DEF IInv, NotesOK, OneNote
<1>7. stripe'.notes = {k} BY <1>5, <1>6
<1>8. n.key = FreeKey /\ n.amount = CardShare /\ CardShare > 0 BY DEF IInv, NotesOK
<1>9. CardShare' = CardShare /\ FreeKey' = FreeKey BY <1>5 DEF CardShare, FreeKey
<1>10. NotesOK'
  <2>1. \A c \in stripe'.sent : c.key \in {0, FreeKey} /\ c.amount = CardShare
    BY <1>5 DEF IInv, NotesOK
  <2>2. OneNote' BY <1>7 DEF OneNote
  <2>3. \A m \in stripe'.notes : m.key = FreeKey /\ m.amount = CardShare BY <1>3, <1>7, <1>8
  <2> QED BY <2>1, <2>2, <2>3, <1>8, <1>9 DEF NotesOK
<1>11. SumsHold /\ SumsHold' BY <1>1, <1>5, <1>10, Sums, SumsNext DEF IInv
<1>12. Kept = {n} BY <1>6 DEF Kept
<1>13. Kept' = IF f = "owed" THEN {} ELSE stripe'.notes BY <1>3, <1>7 DEF Kept
<1>14. Total(stripe.notes) = CardShare /\ Total(Kept) = CardShare BY <1>6, <1>11, <1>12 DEF SumsHold
<1>15. Total(stripe.notes)' = CardShare /\ Total(Kept)' = IF f = "owed" THEN 0 ELSE CardShare
  BY <1>7, <1>9, <1>11, <1>13 DEF SumsHold
<1>16. Paid' = Paid BY <1>5, <1>14, <1>15 DEF Paid
<1>17. Returned' = 0 /\ Returned \in Nat
  <2>1. {m \in stripe'.notes : m.refund = "made"} = {} BY <1>3, <1>7
  <2> QED BY <2>1, <1>c, <1>11 DEF SumsHold
<1>18. \A m : Frozen(m)' = Frozen(m) BY <1>5, <1>9 DEF Frozen
<1>19. n.key \in Nat BY <1>2 DEF Notes
<1>20. stripe'.notes # {} /\ stripe.notes # {} /\ Kept # {} BY <1>6, <1>7, <1>12
<1> QED BY <1>1, <1>c, <1>5, <1>8, <1>9, <1>10, <1>13, <1>14, <1>15, <1>16, <1>17, <1>18, <1>19,
           <1>20

\* The row stays, or the owner owes again what the note sent.
LEMMA RestateStep ==
    ASSUME RefundAssumed, IInv, NEW n, NEW f, Restates(n, f),
           \/ f # "owed" /\ UNCHANGED <<row, fresh>>
           \/ /\ f = "owed" /\ row # NoRow /\ row.refund = n.key /\ fresh' = {}
              /\ row' = [row EXCEPT !.state = "owed", !.refund = -1,
                                    !.refunded = @ - Least(n.amount, row.refunded),
                                    !.owed = IF row.state = "settled" THEN Least(n.amount, row.refunded)
                                             ELSE @ + Least(n.amount, row.refunded)]
    PROVE  IInv'
<1>1. /\ stripe \in Stripes /\ stripe' \in Stripes
      /\ stripe'.unused = stripe.unused /\ stripe'.card = stripe.card
      /\ stripe'.burnt = stripe.burnt /\ stripe'.byHand = stripe.byHand
      /\ stripe'.sent = stripe.sent /\ stripe'.refuses = stripe.refuses
      /\ stripe'.notes # {} /\ stripe.notes # {} /\ n.amount = CardShare /\ n.key \in Nat
      /\ NotesOK' /\ Paid' = Paid /\ CardShare' = CardShare /\ FreeKey' = FreeKey
      /\ Kept # {} /\ Total(Kept) = CardShare
      /\ Kept' = IF f = "owed" THEN {} ELSE stripe'.notes
      /\ Total(Kept)' = IF f = "owed" THEN 0 ELSE CardShare
      /\ \A m : Frozen(m)' = Frozen(m)
      /\ CardShare \in Nat /\ CardShare <= stripe.unused /\ stripe.unused \in Nat
      /\ stripe.byHand \in Nat /\ Returned' = 0 /\ Returned \in Nat
  BY RestatedIs
<1>u. UNCHANGED <<account, window, req, handed, asked, ops>> BY DEF Restates
<1>h. handed \in Nat /\ row \in Rows \cup {NoRow} /\ fresh \subseteq Reqs
  BY DEF IInv, Typed, TypeOK
<1>r. /\ row' = NoRow <=> row = NoRow
      /\ row' \in Rows \cup {NoRow} /\ fresh' \subseteq Reqs
      /\ row # NoRow => /\ row'.amount = row.amount /\ row'.toRefund = row.toRefund
                        /\ row'.attempt = row.attempt /\ row'.token = row.token
      /\ row' = row \/ /\ row # NoRow /\ row.state # "pending" /\ row'.state = "owed"
                       /\ row'.refund = -1 /\ row'.refunded = 0 /\ f = "owed"
                       /\ row.refunded = CardShare /\ row.amount # -1
                       /\ row'.owed = IF row.state = "settled" THEN CardShare
                                      ELSE row.owed + CardShare
  <2>1. CASE f # "owed" /\ UNCHANGED <<row, fresh>> BY <2>1, <1>h
  <2>2. CASE f = "owed"
    <3> DEFINE l == Least(n.amount, row.refunded)
    <3>0. /\ row # NoRow /\ row \in Rows /\ row.refund = n.key /\ fresh' = {}
          /\ row' = [row EXCEPT !.state = "owed", !.refund = -1, !.refunded = @ - l,
                                !.owed = IF row.state = "settled" THEN l ELSE @ + l]
      BY <2>2, <1>h
    <3>1. row.refund # -1 BY <3>0, <1>1
    <3>2. row.state # "pending" BY <3>0, <3>1 DEF IInv, PendingOK, Open
    <3>3. row.refunded = CardShare BY <3>0, <3>1, <3>2 DEF IInv, Money
    <3>4. l = CardShare BY <1>1, <3>3 DEF Least
    <3>5. row.toRefund # -1 /\ row.amount # -1 BY <3>0, <1>1 DEF IInv, RowOK, Frozen
    <3> HIDE DEF l
    <3>6. row.owed \in Nat /\ row.refunded - l = 0 BY <3>0, <3>3, <3>4, <1>1 DEF Rows
    <3>7. PICK o \in Nat : o = IF row.state = "settled" THEN CardShare ELSE row.owed + CardShare
      BY <1>1, <3>6
    <3>8. row' = [row EXCEPT !.state = "owed", !.refund = -1, !.refunded = 0, !.owed = o]
      BY <3>0, <3>4, <3>6, <3>7
    <3>r. row \in Rows BY <3>0
    <3>9. /\ row' \in Rows /\ row'.amount = row.amount /\ row'.toRefund = row.toRefund
          /\ row'.attempt = row.attempt /\ row'.token = row.token /\ row'.state = "owed"
          /\ row'.refund = -1 /\ row'.refunded = 0 /\ row'.owed = o
      BY ONLY <3>r, <3>7, <3>8 DEF Rows, FINAL
    <3>10. row' # NoRow BY <3>9 DEF RefundAssumed
    <3> QED BY <2>2, <3>0, <3>2, <3>3, <3>5, <3>7, <3>9, <3>10
  <2> QED BY <2>1, <2>2
<1>f. row' = row => f # "owed"
  <2> SUFFICES ASSUME row' = row, f = "owed" PROVE FALSE OBVIOUS
  <2>1. row # NoRow /\ row.refund = n.key /\ row' = [row EXCEPT !.state = "owed", !.refund = -1,
                                    !.refunded = @ - Least(n.amount, row.refunded),
                                    !.owed = IF row.state = "settled" THEN Least(n.amount, row.refunded)
                                             ELSE @ + Least(n.amount, row.refunded)]
    OBVIOUS
  <2>2. row'.refund = -1 BY <2>1, <1>h DEF Rows
  <2> QED BY <2>1, <2>2, <1>1
<1>2. Typed' BY <1>1, <1>u, <1>h, <1>r DEF IInv, Typed, TypeOK, Stripes
<1>o. Open' = Open BY <1>r DEF Open
<1>3. RowOK'
  <2> SUFFICES ASSUME row' # NoRow PROVE RowOK' BY DEF RowOK
  <2>1. row # NoRow /\ Frozen(row) BY <1>r DEF IInv, RowOK
  <2>2. Frozen(row') BY <2>1, <1>r DEF Frozen
  <2>3. Frozen(row)' BY <2>2, <1>1 DEF Frozen
  <2>4. /\ row.state # "pending" => row.token = NoReq
        /\ row.toRefund # -1 /\ row.attempt = FreeKey
        /\ \A c \in stripe.sent : c.key <= row.attempt
    BY <2>1, <1>1 DEF IInv, RowOK
  <2>5. row'.state # "pending" => row'.token = NoReq BY <2>1, <2>4, <1>r
  <2> QED BY <2>1, <2>3, <2>4, <2>5, <1>1, <1>r DEF RowOK
<1>4. PendingOK'
  <2> SUFFICES ASSUME Open' PROVE PendingOK' BY DEF PendingOK
  <2>1. row' = row BY <1>o, <1>r DEF Open
  <2> QED BY <2>1, <1>o, <1>u, <1>1, <1>f DEF IInv, PendingOK
<1>5. ASSUME NEW q \in Reqs PROVE Works(q, req[q])'
  <2>1. PICK y : y = req[q] OBVIOUS
  <2>2. Works(q, y) BY <2>1 DEF IInv, WorkOK
  <2>3. Frozen(y.mine)' = Frozen(y.mine) BY <1>1
  <2>4. row # NoRow /\ row.state # "pending" => row.token # q
    BY DEF IInv, RowOK, RefundAssumed
  <2>5. Works(q, y)' BY <2>2, <2>3, <2>4, <1>u, <1>1, <1>r DEF Works, Holds
  <2> QED BY <1>u, <2>1, <2>5 DEF Works, Holds
<1>6. Quiet' BY <1>1 DEF Quiet
<1>7. Untouched' BY <1>u, <1>1, <1>r DEF IInv, Untouched
<1>8. Money'
  <2> SUFFICES ASSUME row' # NoRow, row'.state # "pending" PROVE Money' BY DEF Money
  <2>1. CASE row' = row
    <3>1. f # "owed" BY <2>1, <1>f
    <3>2. row.refunded = CardShare BY <2>1, <1>1 DEF IInv, Money
    <3>3. Total(Kept)' = CardShare /\ Kept' # {} BY <3>1, <1>1
    <3> QED BY <2>1, <3>2, <3>3, <1>1, <1>u DEF IInv, Money
  <2>2. CASE row' # row
    <3> USE <2>2
    <3>1. row # NoRow /\ row.state # "pending" /\ row \in Rows /\ row.amount # -1 BY <1>r, <1>h
    <3>2. /\ row.refunded + stripe.byHand <= stripe.unused
          /\ row.state = "settled" => handed = 0 /\ Paid
          /\ row.state # "settled" =>
               /\ row.refunded + row.owed + stripe.byHand = stripe.unused + handed
               /\ handed <= row.owed
      BY <3>1 DEF IInv, Money
    <3>3. Total(stripe.notes) = CardShare BY <1>1, Sums DEF IInv, SumsHold
    <3>4. row.owed \in Nat /\ row.refunded = CardShare BY <3>1, <1>r DEF Rows
    <3>5. row'.owed + stripe.byHand = stripe.unused + handed /\ handed <= row'.owed
      <4>1. CASE row.state = "settled"
        <5>1. handed = 0 /\ CardShare + stripe.byHand >= stripe.unused BY <4>1, <3>2, <3>3 DEF Paid
        <5>2. row'.owed = CardShare BY <4>1, <1>r
        <5> QED BY <5>1, <5>2, <3>2, <3>4, <1>1
      <4>2. CASE row.state # "settled"
        <5>1. row'.owed = row.owed + CardShare BY <4>2, <1>r
        <5> QED BY <4>2, <5>1, <3>2, <3>4, <1>1, <1>h
      <4> QED BY <4>1, <4>2
    <3>6. row'.refunded = 0 /\ row'.state = "owed" /\ row'.refund = -1 /\ f = "owed" BY <1>r
    <3>7. Total(Kept)' = 0 BY <3>6, <1>1
    <3>8. row'.owed \in Nat BY <3>4, <1>r, <1>1
    <3>9. row'.refunded + stripe'.byHand <= stripe'.unused BY <3>2, <3>4, <3>6, <1>1
    <3>10. row'.refunded + row'.owed + stripe'.byHand = stripe'.unused + handed' /\ handed' <= row'.owed
      BY <3>5, <3>6, <3>8, <1>1, <1>u
    <3>11. row'.amount # -1 BY <3>1, <1>r
    <3> QED BY <3>6, <3>7, <3>9, <3>10, <3>11 DEF Money
  <2> QED BY <2>1, <2>2
<1>9. Settlers' /\ Commits' BY <1>o, <1>u, <1>1, <1>r DEF IInv, Settlers, Commits
<1>10. NothingForfeited' BY <1>u, <1>1, <1>r DEF IInv, NothingForfeited, Paid
<1>11. NeverTwice' BY <1>1 DEF IInv, NeverTwice
<1> QED BY <1>1, <1>2, <1>3, <1>4, <1>5, <1>6, <1>7, <1>8, <1>9, <1>10, <1>11 DEF IInv, WorkOK

\* A lease runs out: the token stays, so only an owner of the token saves.
LEMMA LeaseKeeps == ASSUME RefundAssumed, IInv, LeaseExpires PROVE IInv'
<1>1. /\ row \in Rows /\ row # NoRow /\ row' = [row EXCEPT !.held = FALSE]
      /\ UNCHANGED <<account, window, req, fresh, stripe, handed, asked, ops>>
  BY Stripped DEF LeaseExpires
<1>2. /\ row' \in Rows /\ row'.state = row.state /\ row'.amount = row.amount
      /\ row'.toRefund = row.toRefund /\ row'.owed = row.owed /\ row'.refunded = row.refunded
      /\ row'.attempt = row.attempt /\ row'.token = row.token /\ row'.refund = row.refund
  BY <1>1 DEF Rows
<1>3. row' # NoRow BY <1>2 DEF RefundAssumed
<1>u. /\ CardShare' = CardShare /\ FreeKey' = FreeKey /\ Kept' = Kept /\ Paid' = Paid
      /\ NotesOK' = NotesOK /\ Returned' = Returned /\ \A m : Frozen(m)' = Frozen(m)
  BY <1>1 DEF CardShare, FreeKey, Kept, Paid, NotesOK, OneNote, Returned, Frozen
<1>o. Open' = Open BY <1>1, <1>2, <1>3 DEF Open
<1>4. Typed' BY <1>1, <1>2 DEF IInv, Typed, TypeOK
<1>5. RowOK'
  <2>1. Frozen(row) BY <1>1 DEF IInv, RowOK
  <2>2. Frozen(row') BY <2>1, <1>2 DEF Frozen
  <2>3. Frozen(row)' BY <2>2, <1>1, <1>u DEF Frozen
  <2> QED BY <2>3, <1>1, <1>2, <1>u DEF IInv, RowOK
<1>6. PendingOK' BY <1>o, <1>1, <1>2, <1>u DEF IInv, PendingOK
<1>7. ASSUME NEW q \in Reqs PROVE Works(q, req[q])'
  <2>1. PICK y : y = req[q] OBVIOUS
  <2>2. Works(q, y) BY <2>1 DEF IInv, WorkOK
  <2>3. Works(q, y)' BY <2>2, <1>u, <1>1, <1>2, <1>3 DEF Works, Holds
  <2> QED BY <1>1, <2>1, <2>3 DEF Works, Holds
<1>8. Quiet' BY <1>o, <1>1, <1>u DEF IInv, Quiet, Sendable
<1>9. Untouched' /\ Commits' /\ NothingForfeited' BY <1>3 DEF Untouched, Commits, NothingForfeited
<1>10. Money' BY <1>1, <1>2, <1>3, <1>u DEF IInv, Money
<1>11. Settlers' /\ NotesOK' /\ NeverTwice' BY <1>o, <1>1, <1>u DEF IInv, Settlers, NeverTwice
<1> QED BY <1>4, <1>5, <1>6, <1>7, <1>8, <1>9, <1>10, <1>11 DEF IInv, WorkOK

\* What Stripe does on its own, late calls included.
LEMMA ProviderKeeps == ASSUME RefundAssumed, IInv, Provider PROVE IInv'
<1>s. /\ stripe \in Stripes /\ window \in BOOLEAN /\ fresh \subseteq Reqs /\ ops \in Nat
      /\ req \in [Reqs -> Requests]
      /\ UNCHANGED <<account, window, row, req, fresh, handed, asked, ops>>
  BY Stripped DEF Provider
<1>1. CASE Unmoved BY <1>1, <1>s, IdleStep
<1>2. CASE SentLands
  <2> PICK c \in stripe.sent : stripe' = IF Makes(c.key, c.amount)
                                         THEN [AddNote(stripe, c.key, c.amount) EXCEPT !.sent = @ \ {c}]
                                         ELSE [stripe EXCEPT !.sent = @ \ {c}]
    BY <1>2 DEF SentLands
  <2>1. CASE stripe' = [stripe EXCEPT !.sent = @ \ {c}]
    <3>1. Unmoved BY <2>1, <1>s DEF Unmoved, Stripes
    <3> QED BY <3>1, <1>1
  <2>2. CASE Makes(c.key, c.amount)
    <3>1. /\ c.key \in {0, FreeKey} /\ c.amount = CardShare /\ CardShare > 0
      BY DEF IInv, NotesOK
    <3>2. row # NoRow => c.key <= row.attempt /\ row.toRefund # -1 BY DEF IInv, RowOK
    <3>3. row # NoRow \/ ~account BY DEF IInv, Untouched
    <3>4. c.key \in Nat /\ c.amount \in Nat BY <1>s DEF Stripes
    <3> DEFINE s == AddNote(stripe, c.key, c.amount)
    <3>5. /\ s \in Stripes
          /\ s.notes = stripe.notes \cup {[key |-> c.key, amount |-> c.amount, refund |-> "made"]}
          /\ s.sent = stripe.sent /\ s.refuses = stripe.refuses
          /\ s.unused = stripe.unused /\ s.card = stripe.card
          /\ s.burnt = stripe.burnt /\ s.byHand = stripe.byHand
      BY <1>s, <3>4, AddedIs
    <3>6. stripe' = [s EXCEPT !.sent = @ \ {c}] BY <2>2
    <3> HIDE DEF s
    <3>7. /\ stripe' \in Stripes /\ stripe'.notes = s.notes /\ stripe'.sent \subseteq stripe.sent
          /\ stripe'.refuses = stripe.refuses
          /\ stripe'.unused = stripe.unused /\ stripe'.card = stripe.card
          /\ stripe'.burnt = stripe.burnt /\ stripe'.byHand = stripe.byHand
      BY <3>5, <3>6 DEF Stripes
    <3>8. Sendable BY DEF Sendable
    <3>9. Lands(c.key) BY <2>2, <3>1, <3>2, <3>3, <3>5, <3>7, <3>8 DEF Lands, Makes
    <3> QED BY <3>9, <1>s, LandStep
  <2> QED BY <2>1, <2>2
<1>3. CASE CancelLandsLate
  <2>1. Unmoved BY <1>3, <1>s DEF Unmoved, Stripes, CancelLandsLate
  <2> QED BY <2>1, <1>1
<1>4. CASE Renews
  <2>1. Unmoved BY <1>4, <1>s DEF Unmoved, Stripes, Renews
  <2> QED BY <2>1, <1>1
<1>5. CASE StartsRefusing
  <2>1. Unmoved BY <1>5, <1>s DEF Unmoved, Stripes, StartsRefusing
  <2> QED BY <2>1, <1>1
<1>6. CASE RefundFails
  <2> PICK n \in stripe.notes : /\ n.refund = "made"
                                /\ stripe' = [stripe EXCEPT !.notes = (@ \ {n}) \cup {[n EXCEPT !.refund = "failed"]}]
    BY <1>6 DEF RefundFails
  <2>1. Restates(n, "failed") BY <1>s DEF Restates
  <2> QED BY <2>1, <1>s, RestateStep
<1> QED BY <1>2, <1>3, <1>4, <1>5, <1>6 DEF Provider

\* A refund that bounced is owed again, once.
LEMMA FailureKeeps == ASSUME RefundAssumed, IInv, RefundFailureEvent PROVE IInv'
<1> PICK n \in stripe.notes :
      /\ n.refund = "failed"
      /\ LET ours == row # NoRow /\ row.refund = n.key
             failed == Least(n.amount, row.refunded) IN
         /\ stripe' = [stripe EXCEPT !.notes =
              (@ \ {n}) \cup {[n EXCEPT !.refund = IF ours THEN "owed" ELSE "logged"]}]
         /\ IF ours
            THEN Put([row EXCEPT !.state = "owed", !.refund = -1,
                                 !.refunded = @ - failed,
                                 !.owed = IF row.state = "settled" THEN failed
                                          ELSE @ + failed])
            ELSE UNCHANGED <<row, fresh>>
      /\ UNCHANGED <<account, window, req, handed, asked, ops>>
  BY DEF RefundFailureEvent
<1>1. CASE row # NoRow /\ row.refund = n.key
  <2>1. Restates(n, "owed") BY <1>1 DEF Restates
  <2> QED BY <1>1, <2>1, RestateStep DEF Put
<1>2. CASE ~(row # NoRow /\ row.refund = n.key)
  <2>1. Restates(n, "logged") BY <1>2 DEF Restates
  <2> QED BY <1>2, <2>1, RestateStep
<1> QED BY <1>1, <1>2

\* Every step a request makes under a claim keeps the invariant.
LEMMA StepKeeps == ASSUME RefundAssumed, IInv, NEW r \in Reqs, Step(r) PROVE IInv'
<1>1. Rest BY DEF Step, Rest
<1> QED BY <1>1, ClaimsKeep, FreezeKeeps, StampKeeps, CancelsKeep, AgainKeeps, ComputeKeeps,
           ProblemKeeps, PlanKeeps, LookupKeeps, CreateKeeps, NextKeyKeeps, ReadsKeep, FindKeeps
        DEF Step

\* The invariant holds initially.
LEMMA InitIInv == RefundAssumed /\ Init => IInv
<1> SUFFICES ASSUME RefundAssumed, Init PROVE IInv OBVIOUS
<1>1. PICK unused \in Amounts, card \in Cards, burnt \in SUBSET {0} :
        stripe = [unused |-> unused, card |-> card, burnt |-> burnt,
                   invoice |-> 1, ended |-> FALSE, late |-> FALSE,
                   cancelSent |-> FALSE, refuses |-> FALSE, byHand |-> 0,
                   notes |-> {}, sent |-> {}]
  BY DEF Init
<1>2. unused \in Nat /\ card \in Nat BY DEF RefundAssumed
<1>3. /\ stripe \in Stripes /\ stripe.notes = {} /\ stripe.sent = {} /\ stripe.byHand = 0
      /\ stripe.unused \in Nat
  BY <1>1, <1>2 DEF Stripes
<1>4. /\ row = NoRow /\ handed = 0 /\ asked = FALSE /\ account = TRUE /\ window = TRUE
      /\ ops = 0 /\ fresh = {} /\ req = [r \in Reqs |-> Idle]
  BY DEF Init
<1>5. Idle \in Requests /\ Idle.pc = "idle" /\ Idle.kind = "withdraw"
  BY DEF Idle, Requests, Steps, Kinds
<1>6. \A r \in Reqs : req[r].pc = "idle" /\ req[r].kind = "withdraw" BY <1>4, <1>5
<1>7. Typed
  <2>1. req \in [Reqs -> Requests] BY <1>4, <1>5
  <2> QED BY <1>3, <1>4, <2>1 DEF Typed, TypeOK
<1>8. NotesOK BY <1>3 DEF NotesOK, OneNote
<1>9. SumsHold BY <1>3, <1>8, Sums
<1>10. RowOK /\ PendingOK /\ Money BY <1>4 DEF RowOK, PendingOK, Money, Open
<1>11. WorkOK /\ Quiet /\ Settlers /\ Commits
  BY <1>3, <1>6 DEF WorkOK, Works, Working, Quiet, Sendable, Settlers, Commits
<1>12. Untouched /\ NothingForfeited
  BY <1>3, <1>4, <1>6 DEF Untouched, Working, NothingForfeited
<1>13. NeverTwice
  <2>1. {n \in stripe.notes : n.refund = "made"} = {} BY <1>3
  <2>2. Returned = 0 BY <2>1, <1>9 DEF SumsHold
  <2> QED BY <2>2, <1>3 DEF NeverTwice
<1> QED BY <1>7, <1>8, <1>10, <1>11, <1>12, <1>13 DEF IInv

\* Every step keeps the invariant.
LEMMA StepIInv == ASSUME RefundAssumed, IInv, [Next]_vars PROVE IInv'
<1>1. CASE UNCHANGED vars
  <2>1. Unmoved /\ window' \in BOOLEAN /\ fresh' \subseteq Reqs /\ ops' \in Nat
    BY <1>1, Stripped DEF vars
  <2> QED BY <1>1, <2>1, IdleStep DEF vars
<1>2. ASSUME NEW r \in Reqs, Dies(r) PROVE IInv'
  <2>1. Unmoved /\ window' \in BOOLEAN /\ fresh' \subseteq Reqs /\ ops' \in Nat
    BY <1>2, Stripped DEF Dies
  <2> QED BY <1>2, <2>1, EndStep DEF Dies
<1>3. CASE WindowCloses
  <2>1. Unmoved /\ window' \in BOOLEAN /\ fresh' \subseteq Reqs /\ ops' \in Nat
    BY <1>3, Stripped DEF WindowCloses
  <2> QED BY <1>3, <2>1, IdleStep DEF WindowCloses
<1> QED BY <1>1, <1>2, <1>3, StartKeeps, StepKeeps, DeleteKeeps, SettledKeeps, OwnerKeeps,
           FailureKeeps, LeaseKeeps, ProviderKeeps DEF Next

\* The invariant is what the ledger promises.
LEMMA IInvSound == IInv => LedgerSound
<1> SUFFICES ASSUME IInv PROVE LedgerSound OBVIOUS
<1>1. LedgerAgrees
  <2> SUFFICES ASSUME row # NoRow, row.state \in FINAL PROVE LedgerAgrees BY DEF LedgerAgrees
  <2>1. row \in Rows /\ handed \in Nat /\ stripe \in Stripes BY Stripped DEF IInv, Typed, TypeOK
  <2>2. row.state # "pending" BY DEF FINAL
  <2>3. row.refunded = Total(Kept) BY <2>2 DEF IInv, Money
  <2>4. ASSUME row.amount >= 0, row.state # "settled"
        PROVE  row.refunded + row.owed + (stripe.byHand - handed) = stripe.unused
    <3>1. row.amount # -1 BY <2>4
    <3>2. row.refunded + row.owed + stripe.byHand = stripe.unused + handed
      BY <2>2, <2>4, <3>1 DEF IInv, Money
    <3>3. /\ row.refunded \in Nat /\ row.owed \in Nat /\ stripe.byHand \in Nat
          /\ stripe.unused \in Nat
      BY <2>1 DEF Rows, Stripes
    <3> QED BY <3>2, <3>3, <2>1
  <2> QED BY <2>3, <2>4 DEF LedgerAgrees, Kept
<1> QED BY <1>1 DEF IInv, LedgerSound, Typed, NotesOK

\* For any number of requests, amounts and provider keys.
THEOREM LedgerHolds == ASSUME RefundAssumed PROVE Spec => []LedgerSound
<1>1. Init => IInv BY InitIInv
<1>2. IInv /\ [Next]_vars => IInv' BY StepIInv
<1> QED BY <1>1, <1>2, IInvSound, PTL DEF Spec
-----------------------------------------------------------------------------
(***************************************************************************)
(* Render jobs: for any number of jobs, requests and crashes, any quota    *)
(* and any mix of kinds.                                                   *)
(*                                                                         *)
(* OneOutcome is not inductive: an email is right because of where the     *)
(* render or the sweep that sends it stands.  The invariant is stated job  *)
(* by job (JobSound): the job is with one request, the queue or one render *)
(* (OneHolder), what a render knows of its row at each step (Renders),     *)
(* what a sweeper knows of it (Sweeps), and that a row nobody began has    *)
(* been seen by nobody (Known).  A step touches one job: OneStep takes  *)
(* the others from SameKeeps, and the quota from the rows that cost no     *)
(* more than before (Cheap).                                               *)
(***************************************************************************)
CONSTANTS Jobs, Clients, JobKinds, VideoLimit, PreviewLimit, MaxCrashes, Mixed, NoJob

VARIABLES job, geo, file, mails, queued, post, horse, marker, up, crashes

J == INSTANCE RenderJobs WITH Kinds <- JobKinds

\* RenderJobs counts with the Cardinality of its own FiniteSets: it is the same.
LEMMA SameCard == ASSUME NEW S PROVE J!Cardinality(S) = Cardinality(S)
BY DEF J!Cardinality, Cardinality

RenderAssumed ==
    /\ JobKinds \subseteq {"video", "preview", "poster"}
    /\ VideoLimit \in Nat /\ PreviewLimit \in Nat /\ MaxCrashes \in Nat
    /\ NoJob \notin Jobs /\ IsFiniteSet(Jobs)

\* What requests, renders and sweeps are.
Posts == [pc: {"idle", "create", "geometry", "enqueue"}, kind: JobKinds \cup {"none"},
          job: Jobs \cup {NoJob}]
Horses == [pc: {"idle", "start", "render", "finish", "fail", "ready", "sorry", "end"},
           job: Jobs \cup {NoJob}]
Markers == [pc: {"idle", "mark", "delete", "mail", "erase", "row"}, job: Jobs \cup {NoJob},
            todo: SUBSET Jobs]
\* The type invariant, and when each of them is about a job.
JobsTyped ==
    /\ J!TypeOK
    /\ post \in [Clients -> Posts] /\ horse \in [J!Workers -> Horses]
    /\ marker \in [J!Sweepers -> Markers] /\ mails \in [Jobs -> [ready: Nat, failed: Nat]]
    /\ \A c \in Clients : post[c].pc \in {"geometry", "enqueue"} <=> post[c].job # NoJob
    /\ \A c \in Clients : post[c].pc = "create" => post[c].kind \in JobKinds
    /\ \A w \in J!Workers : horse[w].pc = "idle" => horse[w].job = NoJob

\* A job is with one request, or in the queue, or with one render.
HeldBy(j) == \/ \E c \in Clients : post[c].job = j
             \/ j \in queued
             \/ \E w \in J!Workers : horse[w].job = j
OneHolder(j) ==
    /\ \A c, d \in Clients : post[c].job = j /\ post[d].job = j => c = d
    /\ \A c \in Clients : post[c].job = j => j \notin queued /\ \A w \in J!Workers : horse[w].job # j
    /\ j \in queued => \A w \in J!Workers : horse[w].job # j
    /\ \A w, x \in J!Workers : horse[w].job = j /\ horse[x].job = j => w = x

\* A job nobody began is known to nobody, and a poster a request still holds waits.
NotBegun(j) ==
    /\ ~HeldBy(j) /\ mails[j].ready = 0 /\ mails[j].failed = 0
    /\ \A s \in J!Sweepers : marker[s].job # j /\ j \notin marker[s].todo
Known(j) ==
    /\ job[j].kind = "none" <=> job[j].status = "none"
    /\ job[j].status = "none" => NotBegun(j)
    /\ J!IsPoster(j) => \A c \in Clients : post[c].job = j =>
         /\ job[j].status = "pending"
         /\ \A s \in J!Sweepers : marker[s].job # j /\ j \notin marker[s].todo

\* What the render of a video or preview knows of its row and of its mails.
Renders(j) ==
    ~J!IsPoster(j) => \A w \in J!Workers : horse[w].job = j =>
      /\ horse[w].pc \in {"render", "finish", "fail"} => job[j].status \in {"running", "failed"}
      /\ horse[w].pc = "finish" /\ job[j].status = "running" => j \in file
      /\ horse[w].pc = "ready" => job[j].kind = "video" /\ job[j].status \in {"done", "expired"}
      /\ horse[w].pc = "sorry" => job[j].kind = "video" /\ job[j].status = "failed"
      /\ horse[w].pc \in {"ready", "sorry"} => mails[j].ready = 0 /\ mails[j].failed = 0

\* What a sweeper knows of the job it is at; one at most ends a video or preview.
Sweeps(j) ==
    \A s \in J!Sweepers : marker[s].job = j =>
      /\ marker[s].pc = "delete" => ~J!IsPoster(j)
      /\ marker[s].pc = "mail" => job[j].kind \in {"video", "poster"}
      /\ marker[s].pc = "erase" => ~J!IsPoster(j) /\ job[j].status = "expired"
      /\ marker[s].pc = "row" => J!IsPoster(j) /\ j \notin file /\ ~HeldBy(j)
      /\ marker[s].pc \in {"delete", "mail"} /\ ~J!IsPoster(j) =>
           /\ job[j].status = "failed" /\ mails[j].ready = 0 /\ mails[j].failed = 0
           /\ \A w \in J!Workers : horse[w].job = j => horse[w].pc \notin {"ready", "sorry"}
           /\ \A t \in J!Sweepers : marker[t].job = j /\ marker[t].pc \in {"delete", "mail"} => t = s

\* OneOutcome and FilesMatchRow of one job, and a deleted poster is with nobody.
Outcome(j) ==
    ~J!IsPoster(j) =>
      /\ mails[j].ready + mails[j].failed <= (IF job[j].kind = "video" THEN 1 ELSE 0)
      /\ mails[j].ready = 1 => job[j].status \in {"done", "expired"}
      /\ mails[j].failed = 1 => job[j].status = "failed"
Files(j) ==
    /\ job[j].status = "done" /\ ~J!IsPoster(j) => j \in file
    /\ job[j].status = "deleted" => j \notin file /\ ~HeldBy(j)

\* The inductive invariant.
JobSound(j) == OneHolder(j) /\ Known(j) /\ Renders(j) /\ Sweeps(j) /\ Outcome(j) /\ Files(j)
JobsIInv == JobsTyped /\ J!QuotaKept /\ \A j \in Jobs : JobSound(j)

\* What the render jobs promise: one outcome and one email for each, files that match
\* the rows, and quotas that hold.
RenderSound == J!TypeOK /\ J!OneOutcome /\ J!FilesMatchRow /\ J!QuotaKept

LEMMA JobsPromise == JobsIInv => RenderSound
BY DEF JobsIInv, RenderSound, JobsTyped, JobSound, J!OneOutcome, Outcome, J!FilesMatchRow, Files

\* A step that does nothing about j but let go of it, or look at it.
Same(j) ==
    /\ job'[j].status = job[j].status /\ job'[j].kind = job[j].kind
    /\ mails'[j] = mails[j] /\ (j \in file' <=> j \in file) /\ (j \in queued' => j \in queued)
    /\ \A c \in Clients : post'[c].job = j => post[c].job = j
    /\ \A w \in J!Workers : horse'[w].job = j => horse[w].job = j /\ horse'[w].pc = horse[w].pc
    /\ \A s \in J!Sweepers : marker'[s].job = j => marker[s].job = j /\ marker'[s].pc = marker[s].pc
    /\ \A s \in J!Sweepers : j \in marker'[s].todo =>
         \/ j \in marker[s].todo
         \/ /\ job[j].status # "none"
            /\ J!IsPoster(j) => \A c \in Clients : post'[c].job # j

\* Such a step keeps what is said of j.
LEMMA SameKeeps == ASSUME NEW j \in Jobs, JobSound(j), Same(j) PROVE JobSound(j)'
<1>h. HeldBy(j)' => HeldBy(j) BY DEF Same, HeldBy
<1>p. J!IsPoster(j)' = J!IsPoster(j) BY DEF Same, J!IsPoster
<1>1. OneHolder(j)' BY DEF Same, JobSound, OneHolder
<1>2. NotBegun(j) /\ job[j].status = "none" => NotBegun(j)' BY <1>h DEF Same, NotBegun
<1>3. Known(j)' BY <1>2, <1>p DEF Same, JobSound, Known
<1>4. Renders(j)' BY <1>p DEF Same, JobSound, Renders
<1>5. Sweeps(j)' BY <1>p, <1>h DEF Same, JobSound, Sweeps
<1>6. Outcome(j)' BY <1>p DEF Same, JobSound, Outcome
<1>7. Files(j)' BY <1>p, <1>h DEF Same, JobSound, Files
<1> QED BY <1>1, <1>3, <1>4, <1>5, <1>6, <1>7 DEF JobSound

\* A row that spends nothing it did not spend before.
Spends(j) == job[j].kind = "video" /\ job[j].status \notin {"none", "failed"}
Counts(j) == J!Counting(j) /\ job[j].age = 0
Cheap(j) == (Spends(j)' => Spends(j)) /\ (Counts(j)' => Counts(j))

\* A smaller set counts no more.
LEMMA FewerCount ==
    ASSUME NEW S, IsFiniteSet(S), NEW T, T \subseteq S, NEW n \in Nat, Cardinality(S) <= n
    PROVE  Cardinality(T) <= n
<1>1. IsFiniteSet(T) /\ Cardinality(T) <= Cardinality(S) BY FS_Subset
<1>2. Cardinality(T) \in Nat /\ Cardinality(S) \in Nat BY <1>1, FS_CardinalityType
<1> QED BY <1>1, <1>2

\* Rows that cost no more keep the quota.
LEMMA CheapKeeps == ASSUME RenderAssumed, J!QuotaKept, \A j \in Jobs : Cheap(j) PROVE J!QuotaKept'
<1>1. J!VideosUsed' \subseteq J!VideosUsed BY DEF J!VideosUsed, Cheap, Spends
<1>2. J!NewPreviews' \subseteq J!NewPreviews BY DEF J!NewPreviews, J!PreviewsUsed, Cheap, Counts
<1>3. IsFiniteSet(J!VideosUsed) /\ IsFiniteSet(J!NewPreviews)
  BY FS_Subset DEF RenderAssumed, J!VideosUsed, J!NewPreviews, J!PreviewsUsed
<1>4. /\ Cardinality(J!VideosUsed) <= VideoLimit /\ Cardinality(J!NewPreviews) <= PreviewLimit
      /\ VideoLimit \in Nat /\ PreviewLimit \in Nat
  BY SameCard DEF J!QuotaKept, RenderAssumed
<1>5. Cardinality(J!VideosUsed') <= VideoLimit BY <1>1, <1>3, <1>4, FewerCount
<1>6. Cardinality(J!NewPreviews') <= PreviewLimit BY <1>2, <1>3, <1>4, FewerCount
<1> QED BY <1>5, <1>6, SameCard DEF J!QuotaKept

\* A row that stays costs no more.
LEMMA SameCheap == ASSUME NEW j \in Jobs, job'[j] = job[j] PROVE Cheap(j)
BY DEF Cheap, Spends, Counts, J!Counting

\* A row that changes its status: what it may cost then.
LEMMA MoveCheap ==
    ASSUME NEW j \in Jobs, NEW s, job'[j].status = s, job'[j].kind = job[j].kind,
           job'[j].age = job[j].age,
           \/ job[j].status \in J!NON_TERMINAL /\ s \in {"running", "done", "failed"}
           \/ s \in {"expired", "deleted"} /\ job[j].status \notin {"none", "failed"}
           \/ job[j].kind = "poster"
    PROVE  Cheap(j)
BY DEF Cheap, Spends, Counts, J!Counting, J!NON_TERMINAL

\* The types, in the form the steps use them.
LEMMA Types ==
    ASSUME JobsTyped, RenderAssumed
    PROVE  /\ job \in [Jobs -> J!Row] /\ geo \subseteq Jobs /\ file \subseteq Jobs
           /\ queued \subseteq Jobs /\ up \subseteq J!Workers /\ crashes \in 0..MaxCrashes
           /\ post \in [Clients -> Posts] /\ horse \in [J!Workers -> Horses]
           /\ marker \in [J!Sweepers -> Markers] /\ mails \in [Jobs -> [ready: Nat, failed: Nat]]
           /\ \A c \in Clients : post[c] \in Posts
           /\ \A w \in J!Workers : horse[w] \in Horses
           /\ \A s \in J!Sweepers : marker[s] \in Markers
           /\ \A c \in Clients : post[c].pc \in {"geometry", "enqueue"} <=> post[c].job \in Jobs
           /\ \A w \in J!Workers : horse[w].pc # "idle" <=> horse[w].job \in Jobs
           /\ \A s \in J!Sweepers : marker[s].pc \notin {"idle", "mark"} <=> marker[s].job \in Jobs
           /\ J!IdlePost \in Posts /\ J!IdleHorse \in Horses /\ J!IdleMarker \in Markers
           /\ NoJob \notin Jobs
<1>1. NoJob \notin Jobs BY DEF RenderAssumed
<1>2. /\ \A c \in Clients : post[c] \in Posts
      /\ \A w \in J!Workers : horse[w] \in Horses
      /\ \A s \in J!Sweepers : marker[s] \in Markers
  BY DEF JobsTyped
<1>3. /\ \A c \in Clients : post[c].pc \in {"geometry", "enqueue"} <=> post[c].job \in Jobs
      /\ \A w \in J!Workers : horse[w].pc # "idle" <=> horse[w].job \in Jobs
      /\ \A s \in J!Sweepers : marker[s].pc \notin {"idle", "mark"} <=> marker[s].job \in Jobs
  BY <1>1, <1>2 DEF JobsTyped, J!TypeOK, Posts, Horses, Markers
<1>4. J!IdlePost \in Posts /\ J!IdleHorse \in Horses /\ J!IdleMarker \in Markers
  BY DEF J!IdlePost, J!IdleHorse, J!IdleMarker, Posts, Horses, Markers
<1> QED BY <1>1, <1>2, <1>3, <1>4 DEF JobsTyped, J!TypeOK

\* A step about job k.
LEMMA OneStep ==
    ASSUME RenderAssumed, JobsIInv, JobsTyped', NEW k \in Jobs, JobSound(k)',
           \A j \in Jobs \ {k} : Same(j) /\ job'[j] = job[j], Cheap(k)
    PROVE  JobsIInv'
<1>1. \A j \in Jobs : JobSound(j)'
  <2> SUFFICES ASSUME NEW j \in Jobs, j # k PROVE JobSound(j)' OBVIOUS
  <2>1. JobSound(j) /\ Same(j) BY DEF JobsIInv
  <2> QED BY <2>1, SameKeeps
<1>2. \A j \in Jobs : Cheap(j)
  <2> SUFFICES ASSUME NEW j \in Jobs, j # k PROVE Cheap(j) OBVIOUS
  <2>1. job'[j] = job[j] OBVIOUS
  <2> QED BY <2>1, SameCheap
<1>3. J!QuotaKept' BY <1>2, CheapKeeps DEF JobsIInv
<1> QED BY <1>1, <1>3 DEF JobsIInv

\* A step that begins, moves or ends no job.
LEMMA NoStep ==
    ASSUME RenderAssumed, JobsIInv, JobsTyped', \A j \in Jobs : Same(j) /\ Cheap(j)
    PROVE  JobsIInv'
<1>1. \A j \in Jobs : JobSound(j)'
  <2> SUFFICES ASSUME NEW j \in Jobs PROVE JobSound(j)' OBVIOUS
  <2>1. JobSound(j) /\ Same(j) BY DEF JobsIInv
  <2> QED BY <2>1, SameKeeps
<1>2. J!QuotaKept' BY CheapKeeps DEF JobsIInv
<1> QED BY <1>1, <1>2 DEF JobsIInv

\* A request changes, and nothing else but the geometry.
LEMMA PostStep ==
    ASSUME RenderAssumed, JobsIInv, NEW c \in Clients, NEW x \in Posts,
           post' = [post EXCEPT ![c] = x],
           x.job = post[c].job \/ x.job = NoJob,
           x.pc \in {"geometry", "enqueue"} <=> x.job # NoJob,
           x.pc = "create" => x.kind \in JobKinds,
           UNCHANGED <<job, file, mails, queued, horse, marker, up, crashes>>, geo' \subseteq Jobs
    PROVE  JobsIInv'
<1>1. JobsTyped BY DEF JobsIInv
<1>2. post \in [Clients -> Posts] /\ NoJob \notin Jobs BY <1>1, Types
<1>3. post' \in [Clients -> Posts] /\ \A d \in Clients : post'[d] = IF d = c THEN x ELSE post[d]
  BY <1>2
<1>4. JobsTyped' BY <1>1, <1>3 DEF JobsTyped, J!TypeOK
<1>5. \A j \in Jobs : Same(j) BY <1>2, <1>3 DEF Same
<1>6. \A j \in Jobs : Cheap(j) BY SameCheap
<1> QED BY <1>4, <1>5, <1>6, NoStep

\* What a request does before it has a job, and to the geometry.
LEMMA CheckKeeps ==
    ASSUME RenderAssumed, JobsIInv, NEW c \in Clients, NEW kind \in JobKinds, J!Check(c,
           kind) PROVE JobsIInv'
<1> DEFINE x == [J!IdlePost EXCEPT !.pc = "create", !.kind = kind]
<1>1. x \in Posts /\ x.job = NoJob /\ x.pc = "create" /\ x.kind = kind BY DEF J!IdlePost, Posts
<1>2. JobsTyped BY DEF JobsIInv
<1>3. geo \subseteq Jobs BY <1>2, Types
<1>4. post' = [post EXCEPT ![c] = x] /\ geo' = geo
      /\ UNCHANGED <<job, file, mails, queued, horse, marker, up, crashes>>
  BY DEF J!Check
<1> HIDE DEF x
<1> QED BY <1>1, <1>3, <1>4, PostStep

LEMMA GeometryKeeps ==
    ASSUME RenderAssumed, JobsIInv, NEW c \in Clients, J!WriteGeometry(c) PROVE JobsIInv'
<1> DEFINE x == [post[c] EXCEPT !.pc = "enqueue"]
<1>2. JobsTyped BY DEF JobsIInv
<1>3. geo \subseteq Jobs /\ post[c] \in Posts /\ post[c].pc = "geometry" /\ post[c].job \in Jobs
      /\ post \in [Clients -> Posts] /\ NoJob \notin Jobs
  BY <1>2, Types DEF J!WriteGeometry
<1>1. x \in Posts /\ x.job = post[c].job /\ x.pc = "enqueue" BY <1>3 DEF Posts
<1>4. post' = [post EXCEPT ![c] = x] /\ geo' \subseteq Jobs
      /\ UNCHANGED <<job, file, mails, queued, horse, marker, up, crashes>>
  BY <1>3 DEF J!WriteGeometry
<1> HIDE DEF x
<1> QED BY <1>1, <1>3, <1>4, PostStep

\* The row Create writes.
LEMMA JobNewRowIs ==
    ASSUME NEW kind \in JobKinds
    PROVE  LET new == [J!NoRow EXCEPT !.kind = kind, !.status = "pending"] IN
           /\ new \in J!Row /\ new.kind = kind /\ new.status = "pending" /\ new.age = 0
           /\ new.started = FALSE
<1>1. J!NoRow \in J!Row /\ J!NoRow.age = 0 /\ J!NoRow.started = FALSE
  BY DEF J!NoRow, J!Row, J!Statuses, J!NON_TERMINAL
<1>2. "pending" \in J!Statuses BY DEF J!Statuses, J!NON_TERMINAL
<1>3. ASSUME NEW m \in J!Row
      PROVE  LET new == [m EXCEPT !.kind = kind, !.status = "pending"] IN
             /\ new \in J!Row /\ new.kind = kind /\ new.status = "pending" /\ new.age = m.age
             /\ new.started = m.started
  BY <1>2 DEF J!Row
<1> QED BY <1>1, <1>3

\* One more element makes a finite set larger by one at most.
LEMMA OneMore ==
    ASSUME NEW S, IsFiniteSet(S), NEW x
    PROVE  /\ IsFiniteSet(S \cup {x}) /\ Cardinality(S \cup {x}) <= Cardinality(S) + 1
           /\ Cardinality(S) \in Nat /\ Cardinality(S \cup {x}) \in Nat
<1>1. /\ IsFiniteSet(S \cup {x}) /\ Cardinality(S) \in Nat
      /\ x \in S => Cardinality(S \cup {x}) = Cardinality(S)
      /\ x \notin S => Cardinality(S \cup {x}) = Cardinality(S) + 1
  BY FS_AddElement, FS_CardinalityType
<1> QED BY <1>1

\* The new job was known to nobody, and the quota had room for it.
LEMMA JobCreateKeeps ==
    ASSUME RenderAssumed, JobsIInv, NEW c \in Clients, J!Create(c) PROVE JobsIInv'
<1>1. JobsTyped BY DEF JobsIInv
<1>2. /\ geo \subseteq Jobs /\ post[c] \in Posts /\ post[c].pc = "create" /\ post[c].job = NoJob
      /\ post \in [Clients -> Posts] /\ NoJob \notin Jobs /\ J!IdlePost \in Posts
      /\ post[c].kind \in JobKinds /\ job \in [Jobs -> J!Row]
  BY <1>1, Types DEF J!Create, JobsTyped
<1> DEFINE kind == post[c].kind
<1>3. CASE post' = [post EXCEPT ![c] = J!IdlePost] /\ UNCHANGED job
  <2>1. J!IdlePost.job = NoJob /\ J!IdlePost.pc = "idle" BY DEF J!IdlePost
  <2>2. geo' = geo /\ UNCHANGED <<file, mails, queued, horse, marker, up, crashes>> BY DEF J!Create
  <2> QED BY <1>2, <1>3, <2>1, <2>2, PostStep
<1>4. ASSUME NEW k \in Jobs, J!Allowed(kind), job[k].status = "none",
             job' = [job EXCEPT ![k] = [J!NoRow EXCEPT !.kind = kind, !.status = "pending"]],
             post' = [post EXCEPT ![c].pc = IF kind = "poster" THEN "enqueue" ELSE "geometry",
                                  ![c].job = k]
      PROVE  JobsIInv'
  <2> DEFINE x == [post[c] EXCEPT !.pc = IF kind = "poster" THEN "enqueue" ELSE "geometry",
                                  !.job = k]
             new == [J!NoRow EXCEPT !.kind = kind, !.status = "pending"]
  <2>1. x \in Posts /\ x.job = k /\ x.pc \in {"geometry", "enqueue"} BY <1>2 DEF Posts
  <2>2. /\ new \in J!Row /\ new.kind = kind /\ new.status = "pending" /\ new.age = 0
        /\ new.started = FALSE
    BY <1>2, JobNewRowIs
  <2>3. post' = [post EXCEPT ![c] = x] /\ job' = [job EXCEPT ![k] = new] BY <1>2, <1>4
  <2> HIDE DEF x, new
  <2>4. UNCHANGED <<geo, file, mails, queued, horse, marker, up, crashes>> BY DEF J!Create
  <2>5. \A d \in Clients : post'[d] = IF d = c THEN x ELSE post[d] BY <1>2, <2>3
  <2>6. job'[k] = new /\ \A j \in Jobs \ {k} : job'[j] = job[j] BY <1>2, <2>3
  <2>7. job' \in [Jobs -> J!Row] /\ post' \in [Clients -> Posts] BY <1>2, <2>1, <2>2, <2>3
  <2>8. JobsTyped' BY <1>1, <1>2, <2>1, <2>4, <2>5, <2>7 DEF JobsTyped, J!TypeOK
  <2>9. NotBegun(k) BY <1>4 DEF JobsIInv, JobSound, Known
  <2>10. kind # "none" BY <1>2 DEF RenderAssumed
  <2>11. JobSound(k)'
    <3>1. OneHolder(k)' BY <2>4, <2>5, <2>9 DEF OneHolder, NotBegun, HeldBy
    <3>2. Known(k)' BY <2>2, <2>4, <2>6, <2>9, <2>10 DEF Known, NotBegun
    <3>3. Renders(k)' /\ Sweeps(k)' BY <2>4, <2>9 DEF Renders, Sweeps, NotBegun, HeldBy
    <3>4. Outcome(k)' /\ Files(k)' BY <2>2, <2>4, <2>6, <2>9 DEF Outcome, Files, NotBegun
    <3> QED BY <3>1, <3>2, <3>3, <3>4 DEF JobSound
  <2>12. \A j \in Jobs \ {k} : Same(j) BY <2>1, <2>4, <2>5, <2>6 DEF Same
  <2>13. \A j \in Jobs : JobSound(j)'
    <3> SUFFICES ASSUME NEW j \in Jobs, j # k PROVE JobSound(j)' BY <2>11
    <3>1. JobSound(j) /\ Same(j) BY <2>12 DEF JobsIInv
    <3> QED BY <3>1, SameKeeps
  \* The quota was checked against the rows as they are.
  <2>14. J!QuotaKept'
    <3>1. /\ J!VideosUsed' \subseteq J!VideosUsed \cup {k}
          /\ kind # "video" => J!VideosUsed' \subseteq J!VideosUsed
      BY <2>2, <2>6 DEF J!VideosUsed
    <3>2. /\ J!NewPreviews' \subseteq J!PreviewsUsed \cup {k}
          /\ kind # "preview" => J!NewPreviews' \subseteq J!NewPreviews
      BY <2>2, <2>6 DEF J!NewPreviews, J!PreviewsUsed, J!Counting
    <3>3. IsFiniteSet(J!VideosUsed) /\ IsFiniteSet(J!PreviewsUsed) /\ IsFiniteSet(J!NewPreviews)
      BY FS_Subset DEF RenderAssumed, J!VideosUsed, J!NewPreviews, J!PreviewsUsed
    <3>4. /\ kind = "video" => Cardinality(J!VideosUsed) < VideoLimit
          /\ kind = "preview" => Cardinality(J!PreviewsUsed) < PreviewLimit
      BY <1>4, SameCard DEF J!Allowed
    <3>5. /\ Cardinality(J!VideosUsed) <= VideoLimit /\ Cardinality(J!NewPreviews) <= PreviewLimit
          /\ VideoLimit \in Nat /\ PreviewLimit \in Nat
      BY SameCard DEF JobsIInv, J!QuotaKept, RenderAssumed
    <3>6. Cardinality(J!VideosUsed') <= VideoLimit
      <4>1. CASE kind = "video"
        <5>0. /\ IsFiniteSet(J!VideosUsed \cup {k}) /\ Cardinality(J!VideosUsed \cup {k}) \in Nat
              /\ Cardinality(J!VideosUsed \cup {k}) <= Cardinality(J!VideosUsed) + 1
              /\ Cardinality(J!VideosUsed) \in Nat
          BY <3>3, OneMore
        <5>1. IsFiniteSet(J!VideosUsed \cup {k}) /\ Cardinality(J!VideosUsed \cup {k}) <= VideoLimit
          BY <3>4, <3>5, <4>1, <5>0
        <5> QED BY <3>1, <3>5, <5>1, FewerCount
      <4>2. CASE kind # "video" BY <3>1, <3>3, <3>5, <4>2, FewerCount
      <4> QED BY <4>1, <4>2
    <3>7. Cardinality(J!NewPreviews') <= PreviewLimit
      <4>1. CASE kind = "preview"
        <5>0. /\ IsFiniteSet(J!PreviewsUsed \cup {k}) /\ Cardinality(J!PreviewsUsed \cup {k}) \in Nat
              /\ Cardinality(J!PreviewsUsed \cup {k}) <= Cardinality(J!PreviewsUsed) + 1
              /\ Cardinality(J!PreviewsUsed) \in Nat
          BY <3>3, OneMore
        <5>1. /\ IsFiniteSet(J!PreviewsUsed \cup {k})
              /\ Cardinality(J!PreviewsUsed \cup {k}) <= PreviewLimit
          BY <3>4, <3>5, <4>1, <5>0
        <5> QED BY <3>2, <3>5, <5>1, FewerCount
      <4>2. CASE kind # "preview" BY <3>2, <3>3, <3>5, <4>2, FewerCount
      <4> QED BY <4>1, <4>2
    <3> QED BY <3>6, <3>7, SameCard DEF J!QuotaKept
  <2> QED BY <2>8, <2>13, <2>14 DEF JobsIInv
<1> QED BY <1>2, <1>3, <1>4 DEF J!Create

\* The request hands its job on: to the queue, to the API's own render, or back.
LEMMA EnqueueKeeps ==
    ASSUME RenderAssumed, JobsIInv, NEW c \in Clients, J!Enqueue(c) PROVE JobsIInv'
<1>1. JobsTyped BY DEF JobsIInv
<1>2. /\ post \in [Clients -> Posts] /\ NoJob \notin Jobs /\ J!IdlePost \in Posts
      /\ queued \subseteq Jobs /\ post[c].job \in Jobs
      /\ J!IdlePost.job = NoJob /\ J!IdlePost.pc = "idle"
  BY <1>1, Types DEF J!Enqueue, J!IdlePost
<1> PICK k \in Jobs : k = post[c].job BY <1>2
<1>3. /\ queued' = queued \cup {k} /\ post' = [post EXCEPT ![c] = J!IdlePost]
      /\ UNCHANGED <<job, geo, file, mails, horse, marker, up, crashes>>
  BY DEF J!Enqueue
<1>4. \A d \in Clients : post'[d] = IF d = c THEN J!IdlePost ELSE post[d] BY <1>2, <1>3
<1>5. post' \in [Clients -> Posts] /\ queued' \subseteq Jobs BY <1>2, <1>3
<1>6. JobsTyped' BY <1>1, <1>2, <1>3, <1>4, <1>5 DEF JobsTyped, J!TypeOK
<1>7. JobSound(k) BY <1>2 DEF JobsIInv
<1>8. JobSound(k)'
  <2>1. J!IsPoster(k)' = J!IsPoster(k) /\ (HeldBy(k)' => HeldBy(k))
    BY <1>2, <1>3, <1>4 DEF J!IsPoster, HeldBy
  <2>2. OneHolder(k)' BY <1>2, <1>3, <1>4, <1>7 DEF JobSound, OneHolder
  <2>3. HeldBy(k) BY DEF HeldBy
  <2>4. Known(k)' BY <1>2, <1>3, <1>4, <1>7, <2>1, <2>3 DEF JobSound, Known, NotBegun
  <2>5. Renders(k)' /\ Sweeps(k)' /\ Outcome(k)' /\ Files(k)'
    BY <1>2, <1>3, <1>4, <1>7, <2>1, <2>3 DEF JobSound, Renders, Sweeps, Outcome, Files
  <2> QED BY <2>2, <2>4, <2>5 DEF JobSound
<1>9. \A j \in Jobs \ {k} : Same(j) /\ job'[j] = job[j] BY <1>2, <1>3, <1>4 DEF Same
<1>10. Cheap(k) BY <1>2, <1>3, SameCheap
<1> QED BY <1>2, <1>6, <1>8, <1>9, <1>10, OneStep

\* What Ended leaves of a row.
LEMMA JobEndedIs ==
    ASSUME NEW m \in J!Row, NEW s \in J!Statuses
    PROVE  /\ J!Ended(m, s) \in J!Row /\ J!Ended(m, s).status = s
           /\ J!Ended(m, s).kind = m.kind /\ J!Ended(m, s).age = m.age
<1>1. (m.age > 0) \in BOOLEAN OBVIOUS
<1>2. ASSUME NEW b \in BOOLEAN
      PROVE  LET e == [m EXCEPT !.status = s, !.late = b] IN
             /\ e \in J!Row /\ e.status = s /\ e.kind = m.kind /\ e.age = m.age
  BY DEF J!Row
<1> QED BY <1>1, <1>2 DEF J!Ended

\* A row moved by SetStatus.
LEMMA SetIs ==
    ASSUME job \in [Jobs -> J!Row], NEW k \in Jobs, NEW s \in J!Statuses, J!SetStatus(k, s)
    PROVE  /\ job' \in [Jobs -> J!Row] /\ \A j \in Jobs \ {k} : job'[j] = job[j]
           /\ job'[k].status = s /\ job'[k].kind = job[k].kind /\ job'[k].age = job[k].age
<1>1. job' = [job EXCEPT ![k] = J!Ended(job[k], s)] BY DEF J!SetStatus
<1>2. /\ J!Ended(job[k], s) \in J!Row /\ J!Ended(job[k], s).status = s
      /\ J!Ended(job[k], s).kind = job[k].kind /\ J!Ended(job[k], s).age = job[k].age
  BY JobEndedIs
<1> QED BY <1>1, <1>2

LEMMA EnqueueFailsKeeps ==
    ASSUME RenderAssumed, JobsIInv, NEW c \in Clients, J!EnqueueFails(c) PROVE JobsIInv'
<1>1. JobsTyped BY DEF JobsIInv
<1>2. /\ post \in [Clients -> Posts] /\ NoJob \notin Jobs /\ J!IdlePost \in Posts
      /\ geo \subseteq Jobs /\ post[c].job \in Jobs /\ job \in [Jobs -> J!Row]
      /\ horse \in [J!Workers -> Horses]
      /\ J!IdlePost.job = NoJob /\ J!IdlePost.pc = "idle"
  BY <1>1, Types DEF J!EnqueueFails, J!IdlePost
<1> PICK k \in Jobs : k = post[c].job BY <1>2
<1>3. /\ post' = [post EXCEPT ![c] = J!IdlePost]
      /\ UNCHANGED <<file, mails, queued, marker, up, crashes>>
  BY DEF J!EnqueueFails
<1>4. \A d \in Clients : post'[d] = IF d = c THEN J!IdlePost ELSE post[d] BY <1>2, <1>3
<1>5. post' \in [Clients -> Posts] BY <1>2, <1>3
<1>6. JobSound(k) BY DEF JobsIInv
<1>7. job[k].status # "none" /\ job[k].status # "deleted"
  BY <1>6 DEF JobSound, Known, NotBegun, Files, HeldBy
<1>8. \A w \in J!Workers : horse[w].job # k BY <1>6 DEF JobSound, OneHolder
<1>9. k \notin queued /\ \A d \in Clients : post'[d].job # k
  BY <1>2, <1>4, <1>6 DEF JobSound, OneHolder
<1>a. CASE J!IsPoster(k) /\ horse["api"].pc = "idle" /\ UNCHANGED <<job, geo>>
           /\ horse' = [horse EXCEPT !["api"] = [pc |-> "start", job |-> k]]
  <2> DEFINE x == [pc |-> "start", job |-> k]
  <2>1. x \in Horses /\ x.job = k /\ x.pc = "start" /\ "api" \in J!Workers BY DEF Horses, J!Workers
  <2>2. horse' = [horse EXCEPT !["api"] = x] BY <1>a
  <2> HIDE DEF x
  <2>3. horse["api"].job = NoJob BY <1>1, <1>a, <2>1 DEF JobsTyped
  <2>4. /\ horse' \in [J!Workers -> Horses]
        /\ \A w \in J!Workers : horse'[w] = IF w = "api" THEN x ELSE horse[w]
    BY <1>2, <2>1, <2>2
  <2>5. JobsTyped' BY <1>a, <1>1, <1>2, <1>3, <1>4, <1>5, <2>1, <2>4 DEF JobsTyped, J!TypeOK
  <2>6. J!IsPoster(k)' BY <1>a DEF J!IsPoster
  <2>7. OneHolder(k)' BY <1>3, <1>8, <1>9, <2>1, <2>4 DEF OneHolder
  <2>8. Known(k)' BY <1>a, <1>6, <1>7, <1>9 DEF JobSound, Known
  <2>9. Renders(k)' /\ Outcome(k)' BY <2>6 DEF Renders, Outcome
  <2>10. HeldBy(k) BY DEF HeldBy
  <2>11. Sweeps(k)' /\ Files(k)'
    BY <1>a, <1>3, <1>6, <1>7, <2>6, <2>10 DEF JobSound, Sweeps, Files
  <2>12. JobSound(k)' BY <2>7, <2>8, <2>9, <2>11 DEF JobSound
  <2>13. \A j \in Jobs \ {k} : Same(j) /\ job'[j] = job[j]
    BY <1>a, <1>2, <1>3, <1>4, <2>1, <2>3, <2>4 DEF Same
  <2>14. Cheap(k) BY <1>a, SameCheap
  <2> QED BY <2>5, <2>12, <2>13, <2>14, OneStep
<1>b. CASE ~J!IsPoster(k) /\ geo' = geo \ {k} /\ UNCHANGED horse
           /\ IF J!CanMove(k, {"pending"}) THEN J!SetStatus(k, "failed") ELSE UNCHANGED job
  <2>1. /\ job' \in [Jobs -> J!Row] /\ \A j \in Jobs \ {k} : job'[j] = job[j]
        /\ job'[k].kind = job[k].kind /\ job'[k].age = job[k].age
        /\ \/ job'[k] = job[k]
           \/ job[k].status = "pending" /\ job'[k].status = "failed"
    <3>1. CASE J!CanMove(k, {"pending"})
      <4>1. "failed" \in J!Statuses /\ job[k].status = "pending"
        BY <3>1 DEF J!Statuses, J!CanMove
      <4> QED BY <1>b, <1>2, <3>1, <4>1, SetIs
    <3>2. CASE ~J!CanMove(k, {"pending"}) BY <1>b, <1>2, <3>2
    <3> QED BY <3>1, <3>2
  <2>2. JobsTyped' BY <1>b, <1>1, <1>2, <1>3, <1>4, <1>5, <2>1 DEF JobsTyped, J!TypeOK
  <2>3. ~J!IsPoster(k)' /\ HeldBy(k) /\ ~HeldBy(k)'
    BY <1>b, <1>3, <1>8, <1>9, <2>1 DEF J!IsPoster, HeldBy
  <2>4. OneHolder(k)' BY <1>b, <1>3, <1>8, <1>9 DEF OneHolder
  <2>5. job'[k].status \notin {"none", "deleted"} BY <1>7, <2>1
  <2>6. Known(k)' BY <1>6, <1>7, <1>9, <2>1, <2>3, <2>5 DEF JobSound, Known
  <2>7. Renders(k)' BY <1>b, <1>8 DEF Renders
  <2>8. Sweeps(k)' BY <1>b, <1>3, <1>6, <1>8, <2>1, <2>3 DEF JobSound, Sweeps
  <2>9. Outcome(k)' /\ Files(k)'
    BY <1>b, <1>3, <1>6, <2>1, <2>3, <2>5 DEF JobSound, Outcome, Files
  <2>10. JobSound(k)' BY <2>4, <2>6, <2>7, <2>8, <2>9 DEF JobSound
  <2>11. \A j \in Jobs \ {k} : Same(j) /\ job'[j] = job[j]
    BY <1>b, <1>2, <1>3, <1>4, <2>1 DEF Same
  <2>12. Cheap(k)
    <3>1. CASE job'[k] = job[k] BY <3>1, SameCheap
    <3>2. CASE job[k].status = "pending" /\ job'[k].status = "failed"
      BY <2>1, <3>2, MoveCheap DEF J!NON_TERMINAL
    <3> QED BY <2>1, <3>1, <3>2
  <2> QED BY <2>2, <2>10, <2>11, <2>12, OneStep
<1> QED BY <1>2, <1>a, <1>b DEF J!EnqueueFails

LEMMA RequestKeeps ==
    ASSUME RenderAssumed, JobsIInv, NEW c \in Clients, J!Request(c) PROVE JobsIInv'
BY CheckKeeps, JobCreateKeeps, GeometryKeeps, EnqueueKeeps, EnqueueFailsKeeps DEF J!Request

\* What the render of a video or preview may do to its job in a step from was to pc.
Ran(k, was, pc) ==
    ~J!IsPoster(k) =>
      /\ job[k].status \in {"failed", "expired"} => job'[k].status = job[k].status
      /\ mails'[k] = mails[k] \/ was \in {"ready", "sorry"}
      /\ pc \in {"ready", "sorry"} => /\ job[k].status = "running"
                                     /\ mails'[k].ready = 0 /\ mails'[k].failed = 0
      /\ job'[k].status = "done" => k \in file'
      /\ pc \in {"render", "finish", "fail"} => job'[k].status \in {"running", "failed"}
      /\ pc = "finish" /\ job'[k].status = "running" => k \in file'
      /\ pc = "ready" => job[k].kind = "video" /\ job'[k].status = "done"
      /\ pc = "sorry" => job[k].kind = "video" /\ job'[k].status = "failed"

\* A step of the render that holds job k.
LEMMA RunStep ==
    ASSUME RenderAssumed, JobsIInv, NEW w \in J!Workers, NEW k \in Jobs, horse[w].job = k,
           NEW x \in Horses, horse' = [horse EXCEPT ![w] = x],
           (x.job = k /\ x.pc # "idle") \/ (x.job = NoJob /\ x.pc = "idle"),
           UNCHANGED <<post, marker, queued, up, crashes>>,
           job' \in [Jobs -> J!Row], \A j \in Jobs \ {k} : job'[j] = job[j],
           job'[k].kind = job[k].kind, job'[k].status \notin {"none", "deleted"}, Cheap(k),
           geo' \subseteq Jobs, file' \subseteq Jobs, \A j \in Jobs \ {k} : j \in file' <=> j \in file,
           mails' \in [Jobs -> [ready: Nat, failed: Nat]], \A j \in Jobs \ {k} : mails'[j] = mails[j],
           Ran(k, horse[w].pc, x.pc),
           Outcome(k)'
    PROVE  JobsIInv'
<1>1. JobsTyped BY DEF JobsIInv
<1>2. NoJob \notin Jobs /\ horse \in [J!Workers -> Horses] BY <1>1, Types
<1>3. /\ horse' \in [J!Workers -> Horses]
      /\ \A v \in J!Workers : horse'[v] = IF v = w THEN x ELSE horse[v]
  BY <1>2
<1>4. JobsTyped'
  <2>1. \A j \in Jobs : mails'[j].ready \in Nat /\ mails'[j].failed \in Nat OBVIOUS
  <2>2. \A v \in J!Workers : horse'[v].pc # "idle" => horse'[v].job \in Jobs
    BY <1>1, <1>3 DEF JobsTyped, J!TypeOK
  <2>3. \A v \in J!Workers : horse'[v].pc = "idle" => horse'[v].job = NoJob
    BY <1>1, <1>2, <1>3 DEF JobsTyped
  <2> QED BY <1>1, <1>3, <2>1, <2>2, <2>3 DEF JobsTyped, J!TypeOK
<1>5. JobSound(k) /\ HeldBy(k) /\ NoJob # k BY <1>2 DEF JobsIInv, HeldBy
<1>6. J!IsPoster(k)' = J!IsPoster(k) BY DEF J!IsPoster
<1>7. /\ \A v \in J!Workers : horse[v].job = k => v = w
      /\ \A v \in J!Workers : horse'[v].job = k => v = w /\ horse'[v] = x
      /\ \A c \in Clients : post[c].job # k
      /\ k \notin queued
  BY <1>3, <1>5 DEF JobSound, OneHolder
<1>8. OneHolder(k)' BY <1>7 DEF OneHolder
<1>9. Known(k)' BY <1>5, <1>7 DEF JobSound, Known, NotBegun
<1>10. Renders(k)' BY <1>6, <1>7 DEF Renders, Ran
<1>11. Sweeps(k)'
  <2> SUFFICES ASSUME NEW s \in J!Sweepers, marker[s].job = k
               PROVE  Sweeps(k)!(s)!2'
    BY DEF Sweeps
  <2> QED BY <1>5, <1>6, <1>7 DEF JobSound, Sweeps, Ran
<1>12. Files(k)' BY <1>6 DEF Files, Ran
<1>13. JobSound(k)' BY <1>8, <1>9, <1>10, <1>11, <1>12 DEF JobSound
<1>14. \A j \in Jobs \ {k} : Same(j) /\ job'[j] = job[j] BY <1>2, <1>3 DEF Same
<1> QED BY <1>4, <1>13, <1>14, OneStep


\* What a render that holds a job knows.
LEMMA HeldFacts ==
    ASSUME RenderAssumed, JobsIInv, NEW w \in J!Workers, horse[w].pc # "idle"
    PROVE  /\ horse[w] \in Horses /\ horse[w].job \in Jobs
           /\ JobSound(horse[w].job) /\ job[horse[w].job].status \notin {"none", "deleted"}
           /\ job \in [Jobs -> J!Row] /\ geo \subseteq Jobs /\ file \subseteq Jobs
           /\ mails \in [Jobs -> [ready: Nat, failed: Nat]]
           /\ J!IdleHorse \in Horses /\ J!IdleHorse.job = NoJob /\ J!IdleHorse.pc = "idle"
<1>1. JobsTyped BY DEF JobsIInv
<1>2. PICK k \in Jobs : k = horse[w].job BY <1>1, Types
<1>3. JobSound(k) /\ HeldBy(k) BY <1>2 DEF JobsIInv, HeldBy
<1>4. job[k].status \notin {"none", "deleted"} BY <1>3 DEF JobSound, Known, Files, NotBegun
<1> QED BY <1>1, <1>2, <1>3, <1>4, Types DEF J!IdleHorse

\* The render of k goes to another step.
LEMMA JobGotoIs ==
    ASSUME NEW w \in J!Workers, horse[w] \in Horses, NEW k, horse[w].job = k, NEW pc,
           J!Goto(w, pc),
           pc \in {"render", "finish", "fail", "ready", "sorry", "end"}
    PROVE  \E x \in Horses : x.job = k /\ x.pc = pc /\ horse' = [horse EXCEPT ![w] = x]
<1> DEFINE x == [horse[w] EXCEPT !.pc = pc]
<1>1. x \in Horses /\ x.job = k /\ x.pc = pc BY DEF Horses
<1>2. horse' = [horse EXCEPT ![w] = x] BY DEF J!Goto
<1> QED BY <1>1, <1>2

\* One more mail of one kind.
LEMMA MailIs ==
    ASSUME NEW k \in Jobs, NEW what \in {"ready", "failed"}, J!SendMail(k, what),
           mails \in [Jobs -> [ready: Nat, failed: Nat]]
    PROVE  /\ mails' \in [Jobs -> [ready: Nat, failed: Nat]]
           /\ \A j \in Jobs \ {k} : mails'[j] = mails[j]
           /\ mails'[k].ready = mails[k].ready + (IF what = "ready" THEN 1 ELSE 0)
           /\ mails'[k].failed = mails[k].failed + (IF what = "failed" THEN 1 ELSE 0)
<1>1. mails[k] \in [ready: Nat, failed: Nat] OBVIOUS
<1>2. CASE what = "ready"
  <2> DEFINE m == [mails[k] EXCEPT !.ready = @ + 1]
  <2>1. m \in [ready: Nat, failed: Nat] /\ m.ready = mails[k].ready + 1 /\ m.failed = mails[k].failed
    BY <1>1
  <2>2. mails' = [mails EXCEPT ![k] = m] BY <1>2 DEF J!SendMail
  <2> HIDE DEF m
  <2> QED BY <1>2, <2>1, <2>2
<1>3. CASE what = "failed"
  <2> DEFINE m == [mails[k] EXCEPT !.failed = @ + 1]
  <2>1. m \in [ready: Nat, failed: Nat] /\ m.failed = mails[k].failed + 1 /\ m.ready = mails[k].ready
    BY <1>1
  <2>2. mails' = [mails EXCEPT ![k] = m] BY <1>3 DEF J!SendMail
  <2> HIDE DEF m
  <2> QED BY <1>3, <2>1, <2>2
<1> QED BY <1>2, <1>3

\* The steps of the work-horse, one by one.
LEMMA TakeKeeps ==
    ASSUME RenderAssumed, JobsIInv, NEW w \in J!Workers, J!Take(w), UNCHANGED <<post, marker,
           up, crashes>>
    PROVE  JobsIInv'
<1>1. JobsTyped BY DEF JobsIInv
<1>2. PICK k \in queued : /\ queued' = queued \ {k}
                          /\ horse' = [horse EXCEPT ![w] = [pc |-> "start", job |-> k]]
  BY DEF J!Take
<1>3. UNCHANGED <<job, geo, file, mails>> /\ horse[w].pc = "idle" BY DEF J!Take, J!disk
<1> DEFINE x == [pc |-> "start", job |-> k]
<1>4. k \in Jobs /\ horse \in [J!Workers -> Horses] /\ horse[w].job = NoJob /\ NoJob \notin Jobs
      /\ queued \subseteq Jobs
  BY <1>1, <1>3, Types DEF JobsTyped
<1>5. x \in Horses /\ x.pc = "start" /\ x.job = k BY <1>4 DEF Horses
<1>6. horse' = [horse EXCEPT ![w] = x] BY <1>2
<1> HIDE DEF x
<1>7. /\ horse' \in [J!Workers -> Horses]
      /\ \A v \in J!Workers : horse'[v] = IF v = w THEN x ELSE horse[v]
  BY <1>4, <1>5, <1>6
<1>8. JobsTyped' BY <1>1, <1>2, <1>3, <1>4, <1>5, <1>7 DEF JobsTyped, J!TypeOK
<1>9. JobSound(k) /\ HeldBy(k) BY <1>4 DEF JobsIInv, HeldBy
<1>10. JobSound(k)'
  <2>1. J!IsPoster(k)' = J!IsPoster(k) BY <1>3 DEF J!IsPoster
  <2>2. /\ \A v \in J!Workers : horse[v].job # k
        /\ \A v \in J!Workers : horse'[v].job = k => v = w /\ horse'[v] = x
        /\ \A c \in Clients : post[c].job # k
        /\ k \notin queued'
    BY <1>2, <1>7, <1>9 DEF JobSound, OneHolder
  <2>3. OneHolder(k)' BY <2>2 DEF OneHolder
  <2>4. Known(k)' BY <1>3, <1>9, <2>1, <2>2 DEF JobSound, Known, NotBegun
  <2>5. Renders(k)' BY <1>5, <2>2 DEF Renders
  <2>6. Sweeps(k)' BY <1>3, <1>5, <1>9, <2>1, <2>2 DEF JobSound, Sweeps
  <2>7. Outcome(k)' BY <1>3, <1>9, <2>1 DEF JobSound, Outcome
  <2>8. Files(k)' BY <1>3, <1>9, <2>1 DEF JobSound, Files
  <2> QED BY <2>3, <2>4, <2>5, <2>6, <2>7, <2>8 DEF JobSound
<1>11. \A j \in Jobs \ {k} : Same(j) /\ job'[j] = job[j]
  BY <1>2, <1>3, <1>4, <1>5, <1>7 DEF Same
<1>12. Cheap(k) BY <1>3, <1>4, SameCheap
<1> QED BY <1>4, <1>8, <1>10, <1>11, <1>12, OneStep

LEMMA JobStartKeeps ==
    ASSUME RenderAssumed, JobsIInv, NEW w \in J!Workers, J!Start(w), UNCHANGED <<post,
           marker, up, crashes>>
    PROVE  JobsIInv'
<1>0. horse[w].pc = "start" BY DEF J!Start
<1> PICK k \in Jobs : k = horse[w].job BY <1>0, HeldFacts
<1>1. /\ horse[w] \in Horses /\ JobSound(k) /\ job[k].status \notin {"none", "deleted"}
      /\ job \in [Jobs -> J!Row] /\ geo \subseteq Jobs /\ file \subseteq Jobs
      /\ mails \in [Jobs -> [ready: Nat, failed: Nat]]
      /\ J!IdleHorse \in Horses /\ J!IdleHorse.job = NoJob /\ J!IdleHorse.pc = "idle"
  BY <1>0, HeldFacts
<1>2. UNCHANGED <<queued, mails>> BY DEF J!Start
<1>3. CASE /\ J!IsPoster(k) \/ J!CanMove(k, {"pending"})
           /\ job' = [job EXCEPT ![k].status = "running", ![k].started = TRUE]
           /\ J!Goto(w, "render") /\ UNCHANGED J!disk
  <2> DEFINE m == [job[k] EXCEPT !.status = "running", !.started = TRUE]
  <2>0. job[k] \in J!Row /\ "running" \in J!Statuses BY <1>1 DEF J!Statuses, J!NON_TERMINAL
  <2>1. /\ m \in J!Row /\ m.status = "running" /\ m.kind = job[k].kind /\ m.age = job[k].age
    BY <2>0 DEF J!Row
  <2>2. job' = [job EXCEPT ![k] = m] BY <1>3
  <2> HIDE DEF m
  <2>3. /\ job' \in [Jobs -> J!Row] /\ \A j \in Jobs \ {k} : job'[j] = job[j]
        /\ job'[k].status = "running" /\ job'[k].kind = job[k].kind /\ job'[k].age = job[k].age
    BY <1>1, <2>1, <2>2
  <2>4. PICK x \in Horses : x.job = k /\ x.pc = "render" /\ horse' = [horse EXCEPT ![w] = x]
    BY <1>1, <1>3, JobGotoIs
  <2>5. UNCHANGED <<geo, file>> BY <1>3 DEF J!disk
  <2>6. J!IsPoster(k) \/ job[k].status = "pending" BY <1>3 DEF J!CanMove
  <2>7. Cheap(k) BY <2>3, <2>6, MoveCheap DEF J!NON_TERMINAL, J!IsPoster
  <2>8. Outcome(k)' BY <1>1, <1>2, <2>3, <2>6 DEF JobSound, Outcome, J!IsPoster
  <2>9. Ran(k, "start", "render") BY <1>2, <2>3, <2>6 DEF Ran
  <2>10. geo' \subseteq Jobs /\ file' = file /\ mails' = mails BY <1>1, <1>2, <2>5
  <2> QED BY <1>0, <1>1, <1>2, <2>3, <2>4, <2>7, <2>8, <2>9, <2>10, RunStep
<1>4. CASE /\ ~J!IsPoster(k) /\ ~J!CanMove(k, {"pending"}) /\ geo' = geo \ {k}
           /\ file' = IF J!CanMove(k, {"done"}) THEN file ELSE file \ {k}
           /\ J!Leave(w) /\ UNCHANGED job
  <2>1. /\ file' \subseteq Jobs /\ \A j \in Jobs \ {k} : j \in file' <=> j \in file
        /\ job[k].status = "done" => file' = file
    BY <1>1, <1>4 DEF J!CanMove
  <2>2. horse' = [horse EXCEPT ![w] = J!IdleHorse] BY <1>4 DEF J!Leave
  <2>3. Cheap(k) BY <1>4, SameCheap
  <2>4. Outcome(k)' BY <1>1, <1>2, <1>4 DEF JobSound, Outcome, J!IsPoster
  <2>5. job[k].status = "done" => k \in file' BY <1>1, <1>4, <2>1 DEF JobSound, Files
  <2>6. Ran(k, "start", "idle") BY <1>2, <1>4, <2>5 DEF Ran
  <2>7. geo' \subseteq Jobs /\ mails' = mails /\ job' = job BY <1>1, <1>2, <1>4
  <2> QED BY <1>0, <1>1, <1>2, <2>1, <2>2, <2>3, <2>4, <2>6, <2>7, RunStep
<1> QED BY <1>3, <1>4 DEF J!Start

LEMMA RenderOkKeeps ==
    ASSUME RenderAssumed, JobsIInv, NEW w \in J!Workers, J!RenderOk(w), UNCHANGED <<post,
           marker, up, crashes>>
    PROVE  JobsIInv'
<1>0. horse[w].pc = "render" BY DEF J!RenderOk
<1> PICK k \in Jobs : k = horse[w].job BY <1>0, HeldFacts
<1>1. /\ horse[w] \in Horses /\ JobSound(k) /\ job[k].status \notin {"none", "deleted"}
      /\ job \in [Jobs -> J!Row] /\ geo \subseteq Jobs /\ file \subseteq Jobs
      /\ mails \in [Jobs -> [ready: Nat, failed: Nat]]
  BY <1>0, HeldFacts
<1>2. UNCHANGED <<job, geo, queued, mails>> /\ file' = file \cup {k} BY DEF J!RenderOk
<1>3. PICK x \in Horses : x.job = k /\ x.pc = "finish" /\ horse' = [horse EXCEPT ![w] = x]
  BY <1>1, JobGotoIs DEF J!RenderOk
<1>4. Cheap(k) BY <1>2, SameCheap
<1>5. Outcome(k)' BY <1>1, <1>2 DEF JobSound, Outcome, J!IsPoster
<1>6. Ran(k, "render", "finish") BY <1>0, <1>1, <1>2 DEF JobSound, Renders, Ran
<1> QED BY <1>0, <1>1, <1>2, <1>3, <1>4, <1>5, <1>6, RunStep

LEMMA RenderRaisesKeeps ==
    ASSUME RenderAssumed, JobsIInv, NEW w \in J!Workers, J!RenderRaises(w),
           UNCHANGED <<post, marker, up, crashes>>
    PROVE  JobsIInv'
<1>0. horse[w].pc = "render" BY DEF J!RenderRaises
<1> PICK k \in Jobs : k = horse[w].job BY <1>0, HeldFacts
<1>1. /\ horse[w] \in Horses /\ JobSound(k) /\ job[k].status \notin {"none", "deleted"}
      /\ job \in [Jobs -> J!Row] /\ geo \subseteq Jobs /\ file \subseteq Jobs
      /\ mails \in [Jobs -> [ready: Nat, failed: Nat]]
  BY <1>0, HeldFacts
<1>2. /\ UNCHANGED <<job, queued, mails>> /\ geo' \subseteq Jobs /\ file' \subseteq Jobs
      /\ \A j \in Jobs \ {k} : j \in file' <=> j \in file
  BY <1>1 DEF J!RenderRaises, J!DeleteFiles, J!disk
<1>3. PICK x \in Horses : x.job = k /\ x.pc = "fail" /\ horse' = [horse EXCEPT ![w] = x]
  BY <1>1, JobGotoIs DEF J!RenderRaises
<1>4. Cheap(k) BY <1>2, SameCheap
<1>5. Outcome(k)' BY <1>1, <1>2 DEF JobSound, Outcome, J!IsPoster
<1>6. Ran(k, "render", "fail") BY <1>0, <1>1, <1>2 DEF JobSound, Renders, Ran
<1> QED BY <1>0, <1>1, <1>2, <1>3, <1>4, <1>5, <1>6, RunStep

\* A video or preview that still waits or runs had no mail.
LEMMA NoMailYet ==
    ASSUME RenderAssumed, NEW k \in Jobs, JobSound(k), job[k] \in J!Row, ~J!IsPoster(k),
           mails \in [Jobs -> [ready: Nat, failed: Nat]], job[k].status \in J!NON_TERMINAL
    PROVE  /\ mails[k].ready = 0 /\ mails[k].failed = 0
           /\ job[k].kind \in {"video", "preview"}
<1>1. mails[k].ready \in Nat /\ mails[k].failed \in Nat OBVIOUS
<1>2. mails[k].ready # 1 /\ mails[k].failed # 1 BY DEF JobSound, Outcome, J!NON_TERMINAL
<1>3. mails[k].ready + mails[k].failed <= 1 BY <1>1 DEF JobSound, Outcome
<1>4. job[k].kind \in JobKinds BY DEF JobSound, Known, J!Row, J!NON_TERMINAL
<1>5. mails[k].ready = 0 /\ mails[k].failed = 0 BY <1>1, <1>2, <1>3
<1> QED BY <1>4, <1>5 DEF RenderAssumed, J!IsPoster

LEMMA FinishKeeps ==
    ASSUME RenderAssumed, JobsIInv, NEW w \in J!Workers, J!Finish(w), UNCHANGED <<post,
           marker, up, crashes>>
    PROVE  JobsIInv'
<1>0. horse[w].pc = "finish" BY DEF J!Finish
<1> PICK k \in Jobs : k = horse[w].job BY <1>0, HeldFacts
<1>1. /\ horse[w] \in Horses /\ JobSound(k) /\ job[k].status \notin {"none", "deleted"}
      /\ job \in [Jobs -> J!Row] /\ geo \subseteq Jobs /\ file \subseteq Jobs
      /\ mails \in [Jobs -> [ready: Nat, failed: Nat]]
  BY <1>0, HeldFacts
<1>2. UNCHANGED <<queued, mails>> BY DEF J!Finish
<1>3. CASE /\ J!IsPoster(k) \/ J!CanMove(k, {"running"})
           /\ J!SetStatus(k, "done") /\ J!Goto(w, IF job[k].kind = "preview" THEN "end" ELSE "ready")
           /\ UNCHANGED J!disk
  <2>0. "done" \in J!Statuses BY DEF J!Statuses
  <2>1. /\ job' \in [Jobs -> J!Row] /\ \A j \in Jobs \ {k} : job'[j] = job[j]
        /\ job'[k].status = "done" /\ job'[k].kind = job[k].kind /\ job'[k].age = job[k].age
    BY <1>1, <1>3, <2>0, SetIs
  <2> DEFINE pc == IF job[k].kind = "preview" THEN "end" ELSE "ready"
  <2>2. PICK x \in Horses : x.job = k /\ x.pc = pc /\ horse' = [horse EXCEPT ![w] = x]
    BY <1>1, <1>3, JobGotoIs
  <2>3. file' = file /\ geo' \subseteq Jobs BY <1>1, <1>3 DEF J!disk
  <2>4. J!IsPoster(k) \/ job[k].status = "running" BY <1>3 DEF J!CanMove
  <2>5. Cheap(k) BY <2>1, <2>4, MoveCheap DEF J!NON_TERMINAL, J!IsPoster
  <2>6. ~J!IsPoster(k) => /\ mails[k].ready = 0 /\ mails[k].failed = 0
                        /\ job[k].kind \in {"video", "preview"} /\ k \in file
    BY <1>0, <1>1, <2>4, NoMailYet DEF J!NON_TERMINAL, JobSound, Renders
  <2>7. Outcome(k)' BY <1>2, <2>1, <2>6 DEF Outcome, J!IsPoster
  <2>8. Ran(k, "finish", pc) BY <1>2, <2>1, <2>3, <2>4, <2>6 DEF Ran
  <2>9. x.pc # "idle" BY <2>2
  <2> HIDE DEF pc
  <2> QED BY <1>0, <1>1, <1>2, <2>1, <2>2, <2>3, <2>5, <2>7, <2>8, <2>9, RunStep
<1>4. CASE ~(J!IsPoster(k) \/ J!CanMove(k, {"running"})) /\ J!DeleteFiles(k) /\ J!Goto(w, "end") /\ UNCHANGED job
  <2>1. PICK x \in Horses : x.job = k /\ x.pc = "end" /\ horse' = [horse EXCEPT ![w] = x]
    BY <1>1, <1>4, JobGotoIs
  <2>2. /\ geo' \subseteq Jobs /\ file' \subseteq Jobs /\ mails' = mails /\ job' = job
        /\ \A j \in Jobs \ {k} : j \in file' <=> j \in file
    BY <1>1, <1>2, <1>4 DEF J!DeleteFiles
  <2>3. Cheap(k) BY <1>4, SameCheap
  <2>4. Outcome(k)' BY <1>1, <2>2 DEF JobSound, Outcome, J!IsPoster
  <2>5. job[k].status = "failed" BY <1>0, <1>1, <1>4 DEF JobSound, Renders, J!CanMove
  <2>6. Ran(k, "finish", "end") BY <2>2, <2>5 DEF Ran
  <2> QED BY <1>0, <1>1, <1>2, <2>1, <2>2, <2>3, <2>4, <2>6, RunStep
<1> QED BY <1>3, <1>4 DEF J!Finish

LEMMA FailKeeps ==
    ASSUME RenderAssumed, JobsIInv, NEW w \in J!Workers, J!Fail(w), UNCHANGED <<post, marker,
           up, crashes>>
    PROVE  JobsIInv'
<1>0. horse[w].pc = "fail" BY DEF J!Fail
<1> PICK k \in Jobs : k = horse[w].job BY <1>0, HeldFacts
<1>1. /\ horse[w] \in Horses /\ JobSound(k) /\ job[k].status \notin {"none", "deleted"}
      /\ job \in [Jobs -> J!Row] /\ geo \subseteq Jobs /\ file \subseteq Jobs
      /\ mails \in [Jobs -> [ready: Nat, failed: Nat]]
  BY <1>0, HeldFacts
<1>2. UNCHANGED <<queued, mails>> /\ file' = file /\ geo' \subseteq Jobs BY <1>1 DEF J!Fail, J!disk
<1> DEFINE moves == J!IsPoster(k) \/ J!CanMove(k, {"running"})
           pc == IF moves /\ job[k].kind # "preview" THEN "sorry" ELSE "end"
<1>3. /\ IF moves THEN J!SetStatus(k, "failed") ELSE UNCHANGED job
      /\ J!Goto(w, pc)
  BY DEF J!Fail
<1>4. PICK x \in Horses : x.job = k /\ x.pc = pc /\ horse' = [horse EXCEPT ![w] = x]
  BY <1>1, <1>3, JobGotoIs
<1>5. x.pc # "idle" BY <1>4
<1>6. CASE moves
  <2>0. "failed" \in J!Statuses BY DEF J!Statuses
  <2>1. /\ job' \in [Jobs -> J!Row] /\ \A j \in Jobs \ {k} : job'[j] = job[j]
        /\ job'[k].status = "failed" /\ job'[k].kind = job[k].kind /\ job'[k].age = job[k].age
    BY <1>1, <1>3, <1>6, <2>0, SetIs
  <2>4. J!IsPoster(k) \/ job[k].status = "running" BY <1>6 DEF J!CanMove
  <2>5. Cheap(k) BY <2>1, <2>4, MoveCheap DEF J!NON_TERMINAL, J!IsPoster
  <2>6. ~J!IsPoster(k) => /\ mails[k].ready = 0 /\ mails[k].failed = 0
                        /\ job[k].kind \in {"video", "preview"}
    BY <1>1, <2>4, NoMailYet DEF J!NON_TERMINAL
  <2>7. Outcome(k)' BY <1>2, <2>1, <2>6 DEF Outcome, J!IsPoster
  <2>8. Ran(k, "fail", pc) BY <1>2, <2>1, <2>4, <2>6 DEF Ran
  <2> HIDE DEF pc
  <2> QED BY <1>0, <1>1, <1>2, <1>4, <1>5, <2>1, <2>5, <2>7, <2>8, RunStep
<1>7. CASE ~moves
  <2>1. job' = job /\ pc = "end" BY <1>3, <1>7
  <2>2. Cheap(k) BY <2>1, SameCheap
  <2>3. Outcome(k)' BY <1>1, <1>2, <2>1 DEF JobSound, Outcome, J!IsPoster
  <2>4. job[k].status = "failed" BY <1>0, <1>1, <1>7 DEF JobSound, Renders, J!CanMove
  <2>5. Ran(k, "fail", pc) BY <1>2, <2>1, <2>4 DEF Ran
  <2> HIDE DEF pc
  <2> QED BY <1>0, <1>1, <1>2, <1>4, <1>5, <2>1, <2>2, <2>3, <2>5, RunStep
<1> QED BY <1>6, <1>7

LEMMA NotifyKeeps ==
    ASSUME RenderAssumed, JobsIInv, NEW w \in J!Workers, J!Notify(w), UNCHANGED <<post,
           marker, up, crashes>>
    PROVE  JobsIInv'
<1>0. horse[w].pc \in {"ready", "sorry"} BY DEF J!Notify
<1> PICK k \in Jobs : k = horse[w].job BY <1>0, HeldFacts
<1>1. /\ horse[w] \in Horses /\ JobSound(k) /\ job[k].status \notin {"none", "deleted"}
      /\ job \in [Jobs -> J!Row] /\ geo \subseteq Jobs /\ file \subseteq Jobs
      /\ mails \in [Jobs -> [ready: Nat, failed: Nat]]
  BY <1>0, HeldFacts
<1>2. UNCHANGED <<job, geo, file, queued>> BY DEF J!Notify, J!disk
<1>3. PICK x \in Horses : x.job = k /\ x.pc = "end" /\ horse' = [horse EXCEPT ![w] = x]
  BY <1>1, JobGotoIs DEF J!Notify
<1>4. Cheap(k) BY <1>2, SameCheap
<1>5. CASE mails' = mails
  <2>1. Outcome(k)' BY <1>1, <1>2, <1>5 DEF JobSound, Outcome, J!IsPoster
  <2>2. Ran(k, horse[w].pc, "end") BY <1>0, <1>1, <1>2, <1>5 DEF Ran, JobSound, Files
  <2> QED BY <1>1, <1>2, <1>3, <1>4, <1>5, <2>1, <2>2, RunStep
<1>6. ASSUME NEW what \in {"ready", "failed"}, J!SendMail(k, what),
             what = IF horse[w].pc = "ready" THEN "ready" ELSE "failed"
      PROVE  JobsIInv'
  <2>1. /\ mails' \in [Jobs -> [ready: Nat, failed: Nat]]
        /\ \A j \in Jobs \ {k} : mails'[j] = mails[j]
        /\ mails'[k].ready = mails[k].ready + (IF what = "ready" THEN 1 ELSE 0)
        /\ mails'[k].failed = mails[k].failed + (IF what = "failed" THEN 1 ELSE 0)
    BY <1>1, <1>6, MailIs
  <2>2. ~J!IsPoster(k) =>
          /\ mails[k].ready = 0 /\ mails[k].failed = 0 /\ job[k].kind = "video"
          /\ what = "ready" => job[k].status \in {"done", "expired"}
          /\ what = "failed" => job[k].status = "failed"
    BY <1>0, <1>1, <1>6 DEF JobSound, Renders
  <2>3. Outcome(k)' BY <1>2, <2>1, <2>2 DEF Outcome, J!IsPoster
  <2>4. Ran(k, horse[w].pc, "end") BY <1>0, <1>1, <1>2 DEF Ran, JobSound, Files
  <2> QED BY <1>1, <1>2, <1>3, <1>4, <2>1, <2>3, <2>4, RunStep
<1> QED BY <1>0, <1>5, <1>6 DEF J!Notify

LEMMA FinallyKeeps ==
    ASSUME RenderAssumed, JobsIInv, NEW w \in J!Workers, J!Finally(w), UNCHANGED <<post,
           marker, up, crashes>>
    PROVE  JobsIInv'
<1>0. horse[w].pc = "end" BY DEF J!Finally
<1> PICK k \in Jobs : k = horse[w].job BY <1>0, HeldFacts
<1>1. /\ horse[w] \in Horses /\ JobSound(k) /\ job[k].status \notin {"none", "deleted"}
      /\ job \in [Jobs -> J!Row] /\ geo \subseteq Jobs /\ file \subseteq Jobs
      /\ mails \in [Jobs -> [ready: Nat, failed: Nat]]
      /\ J!IdleHorse \in Horses /\ J!IdleHorse.job = NoJob /\ J!IdleHorse.pc = "idle"
  BY <1>0, HeldFacts
<1>2. UNCHANGED <<job, file, queued, mails>> /\ geo' \subseteq Jobs BY <1>1 DEF J!Finally
<1>3. horse' = [horse EXCEPT ![w] = J!IdleHorse] BY DEF J!Finally, J!Leave
<1>4. Cheap(k) BY <1>2, SameCheap
<1>5. Outcome(k)' BY <1>1, <1>2 DEF JobSound, Outcome, J!IsPoster
<1>6. Ran(k, "end", "idle") BY <1>1, <1>2 DEF Ran, JobSound, Files
<1> QED BY <1>0, <1>1, <1>2, <1>3, <1>4, <1>5, <1>6, RunStep

LEMMA RunKeeps ==
    ASSUME RenderAssumed, JobsIInv, NEW w \in J!Workers, J!Run(w) PROVE JobsIInv'
BY TakeKeeps, JobStartKeeps, RenderOkKeeps, RenderRaisesKeeps, FinishKeeps, FailKeeps, NotifyKeeps,
   FinallyKeeps DEF J!Run

\* A step of the sweeps that lets go of work, or looks for some.
LEMMA ReleaseKeeps ==
    ASSUME RenderAssumed, JobsIInv, UNCHANGED <<job, file, mails>>,
           geo' \subseteq Jobs, queued' \subseteq queued, up' \subseteq J!Workers, crashes' \in 0..MaxCrashes,
           post' \in [Clients -> Posts], horse' \in [J!Workers -> Horses],
           marker' \in [J!Sweepers -> Markers],
           \A c \in Clients : post'[c] \in {post[c], J!IdlePost},
           \A w \in J!Workers : horse'[w] \in {horse[w], J!IdleHorse},
           \A s \in J!Sweepers :
             \/ marker'[s] = marker[s]
             \/ /\ marker'[s].job = NoJob /\ marker'[s].pc \in {"idle", "mark"}
                /\ \A j \in marker'[s].todo :
                     \/ j \in marker[s].todo
                     \/ /\ job[j].status # "none"
                        /\ J!IsPoster(j) => \A c \in Clients : post'[c].job # j
    PROVE  JobsIInv'
<1>1. JobsTyped BY DEF JobsIInv
<1>2. NoJob \notin Jobs /\ queued' \subseteq Jobs BY <1>1, Types
<1>3. /\ J!IdlePost.job = NoJob /\ J!IdlePost.pc = "idle" /\ J!IdleHorse.job = NoJob
      /\ J!IdleHorse.pc = "idle"
  BY DEF J!IdlePost, J!IdleHorse
<1>4. JobsTyped'
  <2>1. \A c \in Clients : /\ post'[c].pc \in {"geometry", "enqueue"} <=> post'[c].job # NoJob
                           /\ post'[c].pc = "create" => post'[c].kind \in JobKinds
    BY <1>1, <1>3 DEF JobsTyped
  <2>2. \A w \in J!Workers : horse'[w].pc # "idle" => horse'[w].job \in Jobs
    BY <1>1, <1>3 DEF JobsTyped, J!TypeOK
  <2>3. \A s \in J!Sweepers : marker'[s].pc \in {"idle", "mark"} <=> marker'[s].job = NoJob
    BY <1>1 DEF JobsTyped, J!TypeOK
  <2>4. J!TypeOK' BY <1>1, <1>2, <2>2, <2>3 DEF JobsTyped, J!TypeOK
  <2>5. mails' \in [Jobs -> [ready: Nat, failed: Nat]]
    BY <1>1 DEF JobsTyped
  <2>6. \A w \in J!Workers : horse'[w].pc = "idle" => horse'[w].job = NoJob
    BY <1>1, <1>3 DEF JobsTyped
  <2> QED BY <2>1, <2>4, <2>5, <2>6 DEF JobsTyped
<1>5. \A j \in Jobs : Same(j)
  <2> SUFFICES ASSUME NEW j \in Jobs PROVE Same(j) OBVIOUS
  <2>1. \A c \in Clients : post'[c].job = j => post[c].job = j BY <1>2, <1>3
  <2>2. \A w \in J!Workers : horse'[w].job = j => horse[w].job = j /\ horse'[w].pc = horse[w].pc
    BY <1>2, <1>3
  <2>3. \A s \in J!Sweepers : marker'[s].job = j => marker[s].job = j /\ marker'[s].pc = marker[s].pc
    BY <1>2
  <2> QED BY <2>1, <2>2, <2>3 DEF Same
<1>6. \A j \in Jobs : Cheap(j) BY SameCheap
<1> QED BY <1>4, <1>5, <1>6, NoStep

\* The sweeper's next marks are a marker.
LEMMA MarksIs ==
    ASSUME RenderAssumed, marker \in [J!Sweepers -> Markers], NEW s \in J!Sweepers,
           NEW todo \in SUBSET Jobs, J!Marks(s, todo)
    PROVE  \E y \in Markers : /\ marker' = [marker EXCEPT ![s] = y]
                              /\ y.job = NoJob /\ y.pc \in {"idle", "mark"} /\ y.todo = todo
<1> DEFINE y == IF todo = {} THEN J!IdleMarker ELSE [pc |-> "mark", job |-> NoJob, todo |-> todo]
<1>1. y \in Markers /\ y.job = NoJob /\ y.pc \in {"idle", "mark"} /\ y.todo = todo
  BY DEF J!IdleMarker, Markers
<1>2. marker' = [marker EXCEPT ![s] = y] BY DEF J!Marks
<1> QED BY <1>1, <1>2

\* A step of the sweeps about job k.
LEMMA MarkStep ==
    ASSUME RenderAssumed, JobsIInv, NEW s \in J!Sweepers, NEW k \in Jobs,
           NEW y \in Markers, marker' = [marker EXCEPT ![s] = y],
           y.job \in {k, NoJob}, y.pc \in {"idle", "mark"} <=> y.job = NoJob,
           y.todo \subseteq marker[s].todo,
           UNCHANGED <<post, horse, queued, up, crashes>>,
           job' \in [Jobs -> J!Row], \A j \in Jobs \ {k} : job'[j] = job[j],
           job'[k].kind = job[k].kind, job'[k].status # "none", Cheap(k),
           geo' \subseteq Jobs, file' \subseteq Jobs, \A j \in Jobs \ {k} : j \in file' <=> j \in file,
           mails' \in [Jobs -> [ready: Nat, failed: Nat]], \A j \in Jobs \ {k} : mails'[j] = mails[j],
           job[k].status # "none",
           J!IsPoster(k) => \A c \in Clients : post[c].job # k,
           Renders(k)', Sweeps(k)', Outcome(k)', Files(k)'
    PROVE  JobsIInv'
<1>1. JobsTyped BY DEF JobsIInv
<1>2. NoJob \notin Jobs /\ marker \in [J!Sweepers -> Markers] BY <1>1, Types
<1>3. /\ marker' \in [J!Sweepers -> Markers]
      /\ \A t \in J!Sweepers : marker'[t] = IF t = s THEN y ELSE marker[t]
  BY <1>2
<1>4. JobsTyped'
  <2>1. \A j \in Jobs : mails'[j].ready \in Nat /\ mails'[j].failed \in Nat OBVIOUS
  <2>2. \A t \in J!Sweepers : marker'[t].pc \in {"idle", "mark"} <=> marker'[t].job = NoJob
    BY <1>1, <1>3 DEF JobsTyped, J!TypeOK
  <2> QED BY <1>1, <1>3, <2>1, <2>2 DEF JobsTyped, J!TypeOK
<1>5. JobSound(k) BY DEF JobsIInv
<1>6. OneHolder(k)' BY <1>5 DEF JobSound, OneHolder
<1>7. Known(k)' BY <1>5 DEF JobSound, Known, J!IsPoster
<1>8. JobSound(k)' BY <1>6, <1>7 DEF JobSound
<1>9. \A j \in Jobs \ {k} : Same(j) /\ job'[j] = job[j] BY <1>2, <1>3 DEF Same
<1> QED BY <1>4, <1>8, <1>9, OneStep

\* The steps of mark_video_job_interrupted: who moves the row to failed is the only one
\* to write of it.
LEMMA MarkKeeps ==
    ASSUME RenderAssumed, JobsIInv, NEW s \in J!Sweepers, J!Mark(s),
           UNCHANGED <<queued, post, horse, up, crashes>>
    PROVE  JobsIInv'
<1>1. JobsTyped BY DEF JobsIInv
<1>2. /\ marker \in [J!Sweepers -> Markers] /\ marker[s] \in Markers /\ NoJob \notin Jobs
      /\ job \in [Jobs -> J!Row] /\ geo \subseteq Jobs /\ file \subseteq Jobs
      /\ post \in [Clients -> Posts] /\ horse \in [J!Workers -> Horses] /\ queued \subseteq Jobs
      /\ mails \in [Jobs -> [ready: Nat, failed: Nat]]
      /\ up \subseteq J!Workers /\ crashes \in 0..MaxCrashes
  BY <1>1, Types
<1>3. UNCHANGED <<geo, file, mails>> BY DEF J!Mark, J!disk
<1>4. marker[s].todo \subseteq Jobs BY <1>2 DEF Markers
<1>a. ASSUME NEW k \in marker[s].todo, J!Moves(k), J!SetStatus(k, "failed"),
             marker' = [marker EXCEPT ![s].pc = IF J!IsPoster(k) THEN "mail" ELSE "delete",
                                      ![s].job = k, ![s].todo = @ \ {k}]
      PROVE  JobsIInv'
  <2> DEFINE y == [marker[s] EXCEPT !.pc = IF J!IsPoster(k) THEN "mail" ELSE "delete",
                                    !.job = k, !.todo = @ \ {k}]
  <2>1. /\ y \in Markers /\ y.job = k /\ y.todo \subseteq marker[s].todo
        /\ y.pc = IF J!IsPoster(k) THEN "mail" ELSE "delete"
    BY <1>2, <1>4 DEF Markers
  <2>2. marker' = [marker EXCEPT ![s] = y] BY <1>2, <1>a
  <2> HIDE DEF y
  <2>3. k \in Jobs /\ job[k].status \in J!NON_TERMINAL /\ "failed" \in J!Statuses
    BY <1>4, <1>a DEF J!Moves, J!CanMove, J!Statuses
  <2>4. /\ job' \in [Jobs -> J!Row] /\ \A j \in Jobs \ {k} : job'[j] = job[j]
        /\ job'[k].status = "failed" /\ job'[k].kind = job[k].kind /\ job'[k].age = job[k].age
    BY <1>2, <1>a, <2>3, SetIs
  <2>5. Cheap(k) BY <2>3, <2>4, MoveCheap
  <2>6. JobSound(k) /\ job[k] \in J!Row BY <1>2, <2>3 DEF JobsIInv
  <2>7. ~J!IsPoster(k) => /\ mails[k].ready = 0 /\ mails[k].failed = 0
                        /\ job[k].kind \in {"video", "preview"}
    BY <1>2, <2>3, <2>6, NoMailYet
  <2>8. J!IsPoster(k) => \A c \in Clients : post[c].job # k
    BY <1>a, <2>6 DEF JobSound, Known
  <2>9. J!IsPoster(k)' = J!IsPoster(k) /\ HeldBy(k)' = HeldBy(k) BY <2>4 DEF J!IsPoster, HeldBy
  <2>10. ~J!IsPoster(k) => \A w \in J!Workers : horse[w].job = k => horse[w].pc \notin {"ready", "sorry"}
    BY <2>3, <2>6 DEF JobSound, Renders, J!NON_TERMINAL
  <2>11. Renders(k)' BY <2>4, <2>9, <2>10 DEF Renders
  <2>12. \A t \in J!Sweepers : marker'[t] = IF t = s THEN y ELSE marker[t] BY <1>2, <2>1, <2>2
  <2>13. ~J!IsPoster(k) => \A t \in J!Sweepers :
           marker[t].job = k => marker[t].pc \notin {"delete", "mail", "erase"}
    BY <2>3, <2>6 DEF JobSound, Sweeps, J!NON_TERMINAL
  <2>14. Sweeps(k)'
    <3> SUFFICES ASSUME NEW t \in J!Sweepers, marker'[t].job = k PROVE Sweeps(k)!(t)!2'
      BY DEF Sweeps
    <3>1. CASE t = s BY <1>3, <2>1, <2>4, <2>7, <2>9, <2>10, <2>12, <2>13, <3>1 DEF J!IsPoster
    <3>2. CASE t # s
      BY <1>3, <2>1, <2>4, <2>6, <2>9, <2>12, <2>13, <3>2 DEF JobSound, Sweeps
    <3> QED BY <3>1, <3>2
  <2>15. Outcome(k)' BY <1>3, <2>4, <2>7, <2>9 DEF Outcome
  <2>16. Files(k)' BY <2>4 DEF Files
  <2> QED BY <1>2, <1>3, <2>1, <2>2, <2>3, <2>4, <2>5, <2>8, <2>11, <2>14, <2>15, <2>16, MarkStep
       DEF J!NON_TERMINAL
<1>b. ASSUME NEW k \in marker[s].todo, J!Marks(s, marker[s].todo \ {k}), UNCHANGED job
      PROVE  JobsIInv'
  <2>1. PICK y \in Markers : /\ marker' = [marker EXCEPT ![s] = y] /\ y.job = NoJob
                             /\ y.pc \in {"idle", "mark"} /\ y.todo = marker[s].todo \ {k}
    BY <1>2, <1>4, <1>b, MarksIs
  <2>2. /\ marker' \in [J!Sweepers -> Markers]
        /\ \A t \in J!Sweepers : marker'[t] = IF t = s THEN y ELSE marker[t]
    BY <1>2, <2>1
  <2> QED BY <1>b, <1>2, <1>3, <2>1, <2>2, ReleaseKeeps
<1> QED BY <1>a, <1>b DEF J!Mark

\* What a sweeper that is at a job knows.
LEMMA MarkFacts ==
    ASSUME RenderAssumed, JobsIInv, NEW s \in J!Sweepers, marker[s].pc \notin {"idle", "mark"}
    PROVE  \E k \in Jobs :
             /\ k = marker[s].job /\ JobSound(k) /\ marker[s] \in Markers /\ marker[s].todo \subseteq Jobs
             /\ job[k].status # "none" /\ (J!IsPoster(k) => \A c \in Clients : post[c].job # k)
             /\ marker \in [J!Sweepers -> Markers] /\ job \in [Jobs -> J!Row]
             /\ geo \subseteq Jobs /\ file \subseteq Jobs /\ NoJob \notin Jobs
             /\ mails \in [Jobs -> [ready: Nat, failed: Nat]]
<1>1. JobsTyped BY DEF JobsIInv
<1>2. PICK k \in Jobs : k = marker[s].job BY <1>1, Types
<1>3. JobSound(k) BY DEF JobsIInv
<1>4. /\ job[k].status # "none"
      /\ J!IsPoster(k) => \A c \in Clients : post[c].job # k
  BY <1>2, <1>3 DEF JobSound, Known, NotBegun
<1>5. marker[s] \in Markers /\ marker[s].todo \subseteq Jobs BY <1>1, Types DEF Markers
<1>6. /\ marker \in [J!Sweepers -> Markers] /\ job \in [Jobs -> J!Row]
      /\ geo \subseteq Jobs /\ file \subseteq Jobs /\ NoJob \notin Jobs
      /\ mails \in [Jobs -> [ready: Nat, failed: Nat]]
  BY <1>1, Types
<1> QED BY <1>2, <1>3, <1>4, <1>5, <1>6

LEMMA MarkDeleteKeeps ==
    ASSUME RenderAssumed, JobsIInv, NEW s \in J!Sweepers, J!MarkDelete(s),
           UNCHANGED <<queued, post, horse, up, crashes>>
    PROVE  JobsIInv'
<1>0. marker[s].pc = "delete" BY DEF J!MarkDelete
<1>1. PICK k \in Jobs :
             /\ k = marker[s].job /\ JobSound(k) /\ marker[s] \in Markers /\ marker[s].todo \subseteq Jobs
             /\ job[k].status # "none" /\ (J!IsPoster(k) => \A c \in Clients : post[c].job # k)
             /\ marker \in [J!Sweepers -> Markers] /\ job \in [Jobs -> J!Row]
             /\ geo \subseteq Jobs /\ file \subseteq Jobs /\ NoJob \notin Jobs
             /\ mails \in [Jobs -> [ready: Nat, failed: Nat]]
  BY <1>0, MarkFacts
<1>2. /\ UNCHANGED <<job, mails>> /\ geo' = geo \ {k} /\ file' = file \ {k}
      /\ IF job[k].kind = "video" THEN marker' = [marker EXCEPT ![s].pc = "mail"]
                                  ELSE J!Marks(s, marker[s].todo)
  BY <1>1 DEF J!MarkDelete, J!DeleteFiles
<1>3. PICK y \in Markers : /\ marker' = [marker EXCEPT ![s] = y] /\ y.todo = marker[s].todo
                           /\ \/ y.job = k /\ y.pc = "mail" /\ job[k].kind = "video"
                              \/ y.job = NoJob /\ y.pc \in {"idle", "mark"}
  <2>1. CASE job[k].kind = "video"
    <3> DEFINE y == [marker[s] EXCEPT !.pc = "mail"]
    <3>1. y \in Markers /\ y.job = k /\ y.pc = "mail" /\ y.todo = marker[s].todo
      BY <1>1 DEF Markers
    <3>2. marker' = [marker EXCEPT ![s] = y] BY <1>2, <2>1
    <3> QED BY <2>1, <3>1, <3>2
  <2>2. CASE job[k].kind # "video"
    <3>1. J!Marks(s, marker[s].todo) BY <1>2, <2>2
    <3> QED BY <1>1, <3>1, MarksIs
  <2> QED BY <2>1, <2>2
<1>4. \A t \in J!Sweepers : marker'[t] = IF t = s THEN y ELSE marker[t] BY <1>1, <1>3
<1>5. ~J!IsPoster(k) /\ job[k].status = "failed" BY <1>0, <1>1 DEF JobSound, Sweeps
<1>6. Renders(k)' BY <1>1, <1>2, <1>5 DEF JobSound, Renders, J!IsPoster
<1>7. J!IsPoster(k)' = J!IsPoster(k) BY <1>2 DEF J!IsPoster
<1>8. Sweeps(k)'
  <2> SUFFICES ASSUME NEW t \in J!Sweepers, marker'[t].job = k PROVE Sweeps(k)!(t)!2'
    BY DEF Sweeps
  <2> QED BY <1>0, <1>1, <1>2, <1>3, <1>4, <1>5, <1>7 DEF JobSound, Sweeps
<1>9. Outcome(k)' /\ Files(k)' BY <1>1, <1>2, <1>5, <1>7 DEF JobSound, Outcome, Files
<1>10. Cheap(k) BY <1>2, SameCheap
<1>11. y.job \in {k, NoJob} /\ (y.pc \in {"idle", "mark"} <=> y.job = NoJob)
  BY <1>1, <1>3
<1>12. geo' \subseteq Jobs /\ file' \subseteq Jobs /\ \A j \in Jobs \ {k} : j \in file' <=> j \in file
  BY <1>1, <1>2
<1> QED BY <1>1, <1>2, <1>3, <1>6, <1>8, <1>9, <1>10, <1>11, <1>12, MarkStep

LEMMA MarkMailKeeps ==
    ASSUME RenderAssumed, JobsIInv, NEW s \in J!Sweepers, J!MarkMail(s),
           UNCHANGED <<queued, post, horse, up, crashes>>
    PROVE  JobsIInv'
<1>0. marker[s].pc = "mail" BY DEF J!MarkMail
<1>1. PICK k \in Jobs :
             /\ k = marker[s].job /\ JobSound(k) /\ marker[s] \in Markers /\ marker[s].todo \subseteq Jobs
             /\ job[k].status # "none" /\ (J!IsPoster(k) => \A c \in Clients : post[c].job # k)
             /\ marker \in [J!Sweepers -> Markers] /\ job \in [Jobs -> J!Row]
             /\ geo \subseteq Jobs /\ file \subseteq Jobs /\ NoJob \notin Jobs
             /\ mails \in [Jobs -> [ready: Nat, failed: Nat]]
  BY <1>0, MarkFacts
<1>2. UNCHANGED <<job, geo, file>> /\ (J!SendMail(k, "failed") \/ UNCHANGED mails)
  BY <1>1 DEF J!MarkMail, J!disk
<1>3. PICK y \in Markers : /\ marker' = [marker EXCEPT ![s] = y] /\ y.todo = marker[s].todo
                           /\ y.job = NoJob /\ y.pc \in {"idle", "mark"}
  BY <1>1, MarksIs DEF J!MarkMail
<1>4. \A t \in J!Sweepers : marker'[t] = IF t = s THEN y ELSE marker[t] BY <1>1, <1>3
<1>5. /\ mails' \in [Jobs -> [ready: Nat, failed: Nat]] /\ \A j \in Jobs \ {k} : mails'[j] = mails[j]
      /\ mails'[k].ready = mails[k].ready
      /\ mails'[k].failed = mails[k].failed \/ mails'[k].failed = mails[k].failed + 1
  BY <1>1, <1>2, MailIs
<1>6. /\ job[k].kind \in {"video", "poster"}
      /\ ~J!IsPoster(k) =>
           /\ job[k].status = "failed" /\ mails[k].ready = 0 /\ mails[k].failed = 0
           /\ \A w \in J!Workers : horse[w].job = k => horse[w].pc \notin {"ready", "sorry"}
           /\ \A t \in J!Sweepers : marker[t].job = k /\ marker[t].pc \in {"delete", "mail"} => t = s
  BY <1>0, <1>1 DEF JobSound, Sweeps
<1>7. J!IsPoster(k)' = J!IsPoster(k) BY <1>2 DEF J!IsPoster
<1>8. Renders(k)' BY <1>1, <1>2, <1>6, <1>7 DEF JobSound, Renders
<1>9. Sweeps(k)'
  <2> SUFFICES ASSUME NEW t \in J!Sweepers, marker'[t].job = k PROVE Sweeps(k)!(t)!2'
    BY DEF Sweeps
  <2>1. t # s /\ marker[t].job = k /\ marker'[t] = marker[t] BY <1>1, <1>3, <1>4
  <2>2. HeldBy(k)' = HeldBy(k) BY DEF HeldBy
  <2> QED BY <1>1, <1>2, <1>6, <1>7, <2>1, <2>2 DEF JobSound, Sweeps
<1>10. Outcome(k)' BY <1>2, <1>5, <1>6, <1>7 DEF Outcome, J!IsPoster
<1>11. Files(k)' BY <1>1, <1>2, <1>7 DEF JobSound, Files, HeldBy
<1>12. Cheap(k) BY <1>2, SameCheap
<1> QED BY <1>1, <1>2, <1>3, <1>5, <1>8, <1>9, <1>10, <1>11, <1>12, MarkStep

\* The hourly sweep.
LEMMA HourlyReadKeeps ==
    ASSUME RenderAssumed, JobsIInv, J!HourlyRead, UNCHANGED <<queued, post, horse, up, crashes>>
    PROVE  JobsIInv'
<1>1. JobsTyped BY DEF JobsIInv
<1>2. /\ marker \in [J!Sweepers -> Markers] /\ NoJob \notin Jobs /\ geo \subseteq Jobs
      /\ post \in [Clients -> Posts] /\ horse \in [J!Workers -> Horses] /\ queued \subseteq Jobs
      /\ up \subseteq J!Workers /\ crashes \in 0..MaxCrashes /\ "hourly" \in J!Sweepers
  BY <1>1, Types DEF J!Sweepers
<1>3. UNCHANGED <<job, geo, file, mails>> BY DEF J!HourlyRead, J!disk
<1> DEFINE todo == {j \in Jobs: J!Stale(j)}
<1>4. todo \in SUBSET Jobs /\ J!Marks("hourly", todo) BY DEF J!HourlyRead
<1>5. \A j \in todo : job[j].status # "none" /\ ~J!IsPoster(j) BY DEF J!Stale
<1> HIDE DEF todo
<1>6. PICK y \in Markers : /\ marker' = [marker EXCEPT !["hourly"] = y] /\ y.job = NoJob
                           /\ y.pc \in {"idle", "mark"} /\ y.todo = todo
  BY <1>2, <1>4, MarksIs
<1>7. /\ marker' \in [J!Sweepers -> Markers]
      /\ \A t \in J!Sweepers : marker'[t] = IF t = "hourly" THEN y ELSE marker[t]
  BY <1>2, <1>6
<1> QED BY <1>2, <1>3, <1>5, <1>6, <1>7, ReleaseKeeps

LEMMA StrayKeeps ==
    ASSUME RenderAssumed, JobsIInv, J!StrayGeometry, UNCHANGED <<queued, post, horse, up,
           crashes>>
    PROVE  JobsIInv'
<1>1. JobsTyped BY DEF JobsIInv
<1>2. /\ marker \in [J!Sweepers -> Markers] /\ NoJob \notin Jobs /\ geo \subseteq Jobs
      /\ post \in [Clients -> Posts] /\ horse \in [J!Workers -> Horses] /\ queued \subseteq Jobs
      /\ up \subseteq J!Workers /\ crashes \in 0..MaxCrashes
  BY <1>1, Types
<1>3. UNCHANGED <<job, file, mails, marker>> /\ geo' \subseteq Jobs BY <1>2 DEF J!StrayGeometry
<1> QED BY <1>2, <1>3, ReleaseKeeps

LEMMA ExpireKeeps ==
    ASSUME RenderAssumed, JobsIInv, J!Expire, UNCHANGED <<queued, post, horse, up, crashes>>
    PROVE  JobsIInv'
<1>1. JobsTyped BY DEF JobsIInv
<1>2. /\ marker \in [J!Sweepers -> Markers] /\ NoJob \notin Jobs
      /\ job \in [Jobs -> J!Row] /\ geo \subseteq Jobs /\ file \subseteq Jobs
      /\ mails \in [Jobs -> [ready: Nat, failed: Nat]]
      /\ "hourly" \in J!Sweepers /\ J!IdleMarker \in Markers
  BY <1>1, Types DEF J!Sweepers
<1>3. UNCHANGED <<geo, file, mails>> /\ marker["hourly"].pc = "idle" BY DEF J!Expire, J!disk
<1>0. PICK k \in Jobs :
      /\ ~J!IsPoster(k) /\ job[k].status = "done"
      /\ job' = [job EXCEPT ![k].status = "expired"]
      /\ marker' = [marker EXCEPT !["hourly"] = [J!IdleMarker EXCEPT !.pc = "erase", !.job = k]]
  BY DEF J!Expire, J!CanMove
<1> DEFINE y == [J!IdleMarker EXCEPT !.pc = "erase", !.job = k]
           m == [job[k] EXCEPT !.status = "expired"]
<1>4. y \in Markers /\ y.job = k /\ y.pc = "erase" /\ y.todo = {} BY DEF J!IdleMarker, Markers
<1>5. job[k] \in J!Row /\ "expired" \in J!Statuses BY <1>2 DEF J!Statuses
<1>6. m \in J!Row /\ m.status = "expired" /\ m.kind = job[k].kind /\ m.age = job[k].age
  BY <1>5 DEF J!Row
<1>7. job' = [job EXCEPT ![k] = m] /\ marker' = [marker EXCEPT !["hourly"] = y] BY <1>0
<1> HIDE DEF y, m
<1>8. /\ job' \in [Jobs -> J!Row] /\ \A j \in Jobs \ {k} : job'[j] = job[j]
      /\ job'[k].status = "expired" /\ job'[k].kind = job[k].kind /\ job'[k].age = job[k].age
      /\ \A t \in J!Sweepers : marker'[t] = IF t = "hourly" THEN y ELSE marker[t]
  BY <1>2, <1>4, <1>6, <1>7
<1>9. JobSound(k) BY DEF JobsIInv
<1>10. ~J!IsPoster(k)' BY <1>0, <1>8 DEF J!IsPoster
<1>11. Renders(k)' BY <1>0, <1>3, <1>8, <1>9 DEF JobSound, Renders
<1>12. Sweeps(k)'
  <2> SUFFICES ASSUME NEW t \in J!Sweepers, marker'[t].job = k PROVE Sweeps(k)!(t)!2'
    BY DEF Sweeps
  <2> QED BY <1>0, <1>3, <1>4, <1>8, <1>9, <1>10 DEF JobSound, Sweeps, J!IsPoster
<1>13. Outcome(k)' /\ Files(k)' BY <1>0, <1>3, <1>8, <1>9 DEF JobSound, Outcome, Files, J!IsPoster
<1>14. Cheap(k) BY <1>0, <1>8, MoveCheap
<1>15. job[k].status # "none" /\ (J!IsPoster(k) => \A c \in Clients : post[c].job # k) BY <1>0
<1> QED BY <1>2, <1>3, <1>4, <1>7, <1>8, <1>11, <1>12, <1>13, <1>14, <1>15, MarkStep

LEMMA ErasePosterKeeps ==
    ASSUME RenderAssumed, JobsIInv, J!ErasePoster, UNCHANGED <<queued, post, horse, up,
           crashes>>
    PROVE  JobsIInv'
<1>1. JobsTyped BY DEF JobsIInv
<1>2. /\ marker \in [J!Sweepers -> Markers] /\ NoJob \notin Jobs
      /\ job \in [Jobs -> J!Row] /\ geo \subseteq Jobs /\ file \subseteq Jobs
      /\ mails \in [Jobs -> [ready: Nat, failed: Nat]]
      /\ "hourly" \in J!Sweepers /\ J!IdleMarker \in Markers
  BY <1>1, Types DEF J!Sweepers
<1>3. UNCHANGED <<job, geo, mails>> /\ marker["hourly"].pc = "idle" BY DEF J!ErasePoster
<1>0. PICK k \in Jobs :
      /\ J!IsPoster(k) /\ job[k].status \in {"done", "failed"}
      /\ k \notin queued /\ \A w \in J!Workers : horse[w].job # k
      /\ file' = file \ {k}
      /\ marker' = [marker EXCEPT !["hourly"] = [J!IdleMarker EXCEPT !.pc = "row", !.job = k]]
  BY DEF J!ErasePoster, J!CanMove
<1> DEFINE y == [J!IdleMarker EXCEPT !.pc = "row", !.job = k]
<1>4. y \in Markers /\ y.job = k /\ y.pc = "row" /\ y.todo = {} BY DEF J!IdleMarker, Markers
<1>5. marker' = [marker EXCEPT !["hourly"] = y] BY <1>0
<1> HIDE DEF y
<1>6. \A t \in J!Sweepers : marker'[t] = IF t = "hourly" THEN y ELSE marker[t] BY <1>2, <1>4, <1>5
<1>7. JobSound(k) BY DEF JobsIInv
<1>8. \A c \in Clients : post[c].job # k BY <1>0, <1>7 DEF JobSound, Known
<1>9. J!IsPoster(k)' /\ ~HeldBy(k)' BY <1>0, <1>3, <1>8 DEF J!IsPoster, HeldBy
<1>10. Renders(k)' /\ Outcome(k)' BY <1>0, <1>3, <1>9 DEF Renders, Outcome
<1>11. Sweeps(k)'
  <2> SUFFICES ASSUME NEW t \in J!Sweepers, marker'[t].job = k PROVE Sweeps(k)!(t)!2'
    BY DEF Sweeps
  <2> QED BY <1>0, <1>3, <1>4, <1>6, <1>7, <1>9 DEF JobSound, Sweeps, J!IsPoster
<1>12. Files(k)' BY <1>0, <1>3, <1>9 DEF Files
<1>13. Cheap(k) BY <1>3, SameCheap
<1>14. /\ file' \subseteq Jobs /\ \A j \in Jobs \ {k} : j \in file' <=> j \in file
       /\ job[k].status # "none" /\ y.todo \subseteq marker["hourly"].todo
  BY <1>0, <1>2, <1>4
<1>15. J!IsPoster(k) => \A c \in Clients : post[c].job # k BY <1>8
<1> QED BY <1>2, <1>3, <1>4, <1>5, <1>6, <1>10, <1>11, <1>12, <1>13, <1>14, <1>15, MarkStep

LEMMA EraseKeeps ==
    ASSUME RenderAssumed, JobsIInv, J!Erase, UNCHANGED <<queued, post, horse, up, crashes>>
    PROVE  JobsIInv'
<1>0. "hourly" \in J!Sweepers /\ marker["hourly"].pc \in {"erase", "row"} BY DEF J!Erase, J!Sweepers
<1>1. PICK k \in Jobs :
             /\ k = marker["hourly"].job /\ JobSound(k) /\ marker["hourly"] \in Markers
             /\ marker["hourly"].todo \subseteq Jobs
             /\ job[k].status # "none" /\ (J!IsPoster(k) => \A c \in Clients : post[c].job # k)
             /\ marker \in [J!Sweepers -> Markers] /\ job \in [Jobs -> J!Row]
             /\ geo \subseteq Jobs /\ file \subseteq Jobs /\ NoJob \notin Jobs
             /\ mails \in [Jobs -> [ready: Nat, failed: Nat]]
  BY <1>0, MarkFacts
<1>2. /\ J!IdleMarker \in Markers /\ J!IdleMarker.job = NoJob /\ J!IdleMarker.pc = "idle"
      /\ J!IdleMarker.todo = {}
  BY DEF J!IdleMarker, Markers
<1>3. marker' = [marker EXCEPT !["hourly"] = J!IdleMarker] /\ mails' = mails BY DEF J!Erase
<1>4. \A t \in J!Sweepers : marker'[t] = IF t = "hourly" THEN J!IdleMarker ELSE marker[t]
  BY <1>1, <1>3
<1>5. HeldBy(k)' = HeldBy(k) BY DEF HeldBy
\* No other sweeper learns of k.
<1>6. ASSUME job'[k].kind = job[k].kind, job'[k].status = job[k].status \/ J!IsPoster(k),
             k \in file' => k \in file
      PROVE  Sweeps(k)'
  <2> SUFFICES ASSUME NEW t \in J!Sweepers, marker'[t].job = k PROVE Sweeps(k)!(t)!2'
    BY DEF Sweeps
  <2>1. marker[t].job = k /\ marker'[t] = marker[t] /\ t # "hourly" BY <1>1, <1>2, <1>4
  <2>2. \A u \in J!Sweepers : marker'[u].job = k => marker'[u] = marker[u] BY <1>1, <1>2, <1>4
  <2>3. J!IsPoster(k)' = J!IsPoster(k) BY <1>6 DEF J!IsPoster
  <2> QED BY <1>1, <1>3, <1>5, <1>6, <2>1, <2>2, <2>3 DEF JobSound, Sweeps
<1>7. CASE marker["hourly"].pc = "erase" /\ J!DeleteFiles(k) /\ UNCHANGED job
  <2>1. /\ geo' \subseteq Jobs /\ file' \subseteq Jobs /\ job' = job
        /\ \A j \in Jobs \ {k} : j \in file' <=> j \in file
        /\ k \notin file'
    BY <1>1, <1>7 DEF J!DeleteFiles
  <2>2. ~J!IsPoster(k) /\ job[k].status = "expired" BY <1>1, <1>7, <1>0 DEF JobSound, Sweeps
  <2>3. Renders(k)' /\ Outcome(k)' /\ Files(k)'
    BY <1>1, <1>3, <2>1, <2>2 DEF JobSound, Renders, Outcome, Files, J!IsPoster
  <2>4. Sweeps(k)' BY <1>6, <2>1
  <2>5. Cheap(k) BY <2>1, SameCheap
  <2> QED BY <1>0, <1>1, <1>2, <1>3, <2>1, <2>3, <2>4, <2>5, MarkStep
<1>8. CASE /\ marker["hourly"].pc = "row" /\ UNCHANGED J!disk
           /\ job' = IF J!CanMove(k, {"done", "failed"})
                     THEN [job EXCEPT ![k].status = "deleted"] ELSE job
  <2>1. J!IsPoster(k) /\ k \notin file /\ ~HeldBy(k) BY <1>1, <1>8, <1>0 DEF JobSound, Sweeps
  <2> DEFINE m == [job[k] EXCEPT !.status = "deleted"]
  <2>2. job[k] \in J!Row /\ "deleted" \in J!Statuses BY <1>1 DEF J!Statuses
  <2>3. m \in J!Row /\ m.status = "deleted" /\ m.kind = job[k].kind /\ m.age = job[k].age
    BY <2>2 DEF J!Row
  <2>4. job' = job \/ job' = [job EXCEPT ![k] = m] BY <1>8
  <2> HIDE DEF m
  <2>5. /\ job' \in [Jobs -> J!Row] /\ \A j \in Jobs \ {k} : job'[j] = job[j]
        /\ job'[k].status # "none" /\ job'[k].kind = job[k].kind /\ job'[k].age = job[k].age
    BY <1>1, <2>3, <2>4
  <2>6. UNCHANGED <<geo, file>> BY <1>8 DEF J!disk
  <2>7. Renders(k)' /\ Outcome(k)' BY <2>1, <2>5 DEF Renders, Outcome, J!IsPoster
  <2>8. Files(k)' BY <1>5, <2>1, <2>5, <2>6 DEF Files, J!IsPoster
  <2>9. Sweeps(k)' BY <1>6, <2>1, <2>5, <2>6
  <2>10. Cheap(k) BY <2>1, <2>5, MoveCheap DEF J!IsPoster
  <2> QED BY <1>0, <1>1, <1>2, <1>3, <2>5, <2>6, <2>7, <2>8, <2>9, <2>10, MarkStep
<1> QED BY <1>0, <1>1, <1>7, <1>8 DEF J!Erase

LEMMA SweepKeeps ==
    ASSUME RenderAssumed, JobsIInv, J!Sweep PROVE JobsIInv'
BY HourlyReadKeeps, ExpireKeeps, ErasePosterKeeps, EraseKeeps, StrayKeeps, MarkKeeps,
   MarkDeleteKeeps, MarkMailKeeps DEF J!Sweep, J!Hourly, J!Ending

\* The types of a state, as ReleaseKeeps asks for them.
LEMMA Parts ==
    ASSUME RenderAssumed, JobsIInv
    PROVE  /\ marker \in [J!Sweepers -> Markers] /\ NoJob \notin Jobs /\ geo \subseteq Jobs
           /\ post \in [Clients -> Posts] /\ horse \in [J!Workers -> Horses] /\ queued \subseteq Jobs
           /\ up \subseteq J!Workers /\ crashes \in 0..MaxCrashes
           /\ MaxCrashes \in Nat /\ J!Workers \subseteq J!Sweepers
           /\ J!IdlePost \in Posts /\ J!IdleHorse \in Horses /\ J!IdleMarker \in Markers
<1>1. JobsTyped BY DEF JobsIInv
<1>2. J!Workers \subseteq J!Sweepers /\ MaxCrashes \in Nat BY DEF J!Sweepers, RenderAssumed
<1> QED BY <1>1, <1>2, Types

\* Processes that die let go of what they held, and time only makes rows older.
LEMMA HorseKilledKeeps ==
    ASSUME RenderAssumed, JobsIInv, NEW w \in J!Workers, J!HorseKilled(w) PROVE JobsIInv'
<1>1. UNCHANGED <<job, geo, file, mails, queued, post, up>> BY DEF J!HorseKilled, J!disk
<1>2. /\ marker \in [J!Sweepers -> Markers] /\ geo \subseteq Jobs
      /\ post \in [Clients -> Posts] /\ horse \in [J!Workers -> Horses] /\ queued \subseteq Jobs
      /\ up \subseteq J!Workers /\ w \in J!Sweepers /\ J!IdleHorse \in Horses
  BY Parts
<1>3. crashes' \in 0..MaxCrashes BY Parts DEF J!HorseKilled
<1>4. horse[w].pc # "idle" BY DEF J!HorseKilled
<1> PICK k \in Jobs : k = horse[w].job BY <1>4, HeldFacts
<1>5. JobSound(k) /\ job[k].status # "none" BY <1>4, HeldFacts
<1>6. \A c \in Clients : post[c].job # k BY <1>5 DEF JobSound, OneHolder
<1>7. {k} \in SUBSET Jobs /\ J!Marks(w, {k}) BY DEF J!HorseKilled
<1>8. PICK y \in Markers : /\ marker' = [marker EXCEPT ![w] = y] /\ y.job = NoJob
                           /\ y.pc \in {"idle", "mark"} /\ y.todo = {k}
  BY <1>2, <1>7, MarksIs
<1>9. /\ marker' \in [J!Sweepers -> Markers]
      /\ \A t \in J!Sweepers : marker'[t] = IF t = w THEN y ELSE marker[t]
  BY <1>2, <1>8
<1>10. horse' = [horse EXCEPT ![w] = J!IdleHorse] BY DEF J!HorseKilled, J!Leave
<1>11. /\ horse' \in [J!Workers -> Horses]
       /\ \A v \in J!Workers : horse'[v] \in {horse[v], J!IdleHorse}
  BY <1>2, <1>10
<1>12. \A s \in J!Sweepers :
             \/ marker'[s] = marker[s]
             \/ /\ marker'[s].job = NoJob /\ marker'[s].pc \in {"idle", "mark"}
                /\ \A j \in marker'[s].todo : /\ job[j].status # "none"
                                              /\ \A c \in Clients : post'[c].job # j
  BY <1>1, <1>5, <1>6, <1>8, <1>9
<1> QED BY <1>1, <1>2, <1>3, <1>9, <1>11, <1>12, ReleaseKeeps

LEMMA WorkerDiesKeeps ==
    ASSUME RenderAssumed, JobsIInv, NEW w \in J!Workers, J!WorkerDies(w) PROVE JobsIInv'
<1>1. UNCHANGED <<job, geo, file, mails, queued, post>> BY DEF J!WorkerDies, J!disk
<1>2. /\ marker \in [J!Sweepers -> Markers] /\ geo \subseteq Jobs
      /\ post \in [Clients -> Posts] /\ horse \in [J!Workers -> Horses] /\ queued \subseteq Jobs
      /\ up' \subseteq J!Workers /\ w \in J!Sweepers /\ J!IdleHorse \in Horses
  BY Parts DEF J!WorkerDies
<1>3. crashes' \in 0..MaxCrashes BY Parts DEF J!WorkerDies
<1>4. {} \in SUBSET Jobs /\ J!Marks(w, {}) BY DEF J!WorkerDies
<1>5. PICK y \in Markers : /\ marker' = [marker EXCEPT ![w] = y] /\ y.job = NoJob
                           /\ y.pc \in {"idle", "mark"} /\ y.todo = {}
  BY <1>2, <1>4, MarksIs
<1>6. /\ marker' \in [J!Sweepers -> Markers]
      /\ \A t \in J!Sweepers : marker'[t] = IF t = w THEN y ELSE marker[t]
  BY <1>2, <1>5
<1>7. horse' = [horse EXCEPT ![w] = J!IdleHorse] BY DEF J!WorkerDies, J!Leave
<1>8. /\ horse' \in [J!Workers -> Horses]
      /\ \A v \in J!Workers : horse'[v] \in {horse[v], J!IdleHorse}
  BY <1>2, <1>7
<1> QED BY <1>1, <1>2, <1>3, <1>5, <1>6, <1>8, ReleaseKeeps

LEMMA WorkerStartsKeeps ==
    ASSUME RenderAssumed, JobsIInv, NEW w \in J!Workers, J!WorkerStarts(w) PROVE JobsIInv'
<1>1. UNCHANGED <<job, geo, file, mails, queued, post, horse, crashes>> BY DEF J!WorkerStarts, J!disk
<1>2. /\ marker \in [J!Sweepers -> Markers] /\ geo \subseteq Jobs
      /\ post \in [Clients -> Posts] /\ horse \in [J!Workers -> Horses] /\ queued \subseteq Jobs
      /\ up' \subseteq J!Workers /\ w \in J!Sweepers /\ crashes \in 0..MaxCrashes
  BY Parts DEF J!WorkerStarts
<1> DEFINE todo == IF w = "video"
                   THEN {j \in Jobs: job[j].kind = "video" /\ job[j].status = "running"} ELSE {}
<1>3. todo \in SUBSET Jobs /\ J!Marks(w, todo) BY DEF J!WorkerStarts
<1>4. \A j \in todo : job[j].status # "none" /\ ~J!IsPoster(j) BY DEF J!IsPoster
<1> HIDE DEF todo
<1>5. PICK y \in Markers : /\ marker' = [marker EXCEPT ![w] = y] /\ y.job = NoJob
                           /\ y.pc \in {"idle", "mark"} /\ y.todo = todo
  BY <1>2, <1>3, MarksIs
<1>6. /\ marker' \in [J!Sweepers -> Markers]
      /\ \A t \in J!Sweepers : marker'[t] = IF t = w THEN y ELSE marker[t]
  BY <1>2, <1>5
<1> QED BY <1>1, <1>2, <1>4, <1>5, <1>6, ReleaseKeeps

LEMMA ApiRestartsKeeps ==
    ASSUME RenderAssumed, JobsIInv, J!ApiRestarts PROVE JobsIInv'
<1>1. UNCHANGED <<job, geo, file, mails, queued, up>> BY DEF J!ApiRestarts, J!disk
<1>2. /\ marker \in [J!Sweepers -> Markers] /\ geo \subseteq Jobs /\ NoJob \notin Jobs
      /\ horse \in [J!Workers -> Horses] /\ queued \subseteq Jobs
      /\ up \subseteq J!Workers /\ J!IdlePost \in Posts /\ J!IdleHorse \in Horses /\ J!IdleMarker \in Markers
      /\ "api" \in J!Workers /\ "api" \in J!Sweepers /\ "hourly" \in J!Sweepers
  BY Parts DEF J!Workers, J!Sweepers
<1>3. crashes' \in 0..MaxCrashes BY Parts DEF J!ApiRestarts
<1>4. J!IdlePost.job = NoJob /\ J!IdleMarker.job = NoJob /\ J!IdleMarker.pc = "idle" /\ J!IdleMarker.todo = {}
  BY DEF J!IdlePost, J!IdleMarker
<1>5. /\ post' = [c \in Clients |-> J!IdlePost] /\ post' \in [Clients -> Posts]
      /\ \A c \in Clients : post'[c] = J!IdlePost
  BY <1>2 DEF J!ApiRestarts
<1>6. /\ horse' \in [J!Workers -> Horses] /\ \A v \in J!Workers : horse'[v] \in {horse[v], J!IdleHorse}
  BY <1>2 DEF J!ApiRestarts
<1> DEFINE todo == {j \in Jobs: J!IsPoster(j) /\ J!CanMove(j, J!NON_TERMINAL)}
           y == IF todo = {} THEN J!IdleMarker ELSE [pc |-> "mark", job |-> NoJob, todo |-> todo]
<1>7. todo \in SUBSET Jobs /\ \A j \in todo : job[j].status # "none"
  BY DEF J!CanMove, J!NON_TERMINAL
<1>8. y \in Markers /\ y.job = NoJob /\ y.pc \in {"idle", "mark"} /\ y.todo = todo
  BY <1>7, <1>2, <1>4 DEF Markers
<1>9. marker' = [marker EXCEPT !["hourly"] = J!IdleMarker, !["api"] = y] BY DEF J!ApiRestarts
<1> HIDE DEF todo, y
<1>10. /\ marker' \in [J!Sweepers -> Markers]
       /\ \A t \in J!Sweepers : marker'[t] = IF t = "api" THEN y
                                           ELSE IF t = "hourly" THEN J!IdleMarker ELSE marker[t]
  BY <1>2, <1>8, <1>9
<1>11. \A s \in J!Sweepers :
             \/ marker'[s] = marker[s]
             \/ /\ marker'[s].job = NoJob /\ marker'[s].pc \in {"idle", "mark"}
                /\ \A j \in marker'[s].todo : /\ job[j].status # "none"
                                              /\ \A c \in Clients : post'[c].job # j
  BY <1>2, <1>4, <1>5, <1>7, <1>8, <1>10
<1> QED BY <1>1, <1>2, <1>3, <1>5, <1>6, <1>10, <1>11, ReleaseKeeps

LEMMA LoseQueueKeeps ==
    ASSUME RenderAssumed, JobsIInv, J!LoseQueue PROVE JobsIInv'
<1>1. UNCHANGED <<job, geo, file, mails, post, horse, marker, up>> /\ queued' = {}
  BY DEF J!LoseQueue, J!disk
<1>2. /\ marker \in [J!Sweepers -> Markers] /\ geo \subseteq Jobs
      /\ post \in [Clients -> Posts] /\ horse \in [J!Workers -> Horses] /\ up \subseteq J!Workers
      /\ crashes' \in 0..MaxCrashes
  BY Parts DEF J!LoseQueue
<1> QED BY <1>1, <1>2, ReleaseKeeps

\* An older row spends nothing again.
LEMMA GrowsKeeps ==
    ASSUME RenderAssumed, JobsIInv, NEW k \in Jobs, J!Grows(k) PROVE JobsIInv'
<1>1. JobsTyped BY DEF JobsIInv
<1>2. job \in [Jobs -> J!Row] /\ job[k] \in J!Row BY <1>1, Types
<1>3. UNCHANGED <<geo, file, mails, queued, post, horse, marker, up, crashes>> BY DEF J!Grows, J!disk
<1>4. PICK m \in J!Row : /\ job' = [job EXCEPT ![k] = m] /\ m.kind = job[k].kind
                       /\ m.status = job[k].status
                       /\ \/ m.age # 0
                          \/ m.age = job[k].age /\ m.started = job[k].started /\ m.late = job[k].late
  <2>1. CASE job[k].age < 2 /\ job' = [job EXCEPT ![k].age = @ + 1]
    <3> DEFINE m == [job[k] EXCEPT !.age = @ + 1]
    <3>1. job[k].age + 1 \in 0..2 /\ job[k].age + 1 # 0 BY <1>2, <2>1 DEF J!Row
    <3>2. m \in J!Row /\ m.kind = job[k].kind /\ m.status = job[k].status /\ m.age # 0
      BY <1>2, <3>1 DEF J!Row
    <3>3. job' = [job EXCEPT ![k] = m] BY <1>2, <2>1
    <3> QED BY <3>2, <3>3
  <2>2. CASE job' = [job EXCEPT ![k].overrun = TRUE]
    <3> DEFINE m == [job[k] EXCEPT !.overrun = TRUE]
    <3>1. /\ m \in J!Row /\ m.kind = job[k].kind /\ m.status = job[k].status
          /\ m.age = job[k].age /\ m.started = job[k].started /\ m.late = job[k].late
      BY <1>2 DEF J!Row
    <3>2. job' = [job EXCEPT ![k] = m] BY <1>2, <2>2
    <3> QED BY <3>1, <3>2
  <2> QED BY <2>1, <2>2 DEF J!Grows
<1>5. job' \in [Jobs -> J!Row] /\ \A j \in Jobs : job'[j] = IF j = k THEN m ELSE job[j]
  BY <1>2, <1>4
<1>6. JobsTyped' BY <1>1, <1>3, <1>5 DEF JobsTyped, J!TypeOK
<1>7. \A j \in Jobs : Same(j) BY <1>3, <1>4, <1>5 DEF Same
<1>8. Cheap(k) BY <1>4, <1>5 DEF Cheap, Spends, Counts, J!Counting
<1>9. \A j \in Jobs : Cheap(j)
  <2> SUFFICES ASSUME NEW j \in Jobs, j # k PROVE Cheap(j) BY <1>8
  <2>1. job'[j] = job[j] BY <1>5
  <2> QED BY <2>1, SameCheap
<1> QED BY <1>6, <1>7, <1>9, NoStep

LEMMA StutterKeeps == ASSUME RenderAssumed, JobsIInv, UNCHANGED J!vars PROVE JobsIInv'
<1>1. UNCHANGED <<job, geo, file, mails, queued, post, horse, marker, up, crashes>> BY DEF J!vars
<1>2. /\ marker \in [J!Sweepers -> Markers] /\ geo \subseteq Jobs /\ queued \subseteq Jobs
      /\ post \in [Clients -> Posts] /\ horse \in [J!Workers -> Horses] /\ up \subseteq J!Workers
      /\ crashes \in 0..MaxCrashes
  BY Parts
<1> QED BY <1>1, <1>2, ReleaseKeeps

\* At the start there is no job.
LEMMA JobsInit == ASSUME RenderAssumed, J!Init PROVE JobsIInv
<1>1. J!NoRow \in J!Row BY DEF J!NoRow, J!Row, J!Statuses, J!NON_TERMINAL
<1>2. J!NoRow.kind = "none" /\ J!NoRow.status = "none" /\ J!NoRow.age = 0 BY DEF J!NoRow
<1>3. J!IdlePost \in Posts /\ J!IdlePost.job = NoJob /\ J!IdlePost.pc = "idle" BY DEF J!IdlePost, Posts
<1>4. J!IdleHorse \in Horses /\ J!IdleHorse.job = NoJob /\ J!IdleHorse.pc = "idle" BY DEF J!IdleHorse, Horses
<1>5. J!IdleMarker \in Markers /\ J!IdleMarker.job = NoJob /\ J!IdleMarker.pc = "idle" /\ J!IdleMarker.todo = {}
  BY DEF J!IdleMarker, Markers
<1>6. /\ \A j \in Jobs : job[j] = J!NoRow /\ mails[j].ready = 0 /\ mails[j].failed = 0
      /\ \A c \in Clients : post[c] = J!IdlePost /\ \A w \in J!Workers : horse[w] = J!IdleHorse
      /\ \A s \in J!Sweepers : marker[s] = J!IdleMarker
      /\ geo = {} /\ file = {} /\ queued = {} /\ up = J!Workers /\ crashes = 0
  BY DEF J!Init
<1>7. /\ job \in [Jobs -> J!Row] /\ mails \in [Jobs -> [ready: Nat, failed: Nat]]
      /\ post \in [Clients -> Posts] /\ horse \in [J!Workers -> Horses]
      /\ marker \in [J!Sweepers -> Markers]
  BY <1>1, <1>3, <1>4, <1>5 DEF J!Init
<1>8. crashes \in 0..MaxCrashes BY <1>6 DEF RenderAssumed
<1>h. \A w \in J!Workers : horse[w] = J!IdleHorse BY DEF J!Init
<1>c. \A c \in Clients : post[c] = J!IdlePost BY DEF J!Init
<1>9. JobsTyped BY <1>3, <1>4, <1>5, <1>6, <1>7, <1>8, <1>h, <1>c DEF JobsTyped, J!TypeOK
<1>10. J!QuotaKept
  <2>1. J!VideosUsed = {} BY <1>2, <1>6 DEF J!VideosUsed
  <2>2. J!NewPreviews = {} BY <1>2, <1>6 DEF J!NewPreviews, J!PreviewsUsed, J!Counting, J!NON_TERMINAL
  <2>3. Cardinality({}) = 0 BY FS_EmptySet
  <2>4. 0 <= VideoLimit /\ 0 <= PreviewLimit BY DEF RenderAssumed
  <2> QED BY <2>1, <2>2, <2>3, <2>4, SameCard DEF J!QuotaKept
<1>11. \A j \in Jobs : JobSound(j)
  <2> SUFFICES ASSUME NEW j \in Jobs PROVE JobSound(j) OBVIOUS
  <2>1. j # NoJob BY DEF RenderAssumed
  <2>2. ~HeldBy(j) BY <1>3, <1>4, <1>6, <1>h, <1>c, <2>1 DEF HeldBy
  <2>3. OneHolder(j) BY <2>2 DEF OneHolder, HeldBy
  <2>4. NotBegun(j) BY <1>5, <1>6, <2>1, <2>2 DEF NotBegun
  <2>5. Known(j) BY <1>2, <1>6, <2>4 DEF Known, J!IsPoster
  <2>6. Renders(j) /\ Sweeps(j) BY <1>5, <1>6, <2>1, <2>2 DEF Renders, Sweeps, HeldBy
  <2>7. Outcome(j) /\ Files(j) BY <1>2, <1>6, <2>2 DEF Outcome, Files
  <2> QED BY <2>3, <2>5, <2>6, <2>7 DEF JobSound
<1> QED BY <1>9, <1>10, <1>11 DEF JobsIInv

\* Every step keeps the invariant.
LEMMA JobsStep == ASSUME RenderAssumed, JobsIInv, [J!Next]_(J!vars) PROVE JobsIInv'
BY RequestKeeps, RunKeeps, SweepKeeps, HorseKilledKeeps, WorkerDiesKeeps, WorkerStartsKeeps,
   ApiRestartsKeeps, LoseQueueKeeps, GrowsKeeps, StutterKeeps DEF J!Next, J!Faults, J!Tick

\* For any number of jobs, requests and crashes, any quota and any mix of kinds.
THEOREM RendersHold == ASSUME RenderAssumed PROVE J!Spec => []RenderSound
<1>1. J!Init => JobsIInv BY JobsInit
<1>2. JobsIInv /\ [J!Next]_(J!vars) => JobsIInv' BY JobsStep
<1> QED BY <1>1, <1>2, JobsPromise, PTL DEF J!Spec
-----------------------------------------------------------------------------
(***************************************************************************)
(* Subscriptions: for any number of subscriptions, deliveries, events and  *)
(* jobs of an account with one customer.                                   *)
(*                                                                         *)
(* That the row follows what runs is not inductive: it does so because of  *)
(* what an event still to be applied will find.  The invariant says who    *)
(* had the last word at the provider (LastWord), that the row says what    *)
(* the last applied event said, or what has ended since (BillRowOK), what  *)
(* a delivery learned before the lock (HookOK), and that a deletion first  *)
(* closes every page, then lists, then leaves nothing running (BillJobOK,  *)
(* Closed).  The provider only moves forward (Advance); what does not      *)
(* start a subscription (Calm) keeps nearly every part by itself.          *)
(***************************************************************************)
CONSTANTS Subs, Customers, Hooks, MaxEvents, MaxErrands, SameSecond, None, Old

VARIABLES owner, bill, subs, sessions, events, acked, clock, hook, task, overlap, judged,
          errands

B == INSTANCE Subscriptions WITH
    MaxOps <- MaxErrands, account <- owner, row <- bill, job <- task, ops <- errands

\* Subscriptions counts with the Cardinality of its own FiniteSets: it is the same.
LEMMA BillCard == ASSUME NEW S PROVE B!Cardinality(S) = Cardinality(S)
BY DEF B!Cardinality, Cardinality

\* What the deletion remembers of a row, and the shapes of a row and a delivery.
Settlings == [cust : Customers \cup {None}, sub : Subs \cup {None, Old}, status : B!Statuses]
BillRows == [status : B!Statuses, cust : Customers \cup {None}, sub : Subs \cup {None, Old},
             lastId : 0..MaxEvents, lastAt : Nat, contract : Subs \cup {None},
             checked : Subs \cup {None}]
Deliveries == [pc : {"idle", "lock", "expire", "list", "cancel"}, ev : B!Events \cup {None},
               others : BOOLEAN \cup {None}, todo : SUBSET Subs]

\* What the theorem asks of the constants: one customer for the account and no two changes
\* in one second, as in the run, and a null value that is nothing else.
BillAssumed ==
    /\ MaxEvents \in Nat /\ SameSecond = FALSE
    /\ \A c, d \in Customers : c = d
    /\ None \notin Subs \cup Customers \cup BOOLEAN /\ Old \notin Subs \cup {None}
    /\ None \notin BillRows /\ None \notin Settlings

\* The steps of a deletion after its start, and the shape of a job.
Deleting == {"expire", "list", "cancel", "commit"}
Tasks == [pc : {"idle", "open", "handout", "change", "wcancel", "record"} \cup Deleting,
          kind : {"none", "checkout", "change", "withdraw", "delete"},
          cust : Customers \cup {None}, settled : Settlings \cup {None}, todo : SUBSET Subs]

BillTyped ==
    /\ B!TypeOK /\ hook \in [Hooks -> Deliveries] /\ task \in Tasks
    /\ clock \in Nat \ {0} /\ IsFiniteSet(events) /\ judged \subseteq Subs

\* A subscription was bought; it runs.
Begun(s) == subs[s].status # "none"
Runs(s) == B!Live(subs[s].status)
AnyBegun == \E s \in Subs : Begun(s)

\* Events lie in the past, are numbered one by one, and are of subscriptions of a customer;
\* what an event says has ended has.
EventsOK ==
    /\ Cardinality(events) <= MaxEvents
    /\ \A e \in events : e.id \in 1..Cardinality(events) /\ e.at \in 1..(clock - 1)
    /\ \A e, f \in events : e.id = f.id => e = f
    /\ \A e \in events : Begun(e.sub) /\ (~B!Live(e.status) => ~Runs(e.sub))
    /\ \A s \in Subs : Begun(s) => subs[s].cust \in Customers /\ \E e \in events : e.sub = s

\* Unless two ran together, what runs had the last word, and it says how it runs.
LastWord ==
    ~overlap =>
      /\ \A s, t \in Subs : Runs(s) /\ Runs(t) => s = t
      /\ \A s \in Subs : Runs(s) => \E m \in events :
           /\ m.sub = s
           /\ \A f \in events : /\ f.at <= m.at
                                /\ f.at = m.at => f.sub = s /\ f.status = subs[s].status

\* An account that is gone leaves no row and no job, and nothing acknowledged runs.
GoneOK ==
    ~owner =>
      /\ bill = None /\ task = B!IdleJob
      /\ \A e \in acked : e.type \in {"checkout", "created"} => ~Runs(e.sub)

\* Before the row there is no page and no event.  It says what the last event applied said,
\* or that this subscription has ended; none that was acknowledged and is live is newer.
BillRowOK ==
    /\ owner /\ bill = None => sessions = {} /\ events = {} /\ task.pc \in {"idle", "commit"}
    /\ bill # None =>
         /\ bill.cust = None => acked = {} /\ bill.lastId = 0 /\ bill.sub = None
         /\ bill.lastId = 0 => bill.lastAt = 0 /\ bill.sub \notin Subs /\ ~B!Live(bill.status)
         /\ bill.lastId # 0 => \E f \in events :
              /\ f.id = bill.lastId /\ f.at = bill.lastAt /\ f.sub = bill.sub
              /\ bill.status = f.status \/ ~Runs(f.sub)
         /\ \A e \in acked : B!Live(e.status) => e.at <= bill.lastAt
         /\ bill.contract # None => /\ bill.contract \in judged
                                    /\ \E g \in events : g.sub = bill.contract /\ g.at <= bill.lastAt
         /\ bill.checked # None => bill.checked \in judged

\* A page without a customer cannot be paid once the row has one.
PagesOK ==
    bill # None /\ bill.cust # None =>
      \/ AnyBegun
      \/ (\A p \in sessions : p.cust # None) /\ (task.pc = "open" => task.cust # None)

\* What the provider said before the lock: nothing else was running, so what runs now
\* began later; or it was not asked, the subscription having been judged.
HookOK(h) ==
    LET e == hook[h].ev IN
    /\ hook[h].pc # "idle" => e \in events
    /\ hook[h].pc \in {"expire", "list", "cancel"} => ~owner
    /\ hook[h].pc = "cancel" => (Runs(e.sub) => e.sub \in hook[h].todo)
    /\ hook[h].pc = "lock" /\ B!Paid(e) =>
         /\ hook[h].others = None => e.sub \in judged
         /\ hook[h].others = FALSE =>
              \A g \in events : Runs(g.sub) /\ g.sub # e.sub => e.at < g.at

\* No open page sells what a customer could pay.
Closed == \A p \in sessions : B!Sells(p) => p.cust = None /\ AnyBegun

\* A withdrawal has its one subscription ended; a deletion has every page closed, then
\* everything listed, then nothing running.
JobOK ==
    /\ task.pc \in {"wcancel", "record"} => \E s \in Subs : task.todo = {s} /\ Begun(s)
    /\ task.pc = "record" => \A s \in task.todo : ~Runs(s)
    /\ task.pc \in Deleting =>
         /\ task.cust = IF task.settled = None THEN None ELSE task.settled.cust
         /\ task.cust # None => bill # None /\ bill.cust # None
         /\ task.pc # "commit" => task.cust # None
         /\ task.pc # "expire" /\ task.cust # None => Closed
         /\ task.pc = "cancel" => \A s \in Subs : Runs(s) => s \in task.todo
         /\ task.pc = "commit" /\ task.cust # None => \A s \in Subs : ~Runs(s)

BillIInv ==
    /\ BillTyped /\ EventsOK /\ LastWord /\ GoneOK /\ BillRowOK /\ PagesOK /\ JobOK
    /\ \A h \in Hooks : HookOK(h)

BillSound == B!TypeOK /\ B!NothingBillsDeleted /\ B!PaidKeepsPlan
\* The world moves on: events are added, what began stays begun, what ended stays ended.
Contracts == [Subs -> [status : B!Statuses, cust : Customers \cup {None}]]
Advance ==
    /\ subs' \in Contracts /\ events' \subseteq B!Events /\ events \subseteq events'
    /\ IsFiniteSet(events') /\ clock' \in Nat \ {0}
    /\ \A s \in Subs : Begun(s) => Begun(s)' /\ (~Runs(s) => ~Runs(s)')
    /\ \A e \in events' \ events : e.at = clock

\* It moves on, keeps what is said of it, and nothing new runs.
Calm ==
    /\ Advance /\ EventsOK' /\ LastWord' /\ overlap' = overlap
    /\ \A s \in Subs : Runs(s)' => Runs(s)

\* Events about s were sent, in a second of their own.
Adds(s, status) ==
    /\ clock' = clock + 1 /\ events \subseteq events' /\ events' \subseteq B!Events
    /\ IsFiniteSet(events') /\ Cardinality(events') <= MaxEvents
    /\ \A e \in events' : e.id \in 1..Cardinality(events')
    /\ \A e, f \in events' : e.id = f.id => e = f
    /\ \A e \in events' \ events : e.sub = s /\ e.status = status /\ e.at = clock
    /\ \E e \in events' : e \notin events

\* A finite set of events, each with a number of its own among the first ones.
Numbered(E) ==
    /\ IsFiniteSet(E)
    /\ \A e \in E : e.id \in 1..Cardinality(E)
    /\ \A e, f \in E : e.id = f.id => e = f

\* An event with the next number.
LEMMA AddOne ==
    ASSUME NEW E, Numbered(E), NEW x, x.id = Cardinality(E) + 1
    PROVE /\ Numbered(E \cup {x})
          /\ Cardinality(E \cup {x}) = Cardinality(E) + 1
          /\ x \notin E
<1>0. /\ IsFiniteSet(E) /\ \A e \in E : e.id \in 1..Cardinality(E)
      /\ \A e, f \in E : e.id = f.id => e = f
  BY DEF Numbered
<1>1. Cardinality(E) \in Nat BY <1>0, FS_CardinalityType
<1>2. x \notin E BY <1>0, <1>1
<1>3. IsFiniteSet(E \cup {x}) /\ Cardinality(E \cup {x}) = Cardinality(E) + 1
  BY <1>0, <1>2, FS_AddElement
<1>4. \A e \in E : e.id # x.id BY <1>0, <1>1
<1>5. \A e \in E : e.id \in 1..(Cardinality(E) + 1) BY <1>0, <1>1
<1>6. x.id \in 1..(Cardinality(E) + 1) BY <1>1
<1>7. \A e \in E \cup {x} : e.id \in 1..Cardinality(E \cup {x}) BY <1>3, <1>5, <1>6
<1>8. \A e, f \in E \cup {x} : e.id = f.id => e = f BY <1>0, <1>4
<1> QED BY <1>2, <1>3, <1>7, <1>8 DEF Numbered

\* Send adds one event or two.
LEMMA SendAdds ==
    ASSUME BillAssumed, BillTyped, EventsOK, NEW s \in Subs, NEW status \in B!Statuses,
           NEW types \in {<<"checkout", "created">>, <<"updated">>, <<"deleted">>},
           B!Send(s, types, status)
    PROVE Adds(s, status)
<1> DEFINE n == Cardinality(events)
           ev(i) == [id |-> n + i, type |-> types[i], sub |-> s, at |-> clock, status |-> status]
<1>1. n \in Nat /\ events \subseteq B!Events /\ IsFiniteSet(events) /\ clock \in Nat
  BY FS_CardinalityType DEF BillTyped, B!TypeOK
<1>2. /\ events' = events \cup {ev(i) : i \in DOMAIN types}
      /\ clock' = clock + 1
      /\ n + Cardinality(DOMAIN types) <= MaxEvents
  BY BillCard DEF B!Send, BillAssumed
<1>3. Numbered(events) BY <1>1 DEF EventsOK, Numbered
<1>4. ev(1).id = n + 1 /\ ev(2).id = n + 2 OBVIOUS
<1>5. CASE types = <<"checkout", "created">>
  <2>1. DOMAIN types = {1, 2} /\ types[1] = "checkout" /\ types[2] = "created" BY <1>5
  <2>2. ev(1) \in B!Events /\ ev(2) \in B!Events BY <1>1, <2>1 DEF B!Events
  <2>3. events' = (events \cup {ev(1)}) \cup {ev(2)} BY <1>2, <2>1
  <2>4. Cardinality({1, 2}) = 2
    <3>1. Cardinality({1}) = 1 /\ IsFiniteSet({1}) BY FS_Singleton
    <3>2. {1, 2} = {1} \cup {2} /\ 2 \notin {1} OBVIOUS
    <3>3. Cardinality({1} \cup {2}) = Cardinality({1}) + 1 BY <3>1, <3>2, FS_AddElement, Zenon
    <3> QED BY <3>1, <3>2, <3>3
  <2> DEFINE E == events \cup {ev(1)}
  <2>5. Numbered(E) /\ Cardinality(E) = n + 1 /\ ev(1) \notin events
    <3> HIDE DEF ev
    <3> QED BY <1>3, <1>4, AddOne
  <2>6. ev(2).id = Cardinality(E) + 1 BY <1>1, <1>4, <2>5
  <2>7. Numbered(E \cup {ev(2)}) /\ Cardinality(E \cup {ev(2)}) = Cardinality(E) + 1
    <3> HIDE DEF ev, E
    <3> QED BY <2>5, <2>6, AddOne
  <2>8. Cardinality(E \cup {ev(2)}) = n + 2 BY <1>1, <2>5, <2>7
  <2>9. events' = E \cup {ev(2)} BY <2>3
  <2>10. \A e \in events' \ events : e.sub = s /\ e.status = status /\ e.at = clock
    BY <2>9
  <2>11. events \subseteq events' /\ events' \subseteq B!Events /\ ev(1) \in events'
    BY <1>1, <2>2, <2>9
  <2>12. Numbered(events') /\ Cardinality(events') <= MaxEvents
    <3>1. n + 2 <= MaxEvents BY <1>2, <2>1, <2>4
    <3> HIDE DEF ev, E
    <3> QED BY <2>7, <2>8, <2>9, <3>1
  <2> HIDE DEF ev, E
  <2> QED BY <1>2, <2>5, <2>10, <2>11, <2>12 DEF Adds, Numbered
<1>6. CASE types # <<"checkout", "created">>
  <2>1. DOMAIN types = {1} /\ types[1] \in {"updated", "deleted"} BY <1>6
  <2>2. ev(1) \in B!Events BY <1>1, <2>1 DEF B!Events
  <2>3. events' = events \cup {ev(1)} BY <1>2, <2>1
  <2>4. Cardinality({1}) = 1 BY FS_Singleton
  <2>5. n + 1 <= MaxEvents BY <1>2, <2>1, <2>4
  <2>6. /\ Numbered(events') /\ Cardinality(events') = n + 1 /\ ev(1) \notin events
    <3> HIDE DEF ev
    <3> QED BY <1>3, <1>4, <2>3, AddOne
  <2>7. \A e \in events' \ events : e.sub = s /\ e.status = status /\ e.at = clock
    BY <2>3
  <2>8. events \subseteq events' /\ events' \subseteq B!Events /\ ev(1) \in events'
    BY <1>1, <2>2, <2>3
  <2> HIDE DEF ev
  <2> QED BY <1>2, <2>5, <2>6, <2>7, <2>8 DEF Adds, Numbered
<1> QED BY <1>5, <1>6

\* A subscription that can begin or runs takes a new status, with its events.
LEMMA ShiftAdvance ==
    ASSUME BillAssumed, BillTyped, EventsOK, LastWord, NEW s \in Subs,
           NEW status \in B!Statuses \ {"none"}, Adds(s, status), subs' \in Contracts,
           \A t \in Subs \ {s} : subs'[t] = subs[t],
           subs'[s].status = status, subs'[s].cust \in Customers,
           \/ Runs(s) /\ overlap' = overlap
           \/ ~Begun(s) /\ overlap' = (overlap \/ \E t \in Subs : Runs(t))
    PROVE Advance /\ EventsOK' /\ LastWord'
<1>1. clock \in Nat \ {0} /\ events \subseteq B!Events BY DEF BillTyped, B!TypeOK
<1>2. \A t \in Subs : t # s => (Begun(t)' <=> Begun(t)) /\ (Runs(t)' <=> Runs(t))
  BY DEF Begun, Runs
<1>3. Begun(s)' /\ (Runs(s)' <=> B!Live(status)) BY DEF Begun, Runs
<1>4. Begun(s) => Runs(s) OBVIOUS
<1>5. Advance
  <2>1. clock' \in Nat \ {0} BY <1>1 DEF Adds
  <2> QED BY <1>2, <1>3, <1>4, <2>1 DEF Advance, Adds
<1>6. EventsOK'
  <2>1. \A e \in events' : e.at \in 1..(clock' - 1)
    <3> SUFFICES ASSUME NEW e \in events' PROVE e.at \in 1..(clock' - 1) OBVIOUS
    <3>1. CASE e \in events BY <1>1, <3>1 DEF EventsOK, Adds
    <3>2. CASE e \notin events BY <1>1, <3>2 DEF Adds
    <3> QED BY <3>1, <3>2
  <2>2. \A e \in events' : Begun(e.sub)' /\ (~B!Live(e.status) => ~Runs(e.sub)')
    <3> SUFFICES ASSUME NEW e \in events'
                 PROVE Begun(e.sub)' /\ (~B!Live(e.status) => ~Runs(e.sub)') OBVIOUS
    <3>1. CASE e \in events
      <4>1. Begun(e.sub) /\ (~B!Live(e.status) => ~Runs(e.sub)) /\ e.sub \in Subs
        BY <1>1, <3>1 DEF EventsOK, B!Events
      <4> QED BY <1>2, <1>3, <1>4, <4>1
    <3>2. CASE e \notin events BY <1>3, <3>2 DEF Adds
    <3> QED BY <3>1, <3>2
  <2>3. \A t \in Subs : Begun(t)' => subs'[t].cust \in Customers /\ \E e \in events' : e.sub = t
    <3> SUFFICES ASSUME NEW t \in Subs, Begun(t)'
                 PROVE subs'[t].cust \in Customers /\ \E e \in events' : e.sub = t OBVIOUS
    <3>1. CASE t = s BY <3>1 DEF Adds
    <3>2. CASE t # s BY <1>2, <3>2 DEF EventsOK, Adds
    <3> QED BY <3>1, <3>2
  <2> QED BY <2>1, <2>2, <2>3 DEF EventsOK, Adds
<1>7. LastWord'
  <2> SUFFICES ASSUME ~overlap' PROVE
        /\ \A u, t \in Subs : Runs(u)' /\ Runs(t)' => u = t
        /\ \A u \in Subs : Runs(u)' => \E m \in events' :
             /\ m.sub = u
             /\ \A f \in events' : /\ f.at <= m.at
                                   /\ f.at = m.at => f.sub = u /\ f.status = subs'[u].status
    BY DEF LastWord
  <2>1. \A t \in Subs : Runs(t)' => t = s
    <3>1. ~overlap BY DEF BillTyped, B!TypeOK
    <3>2. \A u, t \in Subs : Runs(u) /\ Runs(t) => u = t BY <3>1 DEF LastWord
    <3>3. CASE Runs(s) BY <1>2, <3>2, <3>3
    <3>4. CASE ~Runs(s) /\ ~\E t \in Subs : Runs(t) BY <1>2, <3>4
    <3> QED BY <3>3, <3>4
  <2>2. \E m \in events' :
             /\ m.sub = s
             /\ \A f \in events' : /\ f.at <= m.at
                                   /\ f.at = m.at => f.sub = s /\ f.status = status
    <3>1. PICK m \in events' : m \notin events BY DEF Adds
    <3>2. m.sub = s /\ m.at = clock BY <3>1 DEF Adds
    <3>3. \A f \in events : f.at \in Nat /\ f.at <= clock /\ f.at # clock
      BY <1>1 DEF EventsOK
    <3>6. \A f \in events' \ events : f.at = clock /\ f.sub = s /\ f.status = status BY DEF Adds
    <3>7. clock <= clock BY <1>1
    <3>4. \A f \in events' : f.at <= clock /\ (f.at = clock => f.sub = s /\ f.status = status)
      BY <3>3, <3>6, <3>7
    <3>5. \A f \in events' : f.at <= m.at /\ (f.at = m.at => f.sub = s /\ f.status = status)
      BY <3>2, <3>4
    <3> QED BY <3>1, <3>2, <3>5
  <2>3. ASSUME NEW u \in Subs, Runs(u)'
        PROVE \E m \in events' :
             /\ m.sub = u
             /\ \A f \in events' : /\ f.at <= m.at
                                   /\ f.at = m.at => f.sub = u /\ f.status = subs'[u].status
    <3>1. u = s BY <2>1, <2>3
    <3>2. subs'[u].status = status BY <3>1
    <3> QED BY <2>2, <3>1, <3>2
  <2> QED BY <2>1, <2>3
<1> QED BY <1>5, <1>6, <1>7

\* Nothing moves.
LEMMA StillCalm ==
    ASSUME BillTyped, EventsOK, LastWord, UNCHANGED <<subs, events, clock, overlap>>
    PROVE Calm
BY DEF Calm, Advance, BillTyped, B!TypeOK, Contracts, EventsOK, LastWord, Begun, Runs

\* A subscription that runs ends.
LEMMA EndsCalm ==
    ASSUME BillAssumed, BillTyped, EventsOK, LastWord, NEW s \in Subs, Runs(s), B!Ends(s),
           UNCHANGED overlap
    PROVE Calm /\ ~Runs(s)'
<1>1. Adds(s, "canceled") BY SendAdds DEF B!Ends, B!Statuses
<1>2. subs \in Contracts BY DEF BillTyped, B!TypeOK, Contracts
<1>3. Begun(s) BY DEF Begun, Runs, B!Live
<1>4. subs' = [subs EXCEPT ![s].status = "canceled"] BY DEF B!Ends
<1>5. /\ subs' \in Contracts /\ \A t \in Subs \ {s} : subs'[t] = subs[t]
      /\ subs'[s].status = "canceled" /\ subs'[s].cust = subs[s].cust
  BY <1>2, <1>4 DEF Contracts, B!Statuses
<1>6. subs'[s].cust \in Customers BY <1>3, <1>5 DEF EventsOK
<1>7. Advance /\ EventsOK' /\ LastWord' BY <1>1, <1>5, <1>6, ShiftAdvance DEF B!Statuses
<1>8. ~Runs(s)' BY <1>5 DEF Runs, B!Live
<1>9. \A t \in Subs : Runs(t)' => Runs(t) BY <1>5, <1>8 DEF Runs
<1> QED BY <1>7, <1>8, <1>9 DEF Calm

LEMMA CancelCalm ==
    ASSUME BillAssumed, BillTyped, EventsOK, LastWord, NEW s \in Subs, B!CancelOne(s),
           UNCHANGED overlap
    PROVE Calm /\ ~Runs(s)'
<1>1. CASE Runs(s) BY <1>1, EndsCalm DEF B!CancelOne, Runs
<1>2. CASE ~Runs(s)
  <2>1. UNCHANGED <<subs, events, clock>> BY <1>2 DEF B!CancelOne, Runs
  <2> QED BY <1>2, <2>1, StillCalm DEF Runs
<1> QED BY <1>1, <1>2

\* The type invariant, variable by variable.
Pages == [cust : Customers \cup {None}, sub : Subs]
LEMMA BillParts ==
    ASSUME BillTyped
    PROVE /\ owner \in BOOLEAN /\ overlap \in BOOLEAN /\ (bill = None \/ bill \in BillRows)
          /\ subs \in Contracts /\ sessions \subseteq Pages /\ events \subseteq B!Events
          /\ acked \subseteq events /\ hook \in [Hooks -> Deliveries] /\ task \in Tasks
          /\ clock \in Nat \ {0} /\ IsFiniteSet(events) /\ judged \subseteq Subs
BY DEF BillTyped, B!TypeOK, BillRows, Contracts, Pages

LEMMA TypedNext ==
    ASSUME Advance, owner' \in BOOLEAN, overlap' \in BOOLEAN, bill' = None \/ bill' \in BillRows,
           sessions' \subseteq Pages, acked' \subseteq events',
           hook' \in [Hooks -> Deliveries], task' \in Tasks, judged' \subseteq Subs
    PROVE BillTyped'
<1>1. \A h \in Hooks : hook'[h].todo \subseteq Subs BY DEF Deliveries
<1> QED BY <1>1 DEF BillTyped, B!TypeOK, BillRows, Contracts, Pages, Advance

LEMMA ClosedKeeps ==
    ASSUME BillTyped, Advance, Closed, sessions' \subseteq sessions
    PROVE Closed'
<1>1. \A p \in sessions : p.sub \in Subs BY BillParts DEF Pages
<1>2. AnyBegun => AnyBegun' BY DEF AnyBegun, Advance
<1>3. \A p \in sessions' : p \in sessions /\ (B!Sells(p)' => B!Sells(p))
  BY <1>1 DEF B!Sells, Advance, Begun
<1> QED BY <1>2, <1>3 DEF Closed

\* A delivery at rest is not disturbed.
LEMMA HookKeeps ==
    ASSUME BillTyped, EventsOK, Advance, NEW h \in Hooks, HookOK(h), hook'[h] = hook[h],
           owner' => owner, judged \subseteq judged'
    PROVE HookOK(h)'
<1> DEFINE e == hook[h].ev
<1>1. hook[h].pc # "idle" => e \in events' BY DEF HookOK, Advance
<1>2. hook[h].pc \in {"expire", "list", "cancel"} => ~owner' BY DEF HookOK
<1>3. ASSUME hook[h].pc = "cancel", Runs(e.sub)' PROVE e.sub \in hook[h].todo
  <2>1. e \in events BY <1>3 DEF HookOK
  <2>2. Begun(e.sub) /\ e.sub \in Subs BY <2>1, BillParts DEF EventsOK, B!Events
  <2>3. Runs(e.sub) BY <1>3, <2>2 DEF Advance
  <2> QED BY <1>3, <2>3 DEF HookOK
<1>4. ASSUME hook[h].pc = "lock", B!Paid(e), hook[h].others = FALSE,
             NEW g \in events', Runs(g.sub)', g.sub # e.sub
      PROVE e.at < g.at
  <2>1. e \in events /\ e.at \in 1..(clock - 1) /\ clock \in Nat
    BY <1>4, BillParts DEF HookOK, EventsOK
  <2>2. CASE g \in events
    <3>1. Begun(g.sub) /\ g.sub \in Subs BY <2>2, BillParts DEF EventsOK, B!Events
    <3>2. Runs(g.sub) BY <1>4, <3>1 DEF Advance
    <3> QED BY <1>4, <2>2, <3>2 DEF HookOK
  <2>3. CASE g \notin events
    <3>1. g.at = clock BY <2>3 DEF Advance
    <3> QED BY <2>1, <3>1
  <2> QED BY <2>2, <2>3
<1>5. hook[h].pc = "lock" /\ B!Paid(e) /\ hook[h].others = None => e.sub \in judged'
  BY DEF HookOK
<1> QED BY <1>1, <1>2, <1>3, <1>4, <1>5 DEF HookOK, B!Paid

\* A row that is not written says what it said.
LEMMA RowKeeps ==
    ASSUME BillTyped, EventsOK, BillRowOK, Advance, UNCHANGED <<bill, judged>>, acked' = acked,
           owner' /\ bill = None =>
             sessions' = {} /\ events' = {} /\ task'.pc \in {"idle", "commit"}
    PROVE BillRowOK'
<1>1. ASSUME bill # None, bill.lastId # 0
      PROVE \E f \in events' : /\ f.id = bill.lastId /\ f.at = bill.lastAt /\ f.sub = bill.sub
                               /\ bill.status = f.status \/ ~Runs(f.sub)'
  <2>1. PICK f \in events : /\ f.id = bill.lastId /\ f.at = bill.lastAt /\ f.sub = bill.sub
                            /\ bill.status = f.status \/ ~Runs(f.sub)
    BY <1>1 DEF BillRowOK
  <2>2. f.sub \in Subs /\ Begun(f.sub) BY BillParts DEF B!Events, EventsOK
  <2>3. ~Runs(f.sub) => ~Runs(f.sub)' BY <2>2 DEF Advance
  <2>4. f \in events' BY DEF Advance
  <2> QED BY <2>1, <2>3, <2>4
<1>2. bill # None => /\ bill.cust = None => acked' = {} /\ bill.lastId = 0 /\ bill.sub = None
                     /\ bill.lastId = 0 => bill.lastAt = 0 /\ bill.sub \notin Subs /\ ~B!Live(bill.status)
                     /\ \A e \in acked' : B!Live(e.status) => e.at <= bill.lastAt
                     /\ bill.checked # None => bill.checked \in judged
  BY DEF BillRowOK
<1>3. bill # None /\ bill.contract # None =>
        bill.contract \in judged /\ \E g \in events' : g.sub = bill.contract /\ g.at <= bill.lastAt
  BY DEF BillRowOK, Advance
<1> QED BY <1>1, <1>2, <1>3 DEF BillRowOK

LEMMA PagesKeeps ==
    ASSUME PagesOK, Advance, bill' = bill, sessions' \subseteq sessions,
           task'.pc = "open" => task' = task
    PROVE PagesOK'
<1>1. AnyBegun => AnyBegun' BY DEF AnyBegun, Advance
<1> QED BY <1>1 DEF PagesOK

\* A job that waits is not disturbed: no page sells what a deletion would have to cancel.
LEMMA JobKeeps ==
    ASSUME BillTyped, JobOK, Advance, task' = task, sessions' \subseteq sessions,
           bill # None /\ bill.cust # None => bill' # None /\ bill'.cust # None,
           task.pc \in Deleting /\ task.pc # "expire" /\ task.cust # None =>
             \A s \in Subs : Runs(s)' => Runs(s)
    PROVE JobOK'
<1>1. task \in Tasks BY BillParts
<1>2. task.todo \subseteq Subs BY <1>1 DEF Tasks
<1>3. task.pc \in {"wcancel", "record"} => \E s \in Subs : task.todo = {s} /\ Begun(s)'
  BY DEF JobOK, Advance
<1>4. task.pc = "record" => \A s \in task.todo : ~Runs(s)' BY <1>2 DEF JobOK, Advance
<1>5. task.pc \in Deleting /\ task.pc # "expire" /\ task.cust # None => Closed'
  BY ClosedKeeps DEF JobOK
<1>6. task.pc \in Deleting =>
        /\ task.cust = IF task.settled = None THEN None ELSE task.settled.cust
        /\ task.cust # None => bill' # None /\ bill'.cust # None
        /\ task.pc # "commit" => task.cust # None
  BY DEF JobOK
<1>7. task.pc = "cancel" => \A s \in Subs : Runs(s)' => s \in task.todo
  BY DEF JobOK, Deleting
<1>8. task.pc = "commit" /\ task.cust # None => \A s \in Subs : ~Runs(s)'
  BY DEF JobOK, Deleting
<1> QED BY <1>3, <1>4, <1>5, <1>6, <1>7, <1>8 DEF JobOK

\* What was acknowledged of an account that is gone does not start again.
LEMMA GoneKeeps ==
    ASSUME BillTyped, EventsOK, GoneOK, Advance, UNCHANGED <<owner, bill>>,
           ~owner => task' = task,
           \A e \in acked' : \/ e \in acked
                             \/ e \in events /\ (e.type \in {"checkout", "created"} => ~Runs(e.sub))
    PROVE GoneOK'
<1> SUFFICES ASSUME ~owner, NEW e \in acked', e.type \in {"checkout", "created"}
             PROVE ~Runs(e.sub)'
  BY DEF GoneOK
<1>1. e \in events /\ ~Runs(e.sub) BY BillParts DEF GoneOK
<1>2. e.sub \in Subs /\ Begun(e.sub) BY <1>1, BillParts DEF B!Events, EventsOK
<1> QED BY <1>1, <1>2 DEF Advance

\* The provider moves, and nothing of ours does.
LEMMA WorldStep ==
    ASSUME BillIInv, Advance, EventsOK', LastWord', overlap' \in BOOLEAN,
           sessions' \subseteq sessions, owner => bill # None,
           UNCHANGED <<owner, bill, acked, hook, task, judged>>,
           task.pc \in Deleting /\ task.pc # "expire" /\ task.cust # None =>
             \A s \in Subs : Runs(s)' => Runs(s)
    PROVE BillIInv'
<1>1. BillTyped BY DEF BillIInv
<1>2. BillTyped'
  <2>1. acked' \subseteq events' /\ sessions' \subseteq Pages BY <1>1, BillParts DEF Advance
  <2> QED BY <1>1, <2>1, BillParts, TypedNext
<1>3. GoneOK' BY GoneKeeps DEF BillIInv
<1>4. BillRowOK' BY RowKeeps DEF BillIInv
<1>5. PagesOK' BY PagesKeeps DEF BillIInv
<1>6. JobOK' BY JobKeeps DEF BillIInv
<1>7. \A h \in Hooks : HookOK(h)' BY HookKeeps DEF BillIInv
<1> QED BY <1>2, <1>3, <1>4, <1>5, <1>6, <1>7 DEF BillIInv

\* Before the row there is nothing to sell and nothing that runs.
LEMMA RowFirst ==
    ASSUME BillIInv, owner,
           (\E p \in sessions : TRUE) \/ (\E e \in events : TRUE) \/ (\E s \in Subs : Begun(s))
    PROVE bill # None
BY DEF BillIInv, BillRowOK, EventsOK

\* A page cannot be paid while a deletion that asked for its customer is past its expiry.
LEMMA PayKeeps ==
    ASSUME BillAssumed, BillIInv, NEW page \in sessions, B!Pay(page)
    PROVE BillIInv'
<1>1. page.sub \in Subs /\ page.cust \in Customers \cup {None} /\ BillTyped /\ subs \in Contracts
  BY BillParts DEF BillIInv, Pages
<1>2. ~Begun(page.sub) BY DEF B!Pay, B!Sells, Begun
<1>3. PICK c \in IF page.cust # None THEN {page.cust}
                 ELSE {c \in Customers: \A t \in Subs: subs[t].cust # c} :
        subs' = [subs EXCEPT ![page.sub] = [status |-> "active", cust |-> c]]
  BY DEF B!Pay
<1>4. c \in Customers BY <1>1, <1>3
<1>5. Adds(page.sub, "active") BY <1>1, SendAdds DEF B!Pay, BillIInv, B!Statuses
<1>6. /\ subs' \in Contracts /\ \A t \in Subs \ {page.sub} : subs'[t] = subs[t]
      /\ subs'[page.sub].status = "active" /\ subs'[page.sub].cust \in Customers
  BY <1>1, <1>3, <1>4 DEF Contracts, B!Statuses
<1>7. overlap' = (overlap \/ \E t \in Subs : Runs(t)) BY DEF B!Pay, Runs
<1>8. Advance /\ EventsOK' /\ LastWord'
  BY <1>1, <1>2, <1>5, <1>6, <1>7, ShiftAdvance DEF BillIInv, B!Statuses
<1>9. ~(task.pc \in Deleting /\ task.pc # "expire" /\ task.cust # None)
  <2> SUFFICES ASSUME task.pc \in Deleting, task.pc # "expire", task.cust # None PROVE FALSE
    OBVIOUS
  <2>1. Closed BY DEF BillIInv, JobOK
  <2>2. page.cust = None /\ AnyBegun BY <2>1 DEF Closed, B!Pay
  <2>3. PICK t \in Subs : Begun(t) BY <2>2 DEF AnyBegun
  <2>4. subs[t].cust \in Customers BY <2>3 DEF BillIInv, EventsOK
  <2>5. subs[t].cust # c BY <1>3, <2>2
  <2> QED BY <1>4, <2>4, <2>5 DEF BillAssumed
<1>10. owner => bill # None BY RowFirst
<1>11. overlap' \in BOOLEAN BY <1>7, <1>1, BillParts
<1>12. /\ UNCHANGED <<owner, bill, acked, hook, task, judged>>
       /\ sessions' \subseteq sessions
  BY DEF B!Pay
<1> QED BY <1>8, <1>9, <1>10, <1>11, <1>12, WorldStep

\* A subscription that runs and goes on.
LEMMA MoveCalm ==
    ASSUME BillAssumed, BillTyped, EventsOK, LastWord, NEW s \in Subs, Runs(s),
           NEW status \in {"active", "past_due"}, Adds(s, status), UNCHANGED overlap,
           subs' = [subs EXCEPT ![s].status = status]
    PROVE Calm
<1>1. subs \in Contracts BY BillParts
<1>2. Begun(s) BY DEF Begun, Runs, B!Live
<1>3. /\ subs' \in Contracts /\ \A t \in Subs \ {s} : subs'[t] = subs[t]
      /\ subs'[s].status = status /\ subs'[s].cust = subs[s].cust
  BY <1>1 DEF Contracts, B!Statuses
<1>4. subs'[s].cust \in Customers BY <1>2, <1>3 DEF EventsOK
<1>5. Advance /\ EventsOK' /\ LastWord' BY <1>3, <1>4, ShiftAdvance DEF B!Statuses
<1>6. \A t \in Subs : Runs(t)' => Runs(t) BY <1>3 DEF Runs
<1> QED BY <1>5, <1>6 DEF Calm

LEMMA CalmStep ==
    ASSUME BillIInv, Calm, sessions' \subseteq sessions, NEW s \in Subs, Runs(s),
           UNCHANGED <<owner, bill, acked, hook, task, judged>>
    PROVE BillIInv'
<1>1. BillTyped BY DEF BillIInv
<1>2. Begun(s) BY DEF Begun, Runs, B!Live
<1>3. owner => bill # None BY <1>2, RowFirst
<1>4. overlap' \in BOOLEAN BY <1>1, BillParts DEF Calm
<1> QED BY <1>3, <1>4, WorldStep DEF Calm

LEMMA UpdatesKeeps == ASSUME BillAssumed, BillIInv, NEW s \in Subs, B!Updates(s) PROVE BillIInv'
<1>1. PICK status \in {"active", "past_due"} :
        /\ subs' = [subs EXCEPT ![s].status = status]
        /\ B!Send(s, <<"updated">>, status)
  BY DEF B!Updates
<1>2. Adds(s, status) BY <1>1, SendAdds DEF BillIInv, B!Statuses
<1>3. Runs(s) /\ UNCHANGED <<owner, bill, sessions, acked, hook, task, overlap, judged>>
  BY DEF B!Updates, Runs
<1>4. Calm BY <1>1, <1>2, <1>3, MoveCalm DEF BillIInv
<1> QED BY <1>3, <1>4, CalmStep

LEMMA PortalKeeps ==
    ASSUME BillAssumed, BillIInv, NEW s \in Subs, B!PortalCancels(s)
    PROVE BillIInv'
<1>1. Runs(s) /\ UNCHANGED <<owner, bill, sessions, acked, hook, task, overlap, judged>>
  BY DEF B!PortalCancels, Runs
<1>2. Calm BY <1>1, EndsCalm DEF B!PortalCancels, BillIInv
<1> QED BY <1>1, <1>2, CalmStep

LEMMA ConfirmKeeps ==
    ASSUME BillAssumed, BillIInv, NEW page \in sessions, B!Confirm(page)
    PROVE BillIInv'
<1>1. page.sub \in Subs /\ subs \in Contracts BY BillParts DEF BillIInv, Pages
<1>2. /\ Runs(page.sub) /\ sessions' \subseteq sessions
      /\ UNCHANGED <<owner, bill, acked, hook, task, overlap, judged>>
  BY DEF B!Confirm, Runs
<1>3. CASE B!Ends(page.sub) BY <1>1, <1>2, <1>3, EndsCalm, CalmStep DEF BillIInv
<1>4. CASE B!Send(page.sub, <<"updated">>, subs[page.sub].status) /\ UNCHANGED subs
  <2>1. subs[page.sub].status \in {"active", "past_due"} BY <1>2 DEF Runs, B!Live
  <2>2. Adds(page.sub, subs[page.sub].status)
    BY <1>1, <1>4, <2>1, SendAdds DEF BillIInv, B!Statuses
  <2>3. subs' = [subs EXCEPT ![page.sub].status = subs[page.sub].status]
    BY <1>1, <1>4 DEF Contracts
  <2>4. Calm BY <1>1, <1>2, <2>1, <2>2, <2>3, MoveCalm DEF BillIInv
  <2> QED BY <1>1, <1>2, <2>4, CalmStep
<1> QED BY <1>3, <1>4 DEF B!Confirm

\* A delivery moves; the account, its row and its job stay.
LEMMA HookStep ==
    ASSUME BillIInv, Calm, UNCHANGED <<owner, bill, task, judged>>, sessions' \subseteq sessions,
           owner => events' = events /\ acked' = acked,
           ~owner => \A e \in acked' : e \in acked \/ (e \in events /\
             (e.type \in {"checkout", "created"} => ~Runs(e.sub))),
           hook' \in [Hooks -> Deliveries], \A h \in Hooks : HookOK(h)'
    PROVE BillIInv'
<1>1. BillTyped /\ Advance BY DEF BillIInv, Calm
<1>2. acked' \subseteq events'
  <2>1. CASE owner BY <1>1, <2>1, BillParts
  <2>2. CASE ~owner BY <1>1, <2>2, BillParts DEF Advance
  <2> QED BY <2>1, <2>2
<1>3. BillTyped'
  <2>1. sessions' \subseteq Pages /\ overlap' \in BOOLEAN BY <1>1, BillParts DEF Calm
  <2> QED BY <1>1, <1>2, <2>1, BillParts, TypedNext
<1>4. GoneOK'
  <2>1. CASE owner BY <2>1 DEF GoneOK
  <2>2. CASE ~owner BY <1>1, <2>2, GoneKeeps DEF BillIInv
  <2> QED BY <2>1, <2>2
<1>5. BillRowOK'
  <2>1. CASE owner BY <1>1, <2>1, RowKeeps DEF BillIInv, BillRowOK
  <2>2. CASE ~owner BY <2>2 DEF BillIInv, GoneOK, BillRowOK
  <2> QED BY <2>1, <2>2
<1>6. PagesOK' BY <1>1, PagesKeeps DEF BillIInv
<1>7. JobOK' BY <1>1, JobKeeps DEF BillIInv, Calm
<1> QED BY <1>3, <1>4, <1>5, <1>6, <1>7 DEF BillIInv, Calm

\* The others' deliveries are not disturbed.
LEMMA OtherHooks ==
    ASSUME BillIInv, Calm, NEW h \in Hooks, owner' => owner, judged \subseteq judged',
           \A k \in Hooks \ {h} : hook'[k] = hook[k], HookOK(h)'
    PROVE \A k \in Hooks : HookOK(k)'
<1> SUFFICES ASSUME NEW k \in Hooks, k # h PROVE HookOK(k)' OBVIOUS
<1> QED BY HookKeeps DEF BillIInv, Calm

LEMMA IdleDelivery ==
    ASSUME NEW h \in Hooks, hook'[h] = B!IdleHook
    PROVE HookOK(h)'
BY DEF HookOK, B!IdleHook

LEMMA IdleHookTyped == B!IdleHook \in Deliveries
BY DEF B!IdleHook, Deliveries

\* Nothing moves but one delivery, and pages that close.
LEMMA HookMoves ==
    ASSUME BillIInv, NEW h \in Hooks, sessions' \subseteq sessions,
           UNCHANGED <<owner, bill, subs, events, acked, clock, task, overlap, judged>>,
           hook' \in [Hooks -> Deliveries], \A k \in Hooks \ {h} : hook'[k] = hook[k], HookOK(h)'
    PROVE BillIInv'
<1>1. Calm BY StillCalm DEF BillIInv
<1>2. owner' => owner OBVIOUS
<1>3. \A k \in Hooks : HookOK(k)' BY <1>1, <1>2, OtherHooks
<1>4. owner => events' = events /\ acked' = acked OBVIOUS
<1>5. ~owner => \A e \in acked' : e \in acked \/ (e \in events /\
        (e.type \in {"checkout", "created"} => ~Runs(e.sub)))
  OBVIOUS
<1>6. UNCHANGED <<owner, bill, task, judged>> OBVIOUS
<1> QED BY <1>1, <1>3, <1>4, <1>5, <1>6, HookStep

LEMMA DeliverKeeps ==
    ASSUME BillAssumed, BillIInv, NEW h \in Hooks, NEW e \in events, B!Deliver(h, e)
    PROVE BillIInv'
<1> DEFINE known == bill # None /\ e.sub \in {bill.contract, bill.checked}
           c == subs[e.sub].cust
           others == IF B!Paid(e) /\ ~known THEN B!Running(c) \ {e.sub} # {} ELSE None
<1>1. /\ hook' = [hook EXCEPT ![h] = [pc |-> "lock", ev |-> e, todo |-> {}, others |-> others]]
      /\ UNCHANGED <<owner, bill, subs, sessions, events, acked, clock, task, overlap, judged>>
  BY DEF B!Deliver
<1>2. BillTyped /\ hook \in [Hooks -> Deliveries] /\ e \in B!Events /\ e.sub \in Subs
  BY BillParts DEF BillIInv, B!Events
<1>3. Calm BY <1>1, StillCalm DEF BillIInv
<1>4. others \in BOOLEAN \cup {None} OBVIOUS
<1>5. /\ hook' \in [Hooks -> Deliveries] /\ \A k \in Hooks \ {h} : hook'[k] = hook[k]
      /\ hook'[h].pc = "lock" /\ hook'[h].ev = e /\ hook'[h].others = others
  BY <1>1, <1>2, <1>4 DEF Deliveries
<1>6. HookOK(h)'
  <2>1. ASSUME B!Paid(e), others = None PROVE e.sub \in judged
    <3>1. known BY <2>1 DEF BillAssumed
    <3>2. e.sub # None BY <1>2 DEF BillAssumed
    <3> QED BY <3>1, <3>2 DEF BillIInv, BillRowOK
  <2>2. ASSUME B!Paid(e), others = FALSE, NEW g \in events, Runs(g.sub), g.sub # e.sub
        PROVE FALSE
    <3>1. B!Running(c) \subseteq {e.sub} BY <2>2 DEF BillAssumed
    <3>2. g.sub \in Subs /\ Begun(g.sub) /\ Begun(e.sub)
      BY <1>2, BillParts DEF BillIInv, EventsOK, B!Events
    <3>3. subs[g.sub].cust = c BY <1>2, <3>2 DEF BillIInv, EventsOK, BillAssumed
    <3>4. g.sub \in B!Running(c) BY <2>2, <3>2, <3>3 DEF B!Running, Runs
    <3> QED BY <2>2, <3>1, <3>4
  <2> HIDE DEF others
  <2>3. hook'[h].pc = "lock" /\ B!Paid(e) =>
          /\ hook'[h].others = None => e.sub \in judged'
          /\ hook'[h].others = FALSE =>
               \A g \in events' : Runs(g.sub)' /\ g.sub # e.sub => e.at < g.at
    BY <1>1, <1>5, <2>1, <2>2 DEF Runs
  <2>4. e \in events' BY <1>1
  <2> QED BY <1>5, <2>3, <2>4 DEF HookOK, B!Paid
<1> QED BY <1>1, <1>5, <1>6, HookMoves

\* A start of an account that is gone is cancelled before it is acknowledged.
LEMMA OrphanKeeps ==
    ASSUME BillAssumed, BillIInv, NEW h \in Hooks, B!CancelOrphan(h)
    PROVE BillIInv'
<1>1. /\ BillTyped /\ hook \in [Hooks -> Deliveries] /\ subs \in Contracts
      /\ UNCHANGED <<owner, bill, task, judged, overlap>>
  BY BillParts DEF BillIInv, B!CancelOrphan
<1>0. PICK e : e = hook[h].ev OBVIOUS
<1>2. HookOK(h) BY DEF BillIInv
<1>3. ASSUME hook[h].pc \in {"expire", "list", "cancel"}
      PROVE ~owner /\ e \in events /\ e.sub \in Subs
  <2>1. ~owner /\ e \in events BY <1>0, <1>2, <1>3 DEF HookOK
  <2> QED BY <1>1, <2>1, BillParts DEF B!Events
<1>4. CASE B!OrphanExpire(h)
  <2>1. UNCHANGED <<subs, events, clock, acked>> /\ sessions' \subseteq sessions
        /\ hook[h].pc = "expire" /\ hook' = [hook EXCEPT ![h].pc = "list"]
    BY <1>4 DEF B!OrphanExpire, B!ExpireFor
  <2>2. /\ hook' \in [Hooks -> Deliveries] /\ \A k \in Hooks \ {h} : hook'[k] = hook[k]
        /\ hook'[h].pc = "list" /\ hook'[h].ev = e
    BY <1>0, <1>1, <2>1 DEF Deliveries
  <2>3. HookOK(h)' BY <1>1, <1>3, <2>1, <2>2 DEF HookOK
  <2> QED BY <1>1, <2>1, <2>2, <2>3, HookMoves
<1>5. CASE B!OrphanList(h)
  <2>1. UNCHANGED <<subs, events, clock, sessions, acked>> /\ hook[h].pc = "list"
        /\ hook' = [hook EXCEPT ![h].pc = "cancel", ![h].todo = B!Running(subs[e.sub].cust)]
    BY <1>0, <1>5 DEF B!OrphanList
  <2>3. B!Running(subs[e.sub].cust) \subseteq Subs BY DEF B!Running
  <2>4. /\ hook' \in [Hooks -> Deliveries] /\ \A k \in Hooks \ {h} : hook'[k] = hook[k]
        /\ hook'[h].pc = "cancel" /\ hook'[h].ev = e /\ hook'[h].todo = B!Running(subs[e.sub].cust)
    BY <1>0, <1>1, <2>1, <2>3 DEF Deliveries
  <2>5. Runs(e.sub)' => e.sub \in B!Running(subs[e.sub].cust)
    BY <1>3, <2>1 DEF Runs, B!Running, B!Live
  <2>6. HookOK(h)' BY <1>1, <1>3, <2>1, <2>4, <2>5 DEF HookOK
  <2> QED BY <1>1, <2>1, <2>4, <2>6, HookMoves
<1>6. CASE B!OrphanCancel(h)
  <2>1. /\ hook[h].pc = "cancel" /\ UNCHANGED <<sessions, acked>> /\ hook[h].todo \subseteq Subs
    BY <1>1, <1>6 DEF B!OrphanCancel, Deliveries
  <2>2. PICK s \in hook[h].todo : B!CancelOne(s) /\ hook' = [hook EXCEPT ![h].todo = @ \ {s}]
    BY <1>6 DEF B!OrphanCancel
  <2>3. Calm /\ ~Runs(s)' BY <1>1, <2>1, <2>2, CancelCalm DEF BillIInv
  <2>4. /\ hook' \in [Hooks -> Deliveries] /\ \A k \in Hooks \ {h} : hook'[k] = hook[k]
        /\ hook'[h].pc = "cancel" /\ hook'[h].ev = e /\ hook'[h].todo = hook[h].todo \ {s}
    BY <1>0, <1>1, <2>1, <2>2 DEF Deliveries
  <2>5. e \in events' BY <1>3, <2>1, <2>3 DEF Calm, Advance
  <2>6. Runs(e.sub)' => e.sub \in hook[h].todo \ {s}
    <3>1. Runs(e.sub)' => Runs(e.sub) BY <1>3, <2>1, <2>3 DEF Calm
    <3>2. Runs(e.sub)' => e.sub # s BY <2>3 DEF Runs
    <3>3. Runs(e.sub) => e.sub \in hook[h].todo BY <1>0, <1>2, <2>1 DEF HookOK
    <3> QED BY <3>1, <3>2, <3>3
  <2>7. HookOK(h)' BY <1>1, <1>3, <2>1, <2>4, <2>5, <2>6 DEF HookOK
  <2>8. \A k \in Hooks : HookOK(k)' BY <1>1, <2>3, <2>4, <2>7, OtherHooks
  <2>9. ~owner /\ sessions' \subseteq sessions /\ \A f \in acked' : f \in acked BY <1>3, <2>1
  <2> QED BY <1>1, <2>3, <2>4, <2>8, <2>9, HookStep
<1>7. CASE B!OrphanDone(h)
  <2>1. /\ hook[h].pc = "cancel" /\ hook[h].todo = {} /\ acked' = acked \cup {e}
        /\ hook' = [hook EXCEPT ![h] = B!IdleHook] /\ UNCHANGED <<subs, events, clock, sessions>>
    BY <1>0, <1>7 DEF B!OrphanDone
  <2>2. Calm BY <1>1, <2>1, StillCalm DEF BillIInv
  <2>3. /\ hook' \in [Hooks -> Deliveries] /\ \A k \in Hooks \ {h} : hook'[k] = hook[k]
        /\ hook'[h] = B!IdleHook
    BY <1>1, <2>1, IdleHookTyped
  <2>4. ~Runs(e.sub) BY <1>0, <1>2, <2>1 DEF HookOK
  <2>5. \A k \in Hooks : HookOK(k)' BY <1>1, <2>2, <2>3, IdleDelivery, OtherHooks
  <2>6. \A f \in acked' : f \in acked \/ (f \in events /\
           (f.type \in {"checkout", "created"} => ~Runs(f.sub)))
    <3> SUFFICES ASSUME NEW f \in acked', f \notin acked
                 PROVE f \in events /\ ~Runs(f.sub) OBVIOUS
    <3>1. f = e BY <2>1
    <3> QED BY <1>3, <2>1, <2>4, <3>1
  <2>7. ~owner BY <1>3, <2>1
  <2> QED BY <1>1, <2>1, <2>2, <2>3, <2>5, <2>6, <2>7, HookStep
<1>8. CASE B!HookFails(h)
  <2>1. hook' = [hook EXCEPT ![h] = B!IdleHook] /\ UNCHANGED <<subs, events, clock, sessions, acked>>
    BY <1>8 DEF B!HookFails
  <2>2. /\ hook' \in [Hooks -> Deliveries] /\ \A k \in Hooks \ {h} : hook'[k] = hook[k]
        /\ hook'[h] = B!IdleHook
    BY <1>1, <2>1, IdleHookTyped
  <2> QED BY <1>1, <2>1, <2>2, IdleDelivery, HookMoves
<1> QED BY <1>4, <1>5, <1>6, <1>7, <1>8 DEF B!CancelOrphan

\* What the event of a delivery under the lock says is applied to the row.
LEMMA AppliedKeeps ==
    ASSUME BillAssumed, BillIInv, NEW h \in Hooks, B!Apply(h), owner, ~B!Stale(hook[h].ev)
    PROVE BillIInv'
<1> DEFINE e == hook[h].ev
<1>1. /\ BillTyped /\ hook \in [Hooks -> Deliveries] /\ owner \in BOOLEAN /\ task \in Tasks
      /\ sessions \subseteq Pages /\ overlap \in BOOLEAN /\ judged \subseteq Subs
      /\ acked \subseteq events
  BY BillParts DEF BillIInv
<1>2. /\ hook[h].pc = "lock" /\ bill' = B!Applied(e, hook[h].others)
      /\ judged' = (IF B!Paid(e) THEN judged \cup {e.sub} ELSE judged)
      /\ hook' = [hook EXCEPT ![h] = B!IdleHook] /\ acked' = acked \cup {e}
      /\ UNCHANGED <<owner, subs, sessions, events, clock, task, overlap>>
  BY DEF B!Apply
<1>3. Calm BY <1>1, <1>2, StillCalm DEF BillIInv
<1>4. e \in events BY <1>2 DEF BillIInv, HookOK
<1>5. e \in B!Events /\ e.sub \in Subs BY <1>1, <1>4, BillParts DEF B!Events
<1>6. bill # None /\ bill \in BillRows BY <1>1, <1>4, RowFirst, BillParts
<1>7. /\ e.id \in 1..MaxEvents /\ e.at \in Nat \ {0} /\ Begun(e.sub)
      /\ subs[e.sub].cust \in Customers
  <2>1. e.id \in 1..Cardinality(events) /\ Cardinality(events) <= MaxEvents
        /\ e.at \in 1..(clock - 1) /\ Begun(e.sub)
    BY <1>4 DEF BillIInv, EventsOK
  <2>2. Cardinality(events) \in Nat BY <1>1, BillParts, FS_CardinalityType
  <2> QED BY <1>1, <1>5, <2>1, <2>2, BillParts DEF BillIInv, EventsOK, BillAssumed
<1>8. /\ bill' \in BillRows /\ bill'.status = e.status /\ bill'.cust = subs[e.sub].cust
      /\ bill'.sub = e.sub /\ bill'.lastId = e.id /\ bill'.lastAt = e.at
      /\ bill'.contract = (IF B!StartsContract(e, hook[h].others) THEN e.sub ELSE bill.contract)
      /\ bill'.checked = (IF B!Paid(e) THEN e.sub ELSE bill.checked)
  <2> DEFINE starts == B!StartsContract(e, hook[h].others)
             contract == IF starts THEN e.sub ELSE bill.contract
             checked == IF B!Paid(e) THEN e.sub ELSE bill.checked
  <2>1. contract \in Subs \cup {None} /\ checked \in Subs \cup {None} BY <1>5, <1>6 DEF BillRows
  <2>2. bill' = [bill EXCEPT !.contract = contract, !.checked = checked, !.status = e.status,
                             !.cust = subs[e.sub].cust, !.sub = e.sub, !.lastId = e.id, !.lastAt = e.at]
    BY <1>2, <1>6 DEF B!Applied, BillRows
  <2>3. e.status \in B!Statuses BY <1>5 DEF B!Events
  <2>4. e.id \in 0..MaxEvents BY <1>7 DEF BillAssumed
  <2> HIDE DEF contract, checked
  <2>5. /\ bill' \in BillRows /\ bill'.status = e.status /\ bill'.cust = subs[e.sub].cust
        /\ bill'.sub = e.sub /\ bill'.lastId = e.id /\ bill'.lastAt = e.at
        /\ bill'.contract = contract /\ bill'.checked = checked
    BY <1>5, <1>6, <1>7, <2>1, <2>2, <2>3, <2>4 DEF BillRows
  <2> QED BY <2>5 DEF contract, checked
<1>9. bill' # None /\ bill'.cust # None /\ bill'.lastId # 0 BY <1>7, <1>8 DEF BillAssumed
<1>10. bill.lastAt <= e.at
  <2>1. ~(bill.lastAt > 0 /\ e.at < bill.lastAt) BY DEF B!Stale
  <2> QED BY <1>6, <1>7, <2>1 DEF BillRows
<1>11. BillTyped'
  <2>1. judged' \subseteq Subs /\ acked' \subseteq events' /\ hook' \in [Hooks -> Deliveries]
    BY <1>1, <1>2, <1>4, <1>5, IdleHookTyped
  <2> QED BY <1>1, <1>2, <1>3, <1>8, <2>1, TypedNext DEF Calm
<1>12. BillRowOK'
  <2>1. \E f \in events' : /\ f.id = bill'.lastId /\ f.at = bill'.lastAt /\ f.sub = bill'.sub
                           /\ bill'.status = f.status \/ ~Runs(f.sub)'
    BY <1>2, <1>4, <1>8
  <2>2. \A f \in acked' : B!Live(f.status) => f.at <= bill'.lastAt
    <3> SUFFICES ASSUME NEW f \in acked', B!Live(f.status) PROVE f.at <= e.at BY <1>8
    <3>1. CASE f = e BY <1>7, <3>1
    <3>2. CASE f \in acked
      <4>1. f.at <= bill.lastAt BY <1>6, <3>2 DEF BillIInv, BillRowOK
      <4>2. f.at \in Nat BY <1>1, <3>2, BillParts DEF B!Events
      <4> QED BY <1>6, <1>7, <1>10, <4>1, <4>2 DEF BillRows
    <3> QED BY <1>2, <3>1, <3>2
  <2>3. bill'.contract # None =>
          /\ bill'.contract \in judged'
          /\ \E g \in events' : g.sub = bill'.contract /\ g.at <= bill'.lastAt
    <3>1. CASE B!StartsContract(e, hook[h].others)
      <4>1. B!Paid(e) /\ bill'.contract = e.sub BY <1>8, <3>1 DEF B!StartsContract
      <4> QED BY <1>2, <1>4, <1>7, <1>8, <4>1
    <3>2. CASE ~B!StartsContract(e, hook[h].others)
      <4>1. bill'.contract = bill.contract BY <1>8, <3>2
      <4> SUFFICES ASSUME bill.contract # None
                   PROVE /\ bill.contract \in judged'
                         /\ \E g \in events : g.sub = bill.contract /\ g.at <= e.at
        BY <1>2, <1>8, <4>1
      <4>2. PICK g \in events : g.sub = bill.contract /\ g.at <= bill.lastAt
        BY <1>6 DEF BillIInv, BillRowOK
      <4>3. g.at \in Nat BY <1>1, BillParts DEF B!Events
      <4>4. g.at <= e.at BY <1>6, <1>7, <1>10, <4>2, <4>3 DEF BillRows
      <4>5. bill.contract \in judged BY <1>6 DEF BillIInv, BillRowOK
      <4> QED BY <1>2, <4>2, <4>4, <4>5
    <3> QED BY <3>1, <3>2
  <2>4. bill'.checked # None => bill'.checked \in judged'
    BY <1>2, <1>6, <1>8 DEF BillIInv, BillRowOK
  <2> QED BY <1>9, <2>1, <2>2, <2>3, <2>4 DEF BillRowOK
<1>13. PagesOK' BY <1>2, <1>5, <1>7 DEF PagesOK, AnyBegun, Begun
<1>14. JobOK' BY <1>1, <1>2, <1>3, <1>9, JobKeeps DEF BillIInv, Calm
<1>15. GoneOK' BY <1>2 DEF GoneOK
<1>16. \A k \in Hooks : HookOK(k)'
  <2>1. hook'[h] = B!IdleHook /\ \A k \in Hooks \ {h} : hook'[k] = hook[k] BY <1>1, <1>2
  <2> QED BY <1>2, <1>3, <2>1, IdleDelivery, OtherHooks
<1> QED BY <1>3, <1>11, <1>12, <1>13, <1>14, <1>15, <1>16 DEF BillIInv, Calm

\* A stale event is acknowledged: the row is at least as new, or it has ended.
LEMMA StaleKeeps ==
    ASSUME BillAssumed, BillIInv, NEW h \in Hooks, B!Apply(h), owner, B!Stale(hook[h].ev)
    PROVE BillIInv'
<1> DEFINE e == hook[h].ev
<1>1. /\ BillTyped /\ hook \in [Hooks -> Deliveries] /\ owner \in BOOLEAN /\ task \in Tasks
      /\ sessions \subseteq Pages /\ overlap \in BOOLEAN /\ judged \subseteq Subs
      /\ acked \subseteq events
  BY BillParts DEF BillIInv
<1>2. /\ hook[h].pc = "lock" /\ bill' = bill /\ judged' = judged
      /\ hook' = [hook EXCEPT ![h] = B!IdleHook] /\ acked' = acked \cup {e}
      /\ UNCHANGED <<owner, subs, sessions, events, clock, task, overlap>>
  BY DEF B!Apply
<1>3. Calm BY <1>1, <1>2, StillCalm DEF BillIInv
<1>4. e \in events BY <1>2 DEF BillIInv, HookOK
<1>5. e \in B!Events /\ e.sub \in Subs BY <1>1, <1>4, BillParts DEF B!Events
<1>6. bill # None /\ bill \in BillRows BY <1>1, <1>4, RowFirst, BillParts
<1>7. e.id # 0 /\ e.at \in Nat BY <1>1, <1>4, BillParts DEF BillIInv, EventsOK
<1>8. B!Live(e.status) => e.at <= bill.lastAt
  <2>1. CASE bill.lastId = e.id
    <3>1. PICK f \in events : f.id = bill.lastId /\ f.at = bill.lastAt
      BY <1>6, <1>7, <2>1 DEF BillIInv, BillRowOK
    <3>2. f = e BY <1>4, <2>1, <3>1 DEF BillIInv, EventsOK
    <3> QED BY <1>7, <3>1, <3>2
  <2>2. CASE e.at < bill.lastAt BY <1>6, <1>7, <2>2 DEF BillRows
  <2> QED BY <2>1, <2>2 DEF B!Stale
<1>9. bill.cust # None
  <2> SUFFICES ASSUME bill.cust = None PROVE FALSE OBVIOUS
  <2>1. bill.lastId = 0 /\ bill.sub = None /\ bill.lastAt = 0 BY <1>6 DEF BillIInv, BillRowOK
  <2> QED BY <1>7, <2>1 DEF B!Stale
<1>10. BillTyped'
  <2>1. acked' \subseteq events' /\ hook' \in [Hooks -> Deliveries]
    BY <1>1, <1>2, <1>4, IdleHookTyped
  <2> QED BY <1>1, <1>2, <1>3, <1>6, <2>1, TypedNext DEF Calm
<1>11. BillRowOK'
  <2>1. BillRowOK BY DEF BillIInv
  <2>2. \A f \in acked' : B!Live(f.status) => f.at <= bill.lastAt
    BY <1>2, <1>6, <1>8, <2>1 DEF BillRowOK
  <2>3. \A f \in events : Runs(f.sub)' = Runs(f.sub) BY <1>2 DEF Runs
  <2> QED BY <1>2, <1>6, <1>9, <2>1, <2>2, <2>3 DEF BillRowOK
<1>12. PagesOK' BY <1>2, <1>3, PagesKeeps DEF BillIInv, Calm
<1>13. JobOK' BY <1>1, <1>2, <1>3, JobKeeps DEF BillIInv, Calm
<1>14. GoneOK' BY <1>2 DEF GoneOK
<1>15. \A k \in Hooks : HookOK(k)'
  <2>1. hook'[h] = B!IdleHook /\ \A k \in Hooks \ {h} : hook'[k] = hook[k] BY <1>1, <1>2
  <2> QED BY <1>2, <1>3, <2>1, IdleDelivery, OtherHooks
<1> QED BY <1>3, <1>10, <1>11, <1>12, <1>13, <1>14, <1>15 DEF BillIInv, Calm

\* With the account gone a start is an orphan, and any other event is ignored.
LEMMA LateKeeps ==
    ASSUME BillAssumed, BillIInv, NEW h \in Hooks, B!Apply(h), ~owner
    PROVE BillIInv'
<1> DEFINE e == hook[h].ev
           orphan == e.type \in {"checkout", "created"}
<1>1. BillTyped /\ hook \in [Hooks -> Deliveries] BY BillParts DEF BillIInv
<1>2. /\ hook[h].pc = "lock" /\ bill' = bill /\ judged' = judged
      /\ hook' = [hook EXCEPT ![h] = IF orphan THEN [@ EXCEPT !.pc = "expire"] ELSE B!IdleHook]
      /\ acked' = IF orphan THEN acked ELSE acked \cup {e}
      /\ UNCHANGED <<owner, subs, sessions, events, clock, task, overlap>>
  BY DEF B!Apply
<1>3. Calm BY <1>1, <1>2, StillCalm DEF BillIInv
<1>4. e \in events BY <1>2 DEF BillIInv, HookOK
<1>5. hook' \in [Hooks -> Deliveries] /\ \A k \in Hooks \ {h} : hook'[k] = hook[k]
  BY <1>1, <1>2, IdleHookTyped DEF Deliveries
<1>6. HookOK(h)'
  <2>1. CASE orphan
    <3>1. hook'[h].pc = "expire" /\ hook'[h].ev = e BY <1>1, <1>2, <2>1 DEF Deliveries
    <3> QED BY <1>2, <1>4, <3>1 DEF HookOK
  <2>2. CASE ~orphan
    <3>1. hook'[h] = B!IdleHook BY <1>1, <1>2, <2>2
    <3> QED BY <3>1, IdleDelivery
  <2> QED BY <2>1, <2>2
<1>7. \A k \in Hooks : HookOK(k)' BY <1>2, <1>3, <1>5, <1>6, OtherHooks
<1>8. \A f \in acked' : f \in acked \/ (f \in events /\
         (f.type \in {"checkout", "created"} => ~Runs(f.sub)))
  <2> SUFFICES ASSUME NEW f \in acked', f \notin acked
               PROVE f \in events /\ f.type \notin {"checkout", "created"} OBVIOUS
  <2>1. f = e /\ ~orphan BY <1>2
  <2> QED BY <1>4, <2>1
<1> QED BY <1>2, <1>3, <1>5, <1>7, <1>8, HookStep

\* A job moves; the account and its row stay.
LEMMA WorkStep ==
    ASSUME BillIInv, Calm, owner, UNCHANGED <<owner, bill, acked, hook, judged>>,
           sessions' \subseteq Pages, task' \in Tasks,
           bill = None => sessions' = {} /\ events' = {} /\ task'.pc \in {"idle", "commit"},
           PagesOK', JobOK'
    PROVE BillIInv'
<1>1. BillTyped /\ Advance BY DEF BillIInv, Calm
<1>2. BillTyped'
  <2>1. acked' \subseteq events' /\ overlap' \in BOOLEAN BY <1>1, BillParts DEF Advance, Calm
  <2> QED BY <1>1, <2>1, BillParts, TypedNext
<1>3. GoneOK' BY DEF GoneOK
<1>4. BillRowOK' BY <1>1, RowKeeps DEF BillIInv
<1>5. \A h \in Hooks : HookOK(h)' BY <1>1, HookKeeps DEF BillIInv
<1> QED BY <1>2, <1>3, <1>4, <1>5 DEF BillIInv, Calm

\* What a job that works, or a row, says of the account.
LEMMA BillWorking ==
    ASSUME BillIInv
    PROVE /\ bill # None => owner
          /\ task.pc # "idle" => owner
          /\ task.pc \notin {"idle", "commit"} => bill # None
BY DEF BillIInv, GoneOK, BillRowOK, B!IdleJob

LEMMA IdleTyped == B!IdleJob \in Tasks /\ B!IdleJob.pc = "idle"
BY DEF B!IdleJob, Tasks

\* A job ends, or never gets anywhere.
LEMMA JobEnds ==
    ASSUME BillIInv, owner, task' = B!IdleJob, sessions' \subseteq sessions,
           UNCHANGED <<owner, bill, subs, events, clock, overlap, acked, hook, judged>>
    PROVE BillIInv'
<1>1. BillTyped /\ Calm BY StillCalm DEF BillIInv
<1>2. PagesOK' BY <1>1, IdleTyped, PagesKeeps DEF BillIInv, Calm
<1>3. JobOK' BY IdleTyped DEF JobOK, Deleting
<1>4. sessions' \subseteq Pages BY <1>1, BillParts
<1>5. bill = None => sessions' = {} /\ events' = {} /\ task'.pc \in {"idle", "commit"}
  BY IdleTyped DEF BillIInv, BillRowOK
<1> QED BY <1>1, <1>2, <1>3, <1>4, <1>5, IdleTyped, WorkStep

LEMMA StartCheckoutKeeps ==
    ASSUME BillAssumed, BillIInv, B!StartCheckout, UNCHANGED <<acked, hook, overlap, judged>>
    PROVE BillIInv'
<1>1. BillTyped /\ Calm BY StillCalm DEF BillIInv, B!StartCheckout
<1> DEFINE r == IF bill = None THEN B!NewRow ELSE bill
<1>2. /\ owner /\ bill' = r /\ UNCHANGED <<sessions, subs, events, clock, owner>>
      /\ task' = [B!IdleJob EXCEPT !.pc = "open", !.kind = "checkout", !.cust = r.cust]
  BY DEF B!StartCheckout
<1>3. B!NewRow \in BillRows /\ B!NewRow.cust = None /\ B!NewRow.lastId = 0 /\ B!NewRow.lastAt = 0
      /\ B!NewRow.sub = None /\ B!NewRow.contract = None /\ B!NewRow.checked = None
      /\ B!NewRow.status = "none"
  BY DEF B!NewRow, BillRows, B!Statuses, BillAssumed
<1>4. r \in BillRows /\ r # None BY <1>1, <1>3, BillParts DEF BillAssumed
<1>5. r.cust \in Customers \cup {None} BY <1>4 DEF BillRows
<1>6. task' \in Tasks /\ task'.pc = "open" /\ task'.cust = r.cust
  BY <1>2, <1>5 DEF B!IdleJob, Tasks
<1>7. BillTyped' BY <1>1, <1>2, <1>4, <1>6, BillParts, TypedNext DEF Calm
<1>8. BillRowOK'
  <2>1. CASE bill = None
    <3>1. events = {} /\ acked = {} BY <1>1, <1>2, <2>1, BillParts DEF BillIInv, BillRowOK
    <3>2. bill' = B!NewRow /\ bill' # None BY <1>2, <1>4, <2>1
    <3>3. None \notin Subs BY DEF BillAssumed
    <3>4. acked' = {} BY <3>1
    <3> QED BY <1>3, <3>2, <3>3, <3>4 DEF BillRowOK, B!Live
  <2>2. CASE bill # None
    <3>1. bill' = bill BY <1>2, <2>2
    <3> QED BY <1>1, <1>2, <2>2, <3>1, RowKeeps DEF BillIInv, Calm
  <2> QED BY <2>1, <2>2
<1>9. PagesOK'
  <2>1. CASE bill = None BY <1>2, <1>3, <2>1 DEF PagesOK
  <2>2. CASE bill # None
    <3>1. bill' = bill /\ task'.cust = bill.cust BY <1>2, <1>6, <2>2
    <3>2. AnyBegun => AnyBegun' BY <1>2 DEF AnyBegun, Begun
    <3> QED BY <1>2, <3>1, <3>2 DEF BillIInv, PagesOK
  <2> QED BY <2>1, <2>2
<1>10. JobOK' BY <1>6 DEF JobOK, Deleting
<1>11. GoneOK' BY <1>2 DEF GoneOK
<1>12. \A h \in Hooks : HookOK(h)' BY <1>1, <1>2, HookKeeps DEF BillIInv, Calm
<1> QED BY <1>1, <1>7, <1>8, <1>9, <1>10, <1>11, <1>12 DEF BillIInv, Calm

\* A job begins and writes nothing but itself.
LEMMA StartsKeeps ==
    ASSUME BillIInv, bill # None \/ task'.pc = "commit", owner, task' \in Tasks, task'.pc # "open", JobOK',
           UNCHANGED <<owner, bill, sessions, subs, events, clock, acked, hook, overlap, judged>>
    PROVE BillIInv'
<1>1. BillTyped /\ Calm BY StillCalm DEF BillIInv
<1>2. PagesOK' BY <1>1, PagesKeeps DEF BillIInv, Calm
<1>3. sessions' \subseteq Pages BY <1>1, BillParts
<1>4. bill = None => sessions' = {} /\ events' = {} /\ task'.pc \in {"idle", "commit"}
  BY DEF BillIInv, BillRowOK
<1> QED BY <1>1, <1>2, <1>3, <1>4, WorkStep

LEMMA StartChangeKeeps ==
    ASSUME BillAssumed, BillIInv, B!StartChange, UNCHANGED <<acked, hook, overlap, judged>>
    PROVE BillIInv'
<1>1. /\ bill # None /\ B!Live(bill.status)
      /\ UNCHANGED <<bill, sessions, subs, events, clock, owner>>
      /\ task' = [B!IdleJob EXCEPT !.pc = "change", !.kind = "change", !.cust = bill.cust,
                                   !.todo = {bill.sub}]
  BY DEF B!StartChange
<1>2. bill \in BillRows BY <1>1, BillParts DEF BillIInv
<1>3. bill.sub \in Subs
  <2>1. bill.lastId # 0 BY <1>1 DEF BillIInv, BillRowOK
  <2>2. PICK f \in events : f.sub = bill.sub BY <1>1, <2>1 DEF BillIInv, BillRowOK
  <2> QED BY <2>2, BillParts DEF BillIInv, B!Events
<1>4. task' \in Tasks /\ task'.pc = "change" BY <1>1, <1>2, <1>3 DEF B!IdleJob, Tasks, BillRows
<1>5. JobOK' BY <1>4 DEF JobOK, Deleting
<1> QED BY <1>1, <1>4, <1>5, BillWorking, StartsKeeps

LEMMA StartWithdrawKeeps ==
    ASSUME BillAssumed, BillIInv, B!StartWithdraw, UNCHANGED <<acked, hook, overlap, judged>>
    PROVE BillIInv'
<1>1. /\ owner /\ bill # None /\ bill.contract # None
      /\ UNCHANGED <<bill, sessions, subs, events, clock, owner>>
      /\ task' = [B!IdleJob EXCEPT !.pc = "wcancel", !.kind = "withdraw", !.todo = {bill.contract}]
  BY DEF B!StartWithdraw
<1>2. PICK g \in events : g.sub = bill.contract BY <1>1 DEF BillIInv, BillRowOK
<1>3. bill.contract \in Subs /\ Begun(bill.contract)
  BY <1>2, BillParts DEF BillIInv, EventsOK, B!Events
<1>4. task' \in Tasks /\ task'.pc = "wcancel" /\ task'.todo = {bill.contract}
  BY <1>1, <1>3 DEF B!IdleJob, Tasks
<1>5. Begun(bill.contract)' BY <1>1, <1>3 DEF Begun
<1>6. \E s \in Subs : task'.todo = {s} /\ Begun(s)'
  <2>1. PICK s \in Subs : s = bill.contract BY <1>3
  <2>2. Begun(s)' BY <1>1, <1>3, <2>1 DEF Begun
  <2> QED BY <1>4, <2>1, <2>2
<1>7. JobOK' BY <1>4, <1>6 DEF JobOK, Deleting
<1> QED BY <1>1, <1>4, <1>7, StartsKeeps

LEMMA StartDeleteKeeps ==
    ASSUME BillAssumed, BillIInv, B!StartDelete, UNCHANGED <<acked, hook, overlap, judged>>
    PROVE BillIInv'
<1> DEFINE c == IF bill = None THEN None ELSE bill.cust
           pc == IF c = None THEN "commit" ELSE "expire"
<1>1. /\ owner /\ UNCHANGED <<bill, sessions, subs, events, clock, owner>>
      /\ task' = [B!IdleJob EXCEPT !.kind = "delete", !.cust = c, !.settled = B!BillingState,
                                   !.pc = pc]
  BY DEF B!StartDelete
<1>2. bill = None \/ bill \in BillRows BY BillParts DEF BillIInv
<1>3. /\ B!BillingState \in Settlings \cup {None} /\ c \in Customers \cup {None}
      /\ c = IF B!BillingState = None THEN None ELSE B!BillingState.cust
  BY <1>2 DEF B!BillingState, Settlings, BillRows, BillAssumed
<1>4. /\ task' \in Tasks /\ task'.pc = pc /\ task'.cust = c /\ task'.settled = B!BillingState
  BY <1>1, <1>3 DEF B!IdleJob, Tasks, Deleting
<1>5. JobOK' BY <1>1, <1>3, <1>4 DEF JobOK, Deleting
<1>6. task'.pc # "open" /\ (bill # None \/ task'.pc = "commit") BY <1>4
<1> QED BY <1>1, <1>4, <1>5, <1>6, StartsKeeps

\* A page is opened by a checkout: with the customer of the row, when it has one.
LEMMA OpenPageKeeps ==
    ASSUME BillAssumed, BillIInv, B!OpenPage, UNCHANGED <<acked, hook, overlap, judged>>
    PROVE BillIInv'
<1>1. PICK s \in Subs : B!OpenFor(s) BY DEF B!OpenPage
<1>2. /\ sessions' = sessions \cup {[cust |-> task.cust, sub |-> s]}
      /\ task' = [task EXCEPT !.pc = "handout", !.todo = {s}]
  BY <1>1 DEF B!OpenFor
<1>3. task.pc = "open" /\ UNCHANGED <<bill, subs, events, clock, owner>> BY <1>1 DEF B!OpenFor
<1>4. BillTyped /\ Calm /\ task \in Tasks BY <1>3, StillCalm, BillParts DEF BillIInv
<1>5. task' \in Tasks /\ task'.pc = "handout" BY <1>4, <1>2 DEF Tasks
<1>6. sessions' \subseteq Pages BY <1>4, <1>2, BillParts DEF Pages, Tasks
<1>7. AnyBegun => AnyBegun' BY <1>3 DEF AnyBegun, Begun
<1>8. PagesOK' BY <1>2, <1>3, <1>5, <1>7 DEF BillIInv, PagesOK
<1>9. JobOK' BY <1>5 DEF JobOK, Deleting
<1> QED BY <1>4, <1>3, <1>5, <1>6, <1>8, <1>9, BillWorking, WorkStep

LEMMA OpenChangeKeeps ==
    ASSUME BillAssumed, BillIInv, B!OpenChange, UNCHANGED <<acked, hook, overlap, judged>>
    PROVE BillIInv'
<1>1. BillTyped /\ Calm /\ task \in Tasks BY StillCalm, BillParts DEF BillIInv, B!OpenChange
<1>2. PICK s \in task.todo : /\ B!Live(subs[s].status)
                             /\ sessions' = sessions \cup {[cust |-> task.cust, sub |-> s]}
  BY DEF B!OpenChange
<1>3. task.pc = "change" /\ task' = B!IdleJob /\ UNCHANGED <<bill, subs, events, clock, owner>>
  BY DEF B!OpenChange
<1>4. s \in Subs BY <1>1, <1>2 DEF Tasks
<1>5. sessions' \subseteq Pages BY <1>1, <1>2, <1>4, BillParts DEF Pages, Tasks
<1>6. AnyBegun' BY <1>2, <1>3, <1>4 DEF AnyBegun, Begun, B!Live
<1>7. PagesOK' BY <1>6 DEF PagesOK
<1>8. JobOK' BY <1>3, IdleTyped DEF JobOK, Deleting
<1> QED BY <1>1, <1>3, <1>5, <1>7, <1>8, IdleTyped, BillWorking, WorkStep

LEMMA HandOutKeeps ==
    ASSUME BillIInv, B!HandOut, UNCHANGED <<acked, hook, overlap, judged>>
    PROVE BillIInv'
<1>1. owner BY BillWorking DEF B!HandOut
<1>2. sessions' = sessions BY <1>1 DEF B!HandOut
<1> QED BY <1>1, <1>2, JobEnds DEF B!HandOut

LEMMA JobFailsKeeps ==
    ASSUME BillIInv, B!JobFails, UNCHANGED <<acked, hook, overlap, judged>>
    PROVE BillIInv'
<1>1. owner BY BillWorking DEF B!JobFails
<1> QED BY <1>1, JobEnds DEF B!JobFails

\* The contract's subscription has ended when its end is recorded.
LEMMA WithdrawCancelKeeps ==
    ASSUME BillAssumed, BillIInv, B!WithdrawCancel, UNCHANGED <<acked, hook, overlap, judged>>
    PROVE BillIInv'
<1>1. /\ task.pc = "wcancel" /\ UNCHANGED <<bill, sessions, owner>>
      /\ task' = [task EXCEPT !.pc = "record"]
  BY DEF B!WithdrawCancel
<1>2. BillTyped /\ task \in Tasks BY BillParts DEF BillIInv
<1>3. PICK s \in Subs : task.todo = {s} /\ Begun(s) BY <1>1 DEF BillIInv, JobOK
<1>4. B!CancelOne(s) BY <1>3 DEF B!WithdrawCancel
<1>5. Calm /\ ~Runs(s)' BY <1>4, CancelCalm DEF BillIInv
<1>6. task' \in Tasks /\ task'.pc = "record" /\ task'.todo = {s} BY <1>1, <1>2, <1>3 DEF Tasks
<1>7. Begun(s)' BY <1>3, <1>5 DEF Calm, Advance
<1>8. \A t \in {s} : ~Runs(t)' BY <1>5 DEF Runs
<1>9. JobOK' BY <1>6, <1>7, <1>8 DEF JobOK, Deleting
<1>10. PagesOK' BY <1>1, <1>5, <1>6, PagesKeeps DEF BillIInv, Calm
<1>11. sessions' \subseteq Pages BY <1>1, <1>2, BillParts
<1> QED BY <1>1, <1>5, <1>6, <1>9, <1>10, <1>11, BillWorking, WorkStep

LEMMA RecordEndedKeeps ==
    ASSUME BillAssumed, BillIInv, B!RecordEnded, UNCHANGED <<acked, hook, overlap, judged>>
    PROVE BillIInv'
<1>1. /\ task.pc = "record" /\ task' = B!IdleJob
      /\ UNCHANGED <<sessions, subs, events, clock, owner>>
      /\ bill' = IF bill # None /\ bill.sub \in task.todo
                 THEN [bill EXCEPT !.status = "canceled"] ELSE bill
  BY DEF B!RecordEnded
<1>2. owner /\ bill # None BY <1>1, BillWorking
<1>3. CASE bill.sub \notin task.todo
  <2>1. bill' = bill BY <1>1, <1>3
  <2> QED BY <1>1, <1>2, <2>1, JobEnds
<1>4. CASE bill.sub \in task.todo
  <2>1. BillTyped /\ Calm /\ bill \in BillRows /\ task \in Tasks
    BY <1>1, <1>2, StillCalm, BillParts DEF BillIInv
  <2>2. /\ bill' \in BillRows /\ bill'.status = "canceled" /\ bill'.cust = bill.cust
        /\ bill'.sub = bill.sub /\ bill'.lastId = bill.lastId /\ bill'.lastAt = bill.lastAt
        /\ bill'.contract = bill.contract /\ bill'.checked = bill.checked
    BY <1>1, <1>2, <1>4, <2>1 DEF BillRows, B!Statuses
  <2>3. bill' # None BY <2>2 DEF BillAssumed
  <2>4. bill.sub \in Subs /\ ~Runs(bill.sub) BY <1>1, <1>4, <2>1 DEF BillIInv, JobOK, Tasks
  <2>5. BillTyped' BY <1>1, <2>1, <2>2, IdleTyped, BillParts, TypedNext DEF Calm
  <2>6. BillRowOK'
    <3>1. BillRowOK BY DEF BillIInv
    <3>2. bill.lastId # 0 BY <1>2, <2>4 DEF BillIInv, BillRowOK
    <3>3. \E f \in events' : /\ f.id = bill'.lastId /\ f.at = bill'.lastAt /\ f.sub = bill'.sub
                             /\ bill'.status = f.status \/ ~Runs(f.sub)'
      <4>1. PICK f \in events : f.id = bill.lastId /\ f.at = bill.lastAt /\ f.sub = bill.sub
        BY <1>2, <3>1, <3>2 DEF BillRowOK
      <4>2. ~Runs(f.sub)' BY <1>1, <2>4, <4>1 DEF Runs
      <4> QED BY <1>1, <2>2, <4>1, <4>2
    <3>4. /\ bill'.cust = None => acked' = {} /\ bill'.lastId = 0 /\ bill'.sub = None
          /\ \A e \in acked' : B!Live(e.status) => e.at <= bill'.lastAt
          /\ bill'.checked # None => bill'.checked \in judged'
      BY <1>2, <2>2, <3>1 DEF BillRowOK
    <3>5. bill'.contract # None => /\ bill'.contract \in judged'
                                   /\ \E g \in events' : g.sub = bill'.contract /\ g.at <= bill'.lastAt
      BY <1>1, <1>2, <2>2, <3>1 DEF BillRowOK
    <3> QED BY <2>2, <2>3, <3>2, <3>3, <3>4, <3>5 DEF BillRowOK
  <2>7. AnyBegun => AnyBegun' BY <1>1 DEF AnyBegun, Begun
  <2>8. PagesOK' BY <1>1, <1>2, <2>2, <2>7, IdleTyped DEF BillIInv, PagesOK
  <2>9. JobOK' BY <1>1, IdleTyped DEF JobOK, Deleting
  <2>10. GoneOK' BY <1>1, <1>2 DEF GoneOK
  <2>11. \A h \in Hooks : HookOK(h)' BY <1>1, <2>1, HookKeeps DEF BillIInv, Calm
  <2> QED BY <2>1, <2>5, <2>6, <2>8, <2>9, <2>10, <2>11 DEF BillIInv, Calm
<1> QED BY <1>3, <1>4

\* Every page of the customer that sells is expired, and one without a customer is dead.
LEMMA DeleteExpireKeeps ==
    ASSUME BillAssumed, BillIInv, B!DeleteExpire, UNCHANGED <<acked, hook, overlap, judged>>
    PROVE BillIInv'
<1>1. /\ task.pc = "expire" /\ UNCHANGED <<bill, subs, events, clock, owner>>
      /\ task' = [task EXCEPT !.pc = "list"]
      /\ sessions' = {p \in sessions: p.cust # task.cust \/ ~B!Sells(p)}
  BY DEF B!DeleteExpire, B!ExpireFor
<1>2. BillTyped /\ Calm /\ task \in Tasks BY <1>1, StillCalm, BillParts DEF BillIInv
<1>3. /\ task' \in Tasks /\ task'.pc = "list" /\ task'.cust = task.cust /\ task'.settled = task.settled
  BY <1>1, <1>2 DEF Tasks, Deleting
<1>4. /\ task.cust = IF task.settled = None THEN None ELSE task.settled.cust
      /\ task.cust # None /\ bill # None /\ bill.cust # None
  BY <1>1 DEF BillIInv, JobOK, Deleting
<1>5. AnyBegun => AnyBegun' BY <1>1 DEF AnyBegun, Begun
<1>6. Closed'
  <2> SUFFICES ASSUME NEW p \in sessions', B!Sells(p)' PROVE p.cust = None /\ AnyBegun'
    BY DEF Closed
  <2>1. p \in sessions /\ p.cust # task.cust BY <1>1 DEF B!Sells
  <2>2. p.cust \in Customers \cup {None} /\ task.cust \in Customers
    BY <1>2, <1>4, <2>1, BillParts DEF Pages, Tasks
  <2>3. p.cust = None BY <2>1, <2>2 DEF BillAssumed
  <2>4. AnyBegun BY <1>4, <2>1, <2>3 DEF BillIInv, PagesOK
  <2> QED BY <1>5, <2>3, <2>4
<1>7. JobOK' BY <1>1, <1>3, <1>4, <1>6 DEF JobOK, Deleting
<1>8. sessions' \subseteq sessions BY <1>1
<1>9. PagesOK' BY <1>1, <1>2, <1>3, <1>8, PagesKeeps DEF BillIInv, Calm
<1>10. sessions' \subseteq Pages BY <1>2, <1>8, BillParts
<1> QED BY <1>1, <1>2, <1>3, <1>4, <1>7, <1>9, <1>10, BillWorking, WorkStep

\* All that runs is the customer's.
LEMMA DeleteListKeeps ==
    ASSUME BillAssumed, BillIInv, B!DeleteList, UNCHANGED <<acked, hook, overlap, judged>>
    PROVE BillIInv'
<1>1. /\ task.pc = "list" /\ UNCHANGED <<bill, sessions, subs, events, clock, owner>>
      /\ task' = [task EXCEPT !.pc = "cancel", !.todo = B!Running(task.cust)]
  BY DEF B!DeleteList
<1>2. BillTyped /\ Calm /\ task \in Tasks BY <1>1, StillCalm, BillParts DEF BillIInv
<1>3. B!Running(task.cust) \subseteq Subs BY DEF B!Running
<1>4. /\ task' \in Tasks /\ task'.pc = "cancel" /\ task'.cust = task.cust
      /\ task'.settled = task.settled /\ task'.todo = B!Running(task.cust)
  BY <1>1, <1>2, <1>3 DEF Tasks, Deleting
<1>5. /\ task.cust = IF task.settled = None THEN None ELSE task.settled.cust
      /\ task.cust # None /\ bill # None /\ bill.cust # None /\ Closed
  BY <1>1 DEF BillIInv, JobOK, Deleting
<1>6. \A s \in Subs : Runs(s)' => s \in B!Running(task.cust)
  <2> SUFFICES ASSUME NEW s \in Subs, Runs(s) PROVE s \in B!Running(task.cust)
    BY <1>1 DEF Runs
  <2>1. subs[s].cust \in Customers BY DEF Begun, Runs, B!Live, BillIInv, EventsOK
  <2>2. task.cust \in Customers BY <1>2, <1>5 DEF Tasks
  <2>3. subs[s].cust = task.cust BY <2>1, <2>2 DEF BillAssumed
  <2> QED BY <2>3 DEF B!Running, Runs
<1>7. Closed' BY <1>1, <1>2, <1>5, ClosedKeeps DEF Calm
<1>8. JobOK' BY <1>1, <1>4, <1>5, <1>6, <1>7 DEF JobOK, Deleting
<1>9. PagesOK' BY <1>1, <1>2, <1>4, PagesKeeps DEF BillIInv, Calm
<1>10. sessions' \subseteq Pages BY <1>1, <1>2, BillParts
<1> QED BY <1>1, <1>2, <1>4, <1>5, <1>8, <1>9, <1>10, BillWorking, WorkStep

LEMMA DeleteCancelKeeps ==
    ASSUME BillAssumed, BillIInv, B!DeleteCancel, UNCHANGED <<acked, hook, overlap, judged>>
    PROVE BillIInv'
<1>1. task.pc = "cancel" /\ UNCHANGED <<bill, sessions, owner>> BY DEF B!DeleteCancel
<1>2. BillTyped /\ task \in Tasks BY BillParts DEF BillIInv
<1>3. /\ task.cust = IF task.settled = None THEN None ELSE task.settled.cust
      /\ task.cust # None /\ bill # None /\ bill.cust # None /\ Closed
      /\ \A s \in Subs : Runs(s) => s \in task.todo
  BY <1>1 DEF BillIInv, JobOK, Deleting
<1>4. sessions' \subseteq Pages BY <1>1, <1>2, BillParts
<1>5. CASE task.todo = {}
  <2>1. task' = [task EXCEPT !.pc = "commit"] /\ UNCHANGED <<subs, events, clock>>
    BY <1>5 DEF B!DeleteCancel
  <2>2. Calm BY <1>1, <2>1, StillCalm DEF BillIInv
  <2>3. /\ task' \in Tasks /\ task'.pc = "commit" /\ task'.cust = task.cust
        /\ task'.settled = task.settled
    BY <1>2, <2>1 DEF Tasks, Deleting
  <2>4. \A s \in Subs : ~Runs(s)' BY <1>3, <1>5, <2>1 DEF Runs
  <2>5. Closed' BY <1>1, <1>2, <1>3, <2>2, ClosedKeeps DEF Calm
  <2>6. JobOK' BY <1>1, <1>3, <2>3, <2>4, <2>5 DEF JobOK, Deleting
  <2>7. PagesOK' BY <1>1, <2>2, <2>3, PagesKeeps DEF BillIInv, Calm
  <2> QED BY <1>1, <1>3, <1>4, <2>2, <2>3, <2>6, <2>7, BillWorking, WorkStep
<1>6. CASE task.todo # {}
  <2>1. PICK s \in task.todo : B!CancelOne(s) /\ task' = [task EXCEPT !.todo = @ \ {s}]
    BY <1>6 DEF B!DeleteCancel
  <2>2. s \in Subs BY <1>2, <2>1 DEF Tasks
  <2>3. Calm /\ ~Runs(s)' BY <2>1, <2>2, CancelCalm DEF BillIInv
  <2>4. /\ task' \in Tasks /\ task'.pc = "cancel" /\ task'.cust = task.cust
        /\ task'.settled = task.settled /\ task'.todo = task.todo \ {s}
    BY <1>1, <1>2, <2>1 DEF Tasks, Deleting
  <2>5. \A t \in Subs : Runs(t)' => t \in task.todo \ {s}
    <3> SUFFICES ASSUME NEW t \in Subs, Runs(t)' PROVE t \in task.todo \ {s} OBVIOUS
    <3>1. t # s BY <2>3 DEF Runs
    <3>2. Runs(t) BY <2>3 DEF Calm
    <3> QED BY <1>3, <3>1, <3>2
  <2>6. Closed' BY <1>1, <1>2, <1>3, <2>3, ClosedKeeps DEF Calm
  <2>7. JobOK' BY <1>1, <1>3, <2>4, <2>5, <2>6 DEF JobOK, Deleting
  <2>8. PagesOK' BY <1>1, <2>3, <2>4, PagesKeeps DEF BillIInv, Calm
  <2> QED BY <1>1, <1>3, <1>4, <2>3, <2>4, <2>7, <2>8, BillWorking, WorkStep
<1> QED BY <1>5, <1>6

\* The account goes when its billing did not move: nothing it was told of runs.
LEMMA DeleteCommitKeeps ==
    ASSUME BillAssumed, BillIInv, B!DeleteCommit, UNCHANGED <<acked, hook, overlap, judged>>
    PROVE BillIInv'
<1>1. /\ task.pc = "commit" /\ task' = B!IdleJob /\ UNCHANGED <<sessions, subs, events, clock>>
  BY DEF B!DeleteCommit
<1>2. owner BY <1>1, BillWorking
<1>3. CASE B!Moved(task.settled, B!BillingState)
  <2>1. UNCHANGED <<owner, bill>> BY <1>3 DEF B!DeleteCommit
  <2> QED BY <1>1, <1>2, <2>1, JobEnds
<1>4. CASE ~B!Moved(task.settled, B!BillingState)
  <2>1. ~owner' /\ bill' = None BY <1>2, <1>4 DEF B!DeleteCommit
  <2>2. BillTyped /\ Calm /\ task \in Tasks BY <1>1, StillCalm, BillParts DEF BillIInv
  <2>3. owner' \in BOOLEAN BY <1>2, <1>4 DEF B!DeleteCommit
  <2>4. BillTyped' BY <1>1, <2>1, <2>2, <2>3, IdleTyped, BillParts, TypedNext DEF Calm
  <2>5. \A e \in acked : ~Runs(e.sub)
    <3>1. CASE task.cust # None
      <4>1. \A s \in Subs : ~Runs(s) BY <1>1, <3>1 DEF BillIInv, JobOK, Deleting
      <4>2. \A e \in acked : e.sub \in Subs BY <2>2, BillParts DEF B!Events
      <4> QED BY <4>1, <4>2
    <3>2. CASE task.cust = None
      <4>1. None = IF task.settled = None THEN None ELSE task.settled.cust
        BY <1>1, <3>2 DEF BillIInv, JobOK, Deleting
      <4>2. CASE bill = None BY <1>2, <2>2, <4>2, BillParts DEF BillIInv, BillRowOK
      <4>3. CASE bill # None
        <5>1. bill \in BillRows BY <2>2, <4>3, BillParts
        <5>2. B!BillingState \in Settlings /\ B!BillingState.cust = bill.cust
          BY <4>3, <5>1 DEF B!BillingState, Settlings, BillRows
        <5>3. B!BillingState # None BY <5>2 DEF BillAssumed
        <5>4. bill.cust = None BY <1>4, <4>1, <5>2, <5>3 DEF B!Moved
        <5> QED BY <4>3, <5>4 DEF BillIInv, BillRowOK
      <4> QED BY <4>2, <4>3
    <3> QED BY <3>1, <3>2
  <2>6. GoneOK'
    <3>1. \A e \in acked' : ~Runs(e.sub)' BY <1>1, <2>5 DEF Runs
    <3> QED BY <1>1, <2>1, <3>1 DEF GoneOK
  <2>7. BillRowOK' /\ PagesOK' BY <2>1 DEF BillRowOK, PagesOK
  <2>8. JobOK' BY <1>1, IdleTyped DEF JobOK, Deleting
  <2>9. \A h \in Hooks : HookOK(h)' BY <1>2, <2>2, HookKeeps DEF BillIInv, Calm
  <2> QED BY <2>2, <2>4, <2>6, <2>7, <2>8, <2>9 DEF BillIInv, Calm
<1> QED BY <1>3, <1>4

\* At the start there is at most an ended subscription of long ago.
LEMMA BillInit == ASSUME BillAssumed, B!Init PROVE BillIInv
<1>1. /\ owner /\ sessions = {} /\ events = {} /\ acked = {} /\ clock = 1
      /\ task = B!IdleJob /\ ~overlap /\ judged = {}
      /\ \A s \in Subs : subs[s] = [status |-> "none", cust |-> None]
      /\ \A h \in Hooks : hook[h] = B!IdleHook
  BY DEF B!Init
<1>2. \/ bill = None
      \/ /\ bill \in BillRows /\ bill.status = "canceled" /\ bill.sub = Old /\ bill.cust # None
         /\ bill.lastId = 0 /\ bill.lastAt = 0 /\ bill.contract = None /\ bill.checked = None
  <2> SUFFICES ASSUME bill # None
      PROVE /\ bill \in BillRows /\ bill.status = "canceled" /\ bill.sub = Old /\ bill.cust # None
            /\ bill.lastId = 0 /\ bill.lastAt = 0 /\ bill.contract = None /\ bill.checked = None
    OBVIOUS
  <2>1. PICK c \in Customers : bill = B!EndedRow(c) BY DEF B!Init
  <2>2. bill = [status |-> "canceled", cust |-> c, sub |-> Old, lastId |-> 0,
                lastAt |-> 0, contract |-> None, checked |-> None]
    BY <2>1 DEF B!EndedRow
  <2>3. 0 \in 0..MaxEvents /\ c # None BY DEF BillAssumed
  <2> QED BY <2>2, <2>3 DEF BillRows, B!Statuses
<1>3. /\ subs \in Contracts /\ hook \in [Hooks -> Deliveries] /\ task \in Tasks
      /\ B!IdleHook.todo \subseteq Subs
  BY IdleHookTyped, IdleTyped DEF B!Init, Contracts, B!Statuses, B!IdleHook
<1>4. \A s \in Subs : ~Begun(s) /\ ~Runs(s) BY <1>1 DEF Begun, Runs, B!Live
<1>5. IsFiniteSet({}) /\ Cardinality({}) = 0 BY FS_EmptySet
<1>6. owner \in BOOLEAN /\ overlap \in BOOLEAN BY DEF B!Init
<1>7. BillTyped BY <1>1, <1>2, <1>3, <1>5, <1>6 DEF BillTyped, B!TypeOK, Contracts, BillRows
<1>8. EventsOK BY <1>1, <1>4, <1>5 DEF EventsOK, BillAssumed
<1>9. LastWord BY <1>4 DEF LastWord
<1>10. GoneOK BY <1>1 DEF GoneOK
<1>11. BillRowOK BY <1>1, <1>2, IdleTyped DEF BillRowOK, B!Live, BillAssumed
<1>12. PagesOK BY <1>1, IdleTyped DEF PagesOK
<1>13. JobOK BY <1>1, IdleTyped DEF JobOK, Deleting
<1>14. \A h \in Hooks : HookOK(h) BY <1>1 DEF HookOK, B!IdleHook
<1> QED BY <1>7, <1>8, <1>9, <1>10, <1>11, <1>12, <1>13, <1>14 DEF BillIInv

LEMMA BillStutterKeeps == ASSUME BillIInv, UNCHANGED B!vars PROVE BillIInv'
<1>1. BillTyped /\ Calm BY StillCalm DEF BillIInv, B!vars
<1>2. owner => events' = events /\ acked' = acked BY DEF B!vars
<1>3. ~owner => \A e \in acked' : e \in acked \/ (e \in events /\
        (e.type \in {"checkout", "created"} => ~Runs(e.sub)))
  BY DEF B!vars
<1>4. owner' => owner BY DEF B!vars
<1>5. \A h \in Hooks : HookOK(h)' BY <1>1, <1>4, HookKeeps DEF BillIInv, Calm, B!vars
<1> QED BY <1>1, <1>2, <1>3, <1>5, BillParts, HookStep DEF B!vars

\* Every step keeps the invariant.
LEMMA BillStep == ASSUME BillAssumed, BillIInv, [B!Next]_(B!vars) PROVE BillIInv'
<1>1. CASE B!Provider BY <1>1, UpdatesKeeps, PortalKeeps, PayKeeps, ConfirmKeeps DEF B!Provider
<1>2. CASE B!StartJob
  BY <1>2, StartCheckoutKeeps, StartChangeKeeps, StartWithdrawKeeps, StartDeleteKeeps DEF B!StartJob
<1>3. CASE B!JobStep
  BY <1>3, OpenPageKeeps, HandOutKeeps, OpenChangeKeeps, WithdrawCancelKeeps, RecordEndedKeeps,
     DeleteExpireKeeps, DeleteListKeeps, DeleteCancelKeeps, DeleteCommitKeeps, JobFailsKeeps
     DEF B!JobStep
<1>4. ASSUME NEW h \in Hooks, B!Apply(h) PROVE BillIInv'
  BY <1>4, AppliedKeeps, StaleKeeps, LateKeeps
<1>5. ASSUME NEW h \in Hooks, B!CancelOrphan(h) PROVE BillIInv' BY <1>5, OrphanKeeps
<1>6. ASSUME NEW h \in Hooks, NEW e \in events, B!Deliver(h, e) PROVE BillIInv'
  BY <1>6, DeliverKeeps
<1>7. CASE UNCHANGED B!vars BY <1>7, BillStutterKeeps
<1> QED BY <1>1, <1>2, <1>3, <1>4, <1>5, <1>6, <1>7 DEF B!Next

\* When all is settled, the last word of what runs was applied last.
LEMMA BillPromise == ASSUME BillAssumed, BillIInv PROVE BillSound
<1>1. B!TypeOK BY DEF BillIInv, BillTyped
<1>2. B!NothingBillsDeleted BY DEF BillIInv, GoneOK, B!NothingBillsDeleted, Runs
<1>3. B!PaidKeepsPlan
  <2> SUFFICES ASSUME B!Settled, ~overlap, NEW s \in Subs, Runs(s)
               PROVE bill.sub = s /\ B!Live(bill.status)
    BY DEF B!PaidKeepsPlan, Runs
  <2>1. PICK m \in events :
           /\ m.sub = s
           /\ \A f \in events : /\ f.at <= m.at
                                /\ f.at = m.at => f.sub = s /\ f.status = subs[s].status
    BY DEF BillIInv, LastWord
  <2>2. events \subseteq B!Events /\ acked = events /\ owner BY BillParts DEF BillIInv, B!Settled
  <2>3. bill # None /\ bill \in BillRows BY <2>2, RowFirst, BillParts DEF BillIInv
  <2>4. m.at \in Nat \ {0} BY <2>1, <2>2, BillParts DEF BillIInv, EventsOK
  <2>5. B!Live(m.status) BY <2>1, <2>4 DEF Runs
  <2>6. m.at <= bill.lastAt BY <2>2, <2>3, <2>5 DEF BillIInv, BillRowOK
  <2>7. bill.lastAt # 0 BY <2>3, <2>4, <2>6 DEF BillRows
  <2>8. bill.lastId # 0 BY <2>3, <2>7 DEF BillIInv, BillRowOK
  <2>9. PICK f \in events : /\ f.id = bill.lastId /\ f.at = bill.lastAt /\ f.sub = bill.sub
                            /\ bill.status = f.status \/ ~Runs(f.sub)
    BY <2>3, <2>8 DEF BillIInv, BillRowOK
  <2>10. f.at = m.at BY <2>1, <2>3, <2>4, <2>6, <2>9 DEF BillRows
  <2>11. f.sub = s /\ f.status = subs[s].status BY <2>1, <2>10
  <2> QED BY <2>9, <2>11 DEF Runs
<1> QED BY <1>1, <1>2, <1>3 DEF BillSound

\* Only an applied event moves the contract: one the provider was not asked about was
\* judged before, and one it called the only one is stale when a later contract runs.
LEMMA ContractStays == ASSUME BillAssumed, BillIInv, [B!Next]_(B!vars) PROVE B!KeepsContract
<1> SUFFICES ASSUME bill # None, bill' # None, bill'.contract # bill.contract, bill.contract # None,
                    bill'.contract \notin judged, Runs(bill.contract)
             PROVE FALSE
  BY DEF B!KeepsContract, Runs
<1>1. bill \in BillRows BY BillParts DEF BillIInv
<1>2. ASSUME NEW h \in Hooks, B!Apply(h) PROVE FALSE
  <2>1. PICK e : e = hook[h].ev OBVIOUS
  <2>2. bill' = B!Applied(e, hook[h].others) /\ ~B!Stale(e) /\ hook[h].pc = "lock"
    BY <1>2, <2>1 DEF B!Apply
  <2>3. bill'.contract = IF B!StartsContract(e, hook[h].others) THEN e.sub ELSE bill.contract
    BY <1>1, <2>2 DEF B!Applied, BillRows
  <2>4. B!StartsContract(e, hook[h].others) /\ bill'.contract = e.sub BY <2>3
  <2>5. HookOK(h) /\ hook[h] \in Deliveries BY BillParts DEF BillIInv
  <2>6. hook[h].others = FALSE
    <3>1. hook[h].others \in BOOLEAN \cup {None} BY <2>5 DEF Deliveries
    <3>2. hook[h].others # None BY <2>1, <2>2, <2>4, <2>5 DEF HookOK, B!StartsContract
    <3> QED BY <2>4, <3>1, <3>2 DEF B!StartsContract
  <2>7. PICK g \in events : g.sub = bill.contract /\ g.at <= bill.lastAt
    BY DEF BillIInv, BillRowOK
  <2>8. e.at < g.at BY <2>1, <2>2, <2>4, <2>5, <2>6, <2>7 DEF HookOK, B!StartsContract
  <2>9. e.at \in Nat /\ g.at \in Nat
    BY <2>1, <2>2, <2>5, BillParts DEF BillIInv, HookOK, B!Events
  <2>10. bill.lastAt > 0 /\ e.at < bill.lastAt BY <1>1, <2>7, <2>8, <2>9 DEF BillRows
  <2> QED BY <2>2, <2>10 DEF B!Stale
<1>3. CASE B!Provider BY <1>3 DEF B!Provider, B!Updates, B!PortalCancels, B!Pay, B!Confirm
<1>4. CASE B!StartJob
  BY <1>4 DEF B!StartJob, B!StartCheckout, B!StartChange, B!StartWithdraw, B!StartDelete
<1>5. CASE B!JobStep
  <2>1. CASE B!RecordEnded BY <1>1, <2>1 DEF B!RecordEnded, BillRows
  <2>2. CASE B!DeleteCommit BY <2>2 DEF B!DeleteCommit
  <2>3. CASE B!HandOut \/ B!OpenChange \/ B!JobFails
    BY <2>3 DEF B!HandOut, B!OpenChange, B!JobFails
  <2>4. CASE B!WithdrawCancel \/ B!DeleteExpire \/ B!DeleteList \/ B!DeleteCancel
    BY <2>4 DEF B!WithdrawCancel, B!DeleteExpire, B!DeleteList, B!DeleteCancel
  <2>5. CASE B!OpenPage
    <3>1. PICK s \in Subs : B!OpenFor(s) BY <2>5 DEF B!OpenPage
    <3> QED BY <3>1 DEF B!OpenFor
  <2> QED BY <1>5, <2>1, <2>2, <2>3, <2>4, <2>5 DEF B!JobStep
<1>6. ASSUME NEW h \in Hooks, B!CancelOrphan(h) PROVE FALSE BY <1>6 DEF B!CancelOrphan
<1>7. ASSUME NEW h \in Hooks, NEW e \in events, B!Deliver(h, e) PROVE FALSE BY <1>7 DEF B!Deliver
<1>8. CASE UNCHANGED B!vars BY <1>8 DEF B!vars
<1> QED BY <1>2, <1>3, <1>4, <1>5, <1>6, <1>7, <1>8 DEF B!Next

\* For any subscriptions, deliveries, events and jobs of an account with one customer.
THEOREM BillingHolds == ASSUME BillAssumed PROVE B!Spec => []BillSound
<1>1. B!Init => BillIInv BY BillInit
<1>2. BillIInv /\ [B!Next]_(B!vars) => BillIInv' BY BillStep
<1> QED BY <1>1, <1>2, BillPromise, PTL DEF B!Spec

\* A withdrawal window never moves off a subscription that runs, but to one judged before.
THEOREM WindowHolds == ASSUME BillAssumed PROVE B!Spec => B!ContractKept
<1>1. B!Init => BillIInv BY BillInit
<1>2. BillIInv /\ [B!Next]_(B!vars) => BillIInv' BY BillStep
<1>3. BillIInv /\ [B!Next]_(B!vars) => [B!KeepsContract]_(B!vars) BY ContractStays
<1> QED BY <1>1, <1>2, <1>3, PTL DEF B!Spec, B!ContractKept
=============================================================================
