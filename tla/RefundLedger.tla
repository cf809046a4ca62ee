---------------------------- MODULE RefundLedger ----------------------------
(***************************************************************************)
(* The refund of one subscription's unused period: the ledger row, the     *)
(* requests that drive it (POST /withdraw, account deletion, the admin's   *)
(* list and settle, the provider's refund-failure events) and the part of  *)
(* Stripe they use.  src/billing/withdrawal.py, api/billing.py withdraw,   *)
(* src/auth/account_deletion.py, api/admin.py owed-refunds.                *)
(*                                                                         *)
(* A database session that starts with lock_account is one step.  A call   *)
(* to Stripe is a step of its own, made without any lock; its answer may   *)
(* be lost, and the call may take effect at Stripe later.  Time is kept    *)
(* only as what the code compares: whether the window is open, whether a   *)
(* lease still runs, which invoice was current when the withdrawal was     *)
(* asked for, and whether the cancellation landed late.                    *)
(***************************************************************************)
EXTENDS Integers, FiniteSets, FiniteSetsExt

CONSTANTS
    Reqs,         \* requests that can run at the same time
    Amounts,      \* what the unused period may be worth, in cents
    Cards,        \* what the card may have paid of it, in cents
    MaxAttempt,   \* bound on the provider keys tried
    MaxRenewals,  \* bound on renewals before the cancellation lands
    MaxOps,       \* bound on requests started
    PaysPending,  \* the owner also pays stuck pending rows by hand
    NoReq, NoRow

VARIABLES
    account,      \* the account exists
    window,       \* the withdrawal window is open
    row,          \* the SubscriptionRefund row, or NoRow
    req,          \* [Reqs -> the request's step and its detached copy of the row]
    fresh,        \* admins whose read of the row is still its latest version
    stripe,       \* the subscription, its payment and its credit notes
    handed,       \* cents the owner paid by hand for what the row owes now
    asked,        \* a withdrawal was recorded, or the account went, inside the window
    ops           \* requests started

vars == <<account, window, row, req, fresh, stripe, handed, asked, ops>>

FINAL == {"done", "owed", "settled"}
Kinds == {"withdraw", "delete", "list", "settle"}

\* -1 is None in amount, toRefund and refund.
Rows == [state: FINAL \cup {"pending"}, amount: Nat \cup {-1}, toRefund: Nat \cup {-1},
         owed: Nat, refunded: Nat, attempt: Nat, token: Reqs \cup {NoReq},
         held: BOOLEAN, refund: Nat \cup {-1}, invoice: Nat, period: Nat]

Steps == {"idle", "claim", "freeze", "stamp", "cancel", "again", "settle",
          "compute", "problem", "plan", "lookup", "create", "commit",
          "resolve", "find", "reread", "write"}

Requests == [pc: Steps, kind: Kinds, mine: Rows \cup {NoRow}, rekeyed: BOOLEAN,
             retried: BOOLEAN, open: BOOLEAN, period: Nat]

Notes == [key: Nat, amount: Nat, refund: {"made", "failed", "owed", "logged"}]

Idle == [pc |-> "idle", kind |-> "withdraw", mine |-> NoRow, rekeyed |-> FALSE,
         retried |-> FALSE, open |-> FALSE, period |-> 0]

-----------------------------------------------------------------------------
(* Stripe, external: modelled from how stripe_gateway.py uses it.          *)

Total(notes) == MapThenSumSet(LAMBDA n: n.amount, notes)

Least(a, b) == IF a < b THEN a ELSE b
AtLeast0(n) == IF n < 0 THEN 0 ELSE n

\* What the notes sent back to the card and has not bounced.
Returned == Total({n \in stripe.notes: n.refund = "made"})

\* CreditNote.create is idempotent in its key: a replay answers the first note.
NoteOf(key) == {n \in stripe.notes: n.key = key}

\* Stripe makes a note when the call arrives: the key was not seen with other
\* parameters, nothing refuses the refund and the payment covers it.
Makes(key, amount) ==
    /\ NoteOf(key) = {}
    /\ key \notin stripe.burnt
    /\ ~stripe.refuses
    /\ amount + Returned <= stripe.card

AddNote(s, key, amount) ==
    [s EXCEPT !.notes = @ \cup {[key |-> key, amount |-> amount, refund |-> "made"]}]

\* A create whose caller gave up takes effect, or is found refused.
SentLands ==
    \E c \in stripe.sent:
      stripe' = IF Makes(c.key, c.amount)
                THEN [AddNote(stripe, c.key, c.amount) EXCEPT !.sent = @ \ {c}]
                ELSE [stripe EXCEPT !.sent = @ \ {c}]

\* A cancellation whose caller gave up lands after the allowed delay.
CancelLandsLate ==
    /\ stripe.cancelSent /\ ~stripe.ended
    /\ stripe' = [stripe EXCEPT !.ended = TRUE, !.late = TRUE]

Renews ==
    /\ ~stripe.ended /\ stripe.invoice <= MaxRenewals
    /\ stripe' = [stripe EXCEPT !.invoice = @ + 1]

\* A dispute, or the customer deleted in the dashboard.
StartsRefusing ==
    /\ ~stripe.refuses
    /\ stripe' = [stripe EXCEPT !.refuses = TRUE]

RefundFails ==
    \E n \in stripe.notes:
      /\ n.refund = "made"
      /\ stripe' = [stripe EXCEPT !.notes = (@ \ {n}) \cup {[n EXCEPT !.refund = "failed"]}]

Provider ==
    /\ SentLands \/ CancelLandsLate \/ Renews \/ StartsRefusing \/ RefundFails
    /\ UNCHANGED <<account, window, row, req, fresh, handed, asked, ops>>

-----------------------------------------------------------------------------
(* The ledger row.                                                         *)

NewRow(r) ==
    [state |-> "pending", amount |-> -1, toRefund |-> -1, owed |-> 0,
     refunded |-> 0, attempt |-> 0, token |-> NoReq, held |-> FALSE,
     refund |-> -1, invoice |-> 0, period |-> req[r].period]

Claimed(r, old) == [old EXCEPT !.token = r, !.held = TRUE]

Released(old) == [old EXCEPT !.token = NoReq, !.held = FALSE]

FinishedNets(old, refunded, owed, owedAnyway, refund) ==
    [Released(old) EXCEPT !.state = IF owed > 0 \/ owedAnyway THEN "owed" ELSE "done",
                          !.refunded = refunded, !.owed = owed - refunded, !.refund = refund]

\* _finish: final for the app, the claim given back.
Finished(old, refunded, owed, owedAnyway, refund) ==
    [Released(old) EXCEPT !.state = IF owed > 0 \/ owedAnyway THEN "owed" ELSE "done",
                          !.refunded = refunded, !.owed = owed, !.refund = refund]

\* Every write of the row advances its version: no earlier read stays current.
Put(new) == row' = new /\ fresh' = {}

Goto(r, step) == req' = [req EXCEPT ![r].pc = step]
End(r) == req' = [req EXCEPT ![r] = Idle]

HoldsAny(r) == row # NoRow

\* _save holds only while the request's token is the row's; LostClaim ends it.
Holds(r) == row # NoRow /\ row.token = r

Save(r, new, step) ==
    IF Holds(r)
    THEN /\ Put(new)
         /\ req' = [req EXCEPT ![r] = IF step = "idle" THEN Idle
                                      ELSE [@ EXCEPT !.pc = step, !.mine = new]]
    ELSE End(r) /\ UNCHANGED <<row, fresh>>

GiveBackNextKey(r) ==
    /\ End(r)
    /\ IF Holds(r) THEN Put([Released(row) EXCEPT !.attempt = Least(@ + 1, MaxAttempt)])
       ELSE UNCHANGED <<row, fresh>>

\* A transient failure: the claim is given back if it is still held.
GiveBack(r) ==
    /\ End(r)
    /\ IF Holds(r) THEN Put(Released(row)) ELSE UNCHANGED <<row, fresh>>

\* Where a request goes once the row is final.
AfterSettle(r) ==
    CASE req[r].kind = "delete" -> "commit"
      [] req[r].kind = "settle" -> "reread"
      [] OTHER -> "idle"

\* _claim: `final` is the step after a final row, `step` the one after a claim.
Claim(r, create, final, step) ==
    \/ /\ row = NoRow /\ ~(create /\ account)
       /\ End(r) /\ UNCHANGED <<row, fresh, asked>>
    \/ /\ row = NoRow /\ create /\ account
       /\ Put(Claimed(r, NewRow(r)))
       /\ asked' = TRUE
       /\ req' = [req EXCEPT ![r].pc = step, ![r].mine = Claimed(r, NewRow(r))]
    \/ /\ row # NoRow /\ row.state \in FINAL
       /\ IF final = "idle" THEN End(r) ELSE Goto(r, final)
       /\ UNCHANGED <<row, fresh, asked>>
    \/ /\ row # NoRow /\ row.state = "pending" /\ row.held
       /\ End(r) /\ UNCHANGED <<row, fresh, asked>>
    \/ /\ row # NoRow /\ row.state = "pending" /\ ~row.held
       /\ Put(Claimed(r, row))
       /\ req' = [req EXCEPT ![r].pc = step, ![r].mine = Claimed(r, row)]
       /\ UNCHANGED asked

-----------------------------------------------------------------------------
(* POST /withdraw and account deletion.                                    *)

\* _withdrawal_target: the window is open, or the row is already there.
StartWithdraw(r) ==
    /\ account /\ (row # NoRow \/ window)
    /\ req' = [req EXCEPT ![r] =
                 [Idle EXCEPT !.pc = IF row # NoRow /\ row.state \in FINAL
                                     THEN "settle" ELSE "claim",
                              !.kind = "withdraw", !.open = window,
                              !.period = stripe.invoice]]
    /\ UNCHANGED asked

\* record_deletion_withdrawal: nothing to record once final, or with no row
\* outside the window; then only the cancellation is left.
StartDelete(r) ==
    /\ account
    /\ req' = [req EXCEPT ![r] =
                 [Idle EXCEPT !.pc = IF (row # NoRow /\ row.state \in FINAL)
                                        \/ (row = NoRow /\ ~window)
                                     THEN "cancel" ELSE "claim",
                              !.kind = "delete", !.open = window,
                              !.period = stripe.invoice]]
    /\ UNCHANGED asked

\* request_withdrawal: the row first, then the invoice, then the stamp.
RequestWithdrawal(r) ==
    /\ req[r].pc = "claim"
    /\ Claim(r, TRUE, "cancel", "freeze")
    /\ UNCHANGED stripe

FreezeInvoice(r) ==
    /\ req[r].pc = "freeze"
    /\ LET mine == req[r].mine
           unread == mine.invoice = 0 /\ mine.amount < 0 IN
       \/ ~unread /\ Goto(r, "stamp") /\ UNCHANGED <<row, fresh>>
       \/ unread /\ Save(r, [row EXCEPT !.invoice = stripe.invoice], "stamp")
       \/ unread /\ stripe.refuses /\ Goto(r, "stamp") /\ UNCHANGED <<row, fresh>>
       \/ unread /\ GiveBack(r)
    /\ UNCHANGED <<stripe, asked>>

StampAttempt(r) ==
    /\ req[r].pc = "stamp"
    /\ Save(r, Released(row), "cancel")
    /\ stripe' = [stripe EXCEPT !.late = @ /\ ~Holds(r)]
    /\ UNCHANGED asked

\* A first deletion pass goes on to finish_pending; the others settle.
Cancel(r) ==
    /\ req[r].pc = "cancel"
    /\ stripe' = [stripe EXCEPT !.ended = TRUE]
    /\ Goto(r, IF req[r].kind = "delete" /\ ~req[r].retried THEN "again" ELSE "settle")
    /\ UNCHANGED <<row, fresh, asked>>

\* The answer is lost: the cancellation landed, or may land later.
CancelFails(r) ==
    /\ req[r].pc = "cancel"
    /\ \E landed \in BOOLEAN:
         stripe' = [stripe EXCEPT !.ended = @ \/ landed, !.cancelSent = TRUE]
    /\ End(r)
    /\ UNCHANGED <<row, fresh, asked>>

\* refund_inside_window: finish_pending, then the contract if never recorded.
FinishPending(r) ==
    /\ req[r].pc = "again"
    /\ req' = [req EXCEPT
         ![r].retried = TRUE,
         ![r].pc = IF row # NoRow /\ row.state = "pending" THEN "claim"
                   ELSE IF row = NoRow /\ req[r].open THEN "settle" ELSE "commit"]
    /\ UNCHANGED <<row, fresh, stripe, asked>>

\* settle: claim the row, and go on from what is frozen on it.
NextOf(new) ==
    CASE new.amount < 0 -> "compute"
      [] new.amount >= 0 /\ new.toRefund < 0 -> "plan"
      [] OTHER -> "lookup"

Settle(r) ==
    /\ req[r].pc = "settle"
    /\ Claim(r, TRUE, AfterSettle(r), IF row = NoRow THEN "compute" ELSE NextOf(row))
    /\ UNCHANGED stripe

\* A renewal after the request, or a cancellation that landed late.
Problem(mine) == stripe.late \/ stripe.invoice > mine.period

Compute(r) ==
    /\ req[r].pc = "compute"
    /\ \/ GiveBack(r)
       \/ /\ stripe.refuses
          /\ Save(r, Finished(row, 0, 0, TRUE, -1), AfterSettle(r))
       \/ /\ stripe.ended
          /\ Save(r, [row EXCEPT !.amount = stripe.unused,
                                 !.invoice = IF @ = 0 THEN stripe.invoice ELSE @],
                  IF Problem(req[r].mine) THEN "problem" ELSE "plan")
    /\ UNCHANGED <<stripe, asked>>

RecordProblem(r) ==
    /\ req[r].pc = "problem"
    /\ Save(r, Finished(row, 0, req[r].mine.amount, TRUE, -1), AfterSettle(r))
    /\ UNCHANGED <<stripe, asked>>

\* refund_plan: our note if there is one, else the split of the amount.
Split(amount) ==
    LET owed == AtLeast0(amount - Returned - stripe.byHand)
        send == AtLeast0(Least(owed, stripe.card - Returned - stripe.byHand))
    IN [send |-> send, owed |-> owed - send]

FinishFound(r, n) ==
    Save(r, Finished(row, n.amount, AtLeast0(req[r].mine.amount - n.amount - stripe.byHand),
                     FALSE, n.key), AfterSettle(r))

Plan(r) ==
    /\ req[r].pc = "plan"
    /\ LET amount == req[r].mine.amount
           split == Split(amount) IN
       \/ amount > 0 /\ GiveBack(r)
       \/ /\ amount > 0 /\ stripe.refuses
          /\ Save(r, Finished(row, 0, amount, TRUE, -1), AfterSettle(r))
       \/ /\ amount > 0
          /\ \E n \in stripe.notes: FinishFound(r, n)
       \/ /\ amount = 0 \/ stripe.notes = {}
          /\ Save(r, [row EXCEPT !.toRefund = split.send, !.owed = split.owed], "lookup")
    /\ UNCHANGED <<stripe, asked>>

\* issue_refund first looks for a note carrying the refund key.
FinishIssuedOwesAll(r, key) ==
    LET mine == req[r].mine IN
    Save(r, Finished(row, mine.toRefund, mine.toRefund + mine.owed, FALSE, key), AfterSettle(r))

FinishIssued(r, key) ==
    LET mine == req[r].mine IN
    Save(r, Finished(row, mine.toRefund, mine.owed, FALSE, key), AfterSettle(r))

Lookup(r) ==
    /\ req[r].pc = "lookup"
    /\ LET sends == req[r].mine.toRefund > 0 IN
       \/ sends /\ GiveBack(r)
       \/ ~sends /\ FinishIssued(r, -1)
       \/ sends /\ \E n \in stripe.notes: FinishIssued(r, n.key)
       \/ sends /\ stripe.notes = {} /\ Goto(r, "create") /\ UNCHANGED <<row, fresh>>
    /\ UNCHANGED <<stripe, asked>>

\* The provider key of a create: the same for every replay of one attempt.
NoteKey(mine) == mine.attempt

\* CreditNote.create under the provider key.  It is answered (a new note, or
\* the replay of one), refused, or the answer is lost.
CreateNote(r) ==
    /\ req[r].pc = "create"
    /\ LET mine == req[r].mine
           key == NoteKey(mine) IN
       \/ /\ Makes(key, mine.toRefund)
          /\ stripe' = AddNote(stripe, key, mine.toRefund)
          /\ FinishIssued(r, key)
       \/ /\ NoteOf(key) # {}
          /\ FinishIssued(r, key) /\ UNCHANGED stripe
       \/ /\ stripe' = [stripe EXCEPT !.sent = @ \cup {[key |-> key, amount |-> mine.toRefund]}]
          /\ GiveBack(r)
       \/ /\ NoteOf(key) = {} /\ stripe.refuses
          /\ Save(r, Finished(row, 0, mine.toRefund + mine.owed, TRUE, -1), AfterSettle(r))
          /\ UNCHANGED stripe
    /\ UNCHANGED asked

\* The key was used with other parameters: once more under the next one.
NextKey(r) ==
    /\ req[r].pc = "create"
    /\ NoteKey(req[r].mine) \in stripe.burnt
    /\ LET mine == req[r].mine IN
       IF req[r].rekeyed \/ mine.attempt >= MaxAttempt
       THEN GiveBack(r)
       ELSE IF Holds(r)
       THEN LET new == [row EXCEPT !.attempt = mine.attempt + 1] IN
            /\ Put(new)
            /\ req' = [req EXCEPT ![r].pc = "lookup", ![r].mine = new, ![r].rekeyed = TRUE]
       ELSE End(r) /\ UNCHANGED <<row, fresh>>
    /\ UNCHANGED <<stripe, asked>>

\* The mutant drops every refund row with the account.
DeleteAccountAndLedger(r) ==
    /\ req[r].pc = "commit"
    /\ account' = FALSE
    /\ asked' = (asked \/ (account /\ req[r].open))
    /\ IF account /\ row # NoRow THEN Put(NoRow) ELSE UNCHANGED <<row, fresh>>
    /\ End(r)
    /\ UNCHANGED <<window, stripe, handed, ops>>

\* delete_user_and_data under the lock: finished refunds go with the account.
DeleteAccount(r) ==
    /\ req[r].pc = "commit"
    /\ account' = FALSE
    /\ asked' = (asked \/ (account /\ req[r].open))
    /\ IF account /\ row # NoRow /\ row.state \in {"done", "settled"}
       THEN Put(NoRow) ELSE UNCHANGED <<row, fresh>>
    /\ End(r)
    /\ UNCHANGED <<window, stripe, handed, ops>>

\* The billing row moved meanwhile: the deletion is refused.
RefuseDelete(r) ==
    /\ req[r].pc = "commit" /\ account
    /\ End(r)
    /\ UNCHANGED <<row, fresh, stripe, asked>>

-----------------------------------------------------------------------------
(* The owner: the owed list, refunds by hand and settling.                 *)

\* owed_refunds resolves pending rows no request holds; settle_owed_refund
\* also takes an owed one, which the owner has paid in full by then.
StartList(r) ==
    /\ row # NoRow /\ row.state = "pending" /\ ~row.held
    /\ req' = [req EXCEPT ![r] = [Idle EXCEPT !.pc = "resolve", !.kind = "list"]]
    /\ UNCHANGED asked

\* The rows the owner pays by hand: owed ones, and listed pending ones whose
\* amount is known.  An owed row of unknown amount is read off the invoice.
Payable ==
    /\ row # NoRow
    /\ \/ row.state = "owed"
       \/ PaysPending /\ row.state = "pending" /\ ~row.held /\ row.amount > 0

Due == (IF row.state = "pending" THEN row.amount
        ELSE IF row.amount < 0 THEN stripe.unused ELSE row.owed) - handed

StartSettle(r) ==
    /\ Payable /\ Due = 0
    /\ req' = [req EXCEPT ![r] =
                 [Idle EXCEPT !.pc = IF row.state = "pending" THEN "resolve" ELSE "reread",
                              !.kind = "settle"]]
    /\ UNCHANGED asked

\* resolve_pending
Resolve(r) ==
    /\ req[r].pc = "resolve"
    /\ Claim(r, FALSE, AfterSettle(r), "find")
    /\ UNCHANGED stripe

FindNote(r) ==
    /\ req[r].pc = "find"
    /\ \/ GiveBack(r)
       \/ /\ req[r].mine.toRefund > 0
          /\ \E n \in stripe.notes: FinishFound(r, n)
       \/ /\ req[r].mine.toRefund <= 0 \/ stripe.notes = {}
          /\ Save(r, Released(row), AfterSettle(r))
    /\ UNCHANGED <<stripe, asked>>

ReadOwed(r) ==
    /\ req[r].pc = "reread"
    /\ IF row # NoRow /\ row.state \in {"owed", "pending"}
       THEN fresh' = fresh \cup {r} /\ Goto(r, "write")
       ELSE End(r) /\ UNCHANGED fresh
    /\ UNCHANGED <<row, stripe, asked>>

\* The fenced write: a tombstone, or no row at all once the account is gone.
WriteSettled(r) ==
    /\ req[r].pc = "write"
    /\ IF r \in fresh /\ row # NoRow /\ ~row.held
       THEN /\ Put(IF account THEN [Released(row) EXCEPT !.state = "settled"] ELSE NoRow)
            /\ handed' = 0
       ELSE UNCHANGED <<row, fresh, handed>>
    /\ End(r)
    /\ UNCHANGED <<account, window, stripe, asked, ops>>

\* The owner refunds a listed row in the dashboard.
OwnerPays ==
    /\ Payable /\ Due > 0
    /\ handed' = handed + Due
    /\ stripe' = [stripe EXCEPT !.byHand = @ + Due]
    /\ UNCHANGED <<account, window, row, req, fresh, asked, ops>>

\* record_refund_failure, matched by the refund the note made.  A failure that
\* matches no row is logged for the owner; a repeat changes nothing.
RefundFailureEvent ==
    \E n \in stripe.notes:
      /\ n.refund = "failed"
      /\ LET ours == row # NoRow /\ row.refund = n.key
             failed == Least(n.amount, row.refunded) IN
         /\ stripe' = [stripe EXCEPT !.notes =
              (@ \ {n}) \cup {[n EXCEPT !.refund = IF ours THEN "owed" ELSE "logged"]}]
         /\ IF ours
            THEN Put([row EXCEPT !.state = "owed", !.refund = -1,
                                 !.refunded = @ - failed,
                                 !.owed = IF row.state = "settled" THEN failed
                                          ELSE @ + failed])
            ELSE UNCHANGED <<row, fresh>>
      /\ UNCHANGED <<account, window, req, handed, asked, ops>>

-----------------------------------------------------------------------------
(* Time and faults.                                                        *)

LeaseExpires ==
    /\ row # NoRow /\ row.held
    /\ row' = [row EXCEPT !.held = FALSE]
    /\ UNCHANGED <<account, window, req, fresh, stripe, handed, asked, ops>>

WindowCloses ==
    /\ window /\ window' = FALSE
    /\ UNCHANGED <<account, row, req, fresh, stripe, handed, asked, ops>>

\* The process dies: the request is gone, its claim stays until it expires.
Dies(r) ==
    /\ req[r].pc # "idle"
    /\ End(r)
    /\ UNCHANGED <<account, window, row, fresh, stripe, handed, asked, ops>>

Start(r) ==
    /\ req[r].pc = "idle" /\ ops < MaxOps
    /\ StartWithdraw(r) \/ StartDelete(r) \/ StartList(r) \/ StartSettle(r)
    /\ ops' = ops + 1
    /\ UNCHANGED <<account, window, row, fresh, stripe, handed>>

Step(r) ==
    /\ \/ RequestWithdrawal(r) \/ FreezeInvoice(r) \/ StampAttempt(r)
       \/ Cancel(r) \/ CancelFails(r) \/ FinishPending(r) \/ Settle(r)
       \/ Compute(r) \/ RecordProblem(r) \/ Plan(r) \/ Lookup(r)
       \/ CreateNote(r) \/ NextKey(r) \/ RefuseDelete(r)
       \/ Resolve(r) \/ FindNote(r) \/ ReadOwed(r)
    /\ UNCHANGED <<account, window, handed, ops>>

Init ==
    /\ account = TRUE /\ window = TRUE
    /\ row = NoRow /\ req = [r \in Reqs |-> Idle] /\ fresh = {}
    /\ \E unused \in Amounts, card \in Cards, burnt \in SUBSET {0}:
         stripe = [unused |-> unused, card |-> card, burnt |-> burnt,
                   invoice |-> 1, ended |-> FALSE, late |-> FALSE,
                   cancelSent |-> FALSE, refuses |-> FALSE, byHand |-> 0,
                   notes |-> {}, sent |-> {}]
    /\ handed = 0 /\ asked = FALSE /\ ops = 0

Next ==
    \/ \E r \in Reqs: Start(r) \/ Step(r) \/ DeleteAccount(r) \/ WriteSettled(r) \/ Dies(r)
    \/ OwnerPays \/ RefundFailureEvent
    \/ LeaseExpires \/ WindowCloses \/ Provider

Spec == Init /\ [][Next]_vars

-----------------------------------------------------------------------------
(* Properties.                                                             *)

\* The row, the requests and Stripe keep their shapes.
TypeOK ==
    /\ account \in BOOLEAN /\ window \in BOOLEAN /\ asked \in BOOLEAN
    /\ row \in Rows \cup {NoRow}
    /\ req \in [Reqs -> Requests]
    /\ fresh \subseteq Reqs
    /\ stripe.notes \subseteq Notes
    /\ handed \in Nat /\ ops \in Nat

\* issue_refund: however requests overlap, die, lose answers or outlive their
\* lease, every create of one withdrawal carries the same provider key, so
\* there is one credit note at most.
OneNote == \A n, m \in stripe.notes: n = m

\* withdrawal.py: nothing is ever refunded twice: what the note sent and what
\* the owner paid by hand never exceed the unused period.
NeverTwice == Returned + stripe.byHand <= stripe.unused

\* A final row says what happened at Stripe: what it calls refunded is what
\* the note sent, and with what it owes or the owner settled it adds up to the
\* unused period (when that could be read).
LedgerAgrees ==
    row # NoRow /\ row.state \in FINAL =>
      /\ row.refunded = Total({n \in stripe.notes: n.refund # "owed"})
      /\ row.amount >= 0 /\ row.state # "settled" =>
           row.refunded + row.owed + (stripe.byHand - handed) = stripe.unused

\* An account that withdrew in time and is gone lost nothing: a row is left for
\* the owner to settle, or the unused period was sent back by note or by hand
\* (a note that bounces after that is in the log, its row being gone).
NothingForfeited ==
    asked /\ ~account /\ row = NoRow =>
      Total(stripe.notes) + stripe.byHand >= stripe.unused
=============================================================================
