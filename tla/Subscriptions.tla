--------------------------- MODULE Subscriptions ----------------------------
(***************************************************************************)
(* One account's stored subscription and what moves it: checkout, the      *)
(* provider's webhooks, a plan change, a withdrawal, the portal, deletion. *)
(* src/billing/subscriptions.py, src/billing/webhook_events.py,            *)
(* api/billing.py, src/auth/account_deletion.py.                           *)
(*                                                                         *)
(* A session that starts with lock_account is one step; a call to Stripe   *)
(* is a step of its own, made without the lock.  Events stay deliverable   *)
(* for ever and in any order: Stripe repeats a delivery that got no 2xx,   *)
(* and may repeat one that did.                                            *)
(***************************************************************************)
EXTENDS Naturals, FiniteSets

CONSTANTS
    Subs,        \* provider subscriptions that can be bought
    Customers,   \* provider customers a first purchase can create
    Hooks,       \* webhook deliveries handled at the same time
    MaxEvents,   \* bound on events sent
    MaxOps,      \* bound on checkouts, withdrawals and deletions
    SameSecond,  \* two changes may carry the same created second
    None,
    Old          \* the ended subscription of a returning customer

VARIABLES
    account,     \* the account exists
    row,         \* its Subscription row, or None
    subs,        \* [Subs -> status, customer] at Stripe
    sessions,    \* open pages at Stripe: their customer, the subscription they
                 \* sell (checkout) or move to another plan (change)
    events,      \* every event sent
    acked,       \* events answered 2xx at least once
    clock,       \* the current second
    hook,        \* [Hooks -> delivery in progress]
    job,         \* the checkout, withdrawal or deletion in progress
    overlap,     \* history: two subscriptions ran at the same time
    judged,      \* history: subscriptions a paid event of which was applied
    ops

vars == <<account, row, subs, sessions, events, acked, clock, hook, job, overlap,
          judged, ops>>

Statuses == {"none", "active", "past_due", "canceled"}

\* subscription_is_live, the in-force statuses and _ENDED_SUBSCRIPTION_STATUSES
\* agree on the statuses modelled here.
Live(status) == status \in {"active", "past_due"}

Events == [id: Nat, type: {"checkout", "created", "updated", "deleted"},
           sub: Subs, at: Nat, status: Statuses]

NewRow == [status |-> "none", cust |-> None, sub |-> None, lastId |-> 0,
           lastAt |-> 0, contract |-> None, checked |-> None]

\* An account that had a subscription before, ended long ago.
EndedRow(c) == [status |-> "canceled", cust |-> c, sub |-> Old, lastId |-> 0,
                lastAt |-> 0, contract |-> None, checked |-> None]

IdleHook == [pc |-> "idle", ev |-> None, others |-> None, todo |-> {}]
IdleJob == [pc |-> "idle", kind |-> "none", cust |-> None, settled |-> None, todo |-> {}]

-----------------------------------------------------------------------------
(* Stripe, external: modelled from how api/billing.py and                  *)
(* stripe_gateway.py use it.                                               *)

\* Send events about subscription s, all created in the current second.
Send(s, types, status) ==
    LET n == Cardinality(events)
        new == {[id |-> n + i, type |-> types[i], sub |-> s, at |-> clock,
                 status |-> status]: i \in DOMAIN types} IN
    /\ n + Cardinality(DOMAIN types) <= MaxEvents
    /\ events' = events \cup new
    /\ IF SameSecond THEN clock' \in {clock, clock + 1} ELSE clock' = clock + 1

Running(c) == {s \in Subs: subs[s].cust = c /\ Live(subs[s].status)}

\* A checkout page sells a subscription that nobody has bought yet.
Sells(page) == subs[page.sub].status = "none"

\* A checkout page is paid: a first purchase creates its customer.
Pay(page) ==
    /\ Sells(page)
    /\ sessions' = sessions \ {page}
    /\ \E c \in IF page.cust # None THEN {page.cust}
                ELSE {c \in Customers: \A t \in Subs: subs[t].cust # c}:
         subs' = [subs EXCEPT ![page.sub] = [status |-> "active", cust |-> c]]
    /\ overlap' = (overlap \/ \E t \in Subs: Live(subs[t].status))
    /\ Send(page.sub, <<"checkout", "created">>, "active")
    /\ UNCHANGED <<account, row, acked, hook, job, judged, ops>>

\* A renewal fails, or a late payment comes in.
Updates(s) ==
    /\ Live(subs[s].status)
    /\ LET status == IF subs[s].status = "active" THEN "past_due" ELSE "active" IN
       /\ subs' = [subs EXCEPT ![s].status = status]
       /\ Send(s, <<"updated">>, status)
    /\ UNCHANGED <<account, row, sessions, acked, hook, job, overlap, judged, ops>>

\* The subscription ends: cancelled in the portal, or by a call of ours.
Ends(s) ==
    /\ subs' = [subs EXCEPT ![s].status = "canceled"]
    /\ Send(s, <<"deleted">>, "canceled")

PortalCancels(s) ==
    /\ Live(subs[s].status) /\ Ends(s)
    /\ UNCHANGED <<account, row, sessions, acked, hook, job, overlap, judged, ops>>

\* A plan change is confirmed on its page: the running subscription moves, or
\* ends when the plan moved to is the free one.
Confirm(page) ==
    /\ Live(subs[page.sub].status)
    /\ sessions' = sessions \ {page}
    /\ \/ Send(page.sub, <<"updated">>, subs[page.sub].status) /\ UNCHANGED subs
       \/ Ends(page.sub)
    /\ UNCHANGED <<account, row, acked, hook, job, overlap, judged, ops>>

Provider ==
    \/ \E s \in Subs: Updates(s) \/ PortalCancels(s)
    \/ \E page \in sessions: Pay(page) \/ Confirm(page)

-----------------------------------------------------------------------------
(* Applying an event, under the account's lock.                            *)

\* paid_since: the checkout event starts nothing.
Paid(e) == e.type \in {"created", "updated"} /\ e.status = "active"

\* _starts_a_contract, given the provider's answer (None when it was not asked).
StartsContractUnasked(e, others) ==
    /\ Paid(e) /\ e.sub \notin {row.contract, row.checked}

StartsContract(e, others) ==
    /\ Paid(e) /\ e.sub \notin {row.contract, row.checked}
    /\ IF others # None THEN ~others
       ELSE ~(row.sub # None /\ row.sub # e.sub /\ Live(row.status))

StaleOnlyRepeated(e) == row.lastId = e.id

Stale(e) ==
    \/ row.lastId = e.id
    \/ row.lastAt > 0 /\ e.at < row.lastAt
    \/ row.sub # None /\ row.sub # e.sub /\ ~Live(e.status)

Applied(e, others) ==
    [row EXCEPT
       !.contract = IF StartsContract(e, others) THEN e.sub ELSE @,
       !.checked = IF Paid(e) THEN e.sub ELSE @,
       !.status = e.status, !.cust = subs[e.sub].cust, !.sub = e.sub,
       !.lastId = e.id, !.lastAt = e.at]

\* _handle_webhook before the lock: _others_in_force asks the provider only
\* for a paid subscription that was not judged yet.
Deliver(h, e) ==
    /\ hook[h].pc = "idle"
    /\ LET known == row # None /\ e.sub \in {row.contract, row.checked}
           c == subs[e.sub].cust IN
       hook' = [hook EXCEPT ![h] =
         [pc |-> "lock", ev |-> e, todo |-> {},
          others |-> IF Paid(e) /\ ~known THEN Running(c) \ {e.sub} # {} ELSE None]]
    /\ UNCHANGED <<account, row, subs, sessions, events, acked, clock, job, overlap,
                   judged, ops>>

\* Under the lock: an event of an account that is gone is an orphan if it
\* announces a start, and is ignored otherwise; the rest is applied or stale.
Apply(h) ==
    /\ hook[h].pc = "lock"
    /\ LET e == hook[h].ev
           orphan == ~account /\ e.type \in {"checkout", "created"} IN
       /\ row' = IF account /\ ~Stale(e) THEN Applied(e, hook[h].others) ELSE row
       /\ judged' = IF account /\ ~Stale(e) /\ Paid(e) THEN judged \cup {e.sub} ELSE judged
       /\ hook' = [hook EXCEPT ![h] = IF orphan THEN [@ EXCEPT !.pc = "expire"]
                                      ELSE IdleHook]
       /\ acked' = IF orphan THEN acked ELSE acked \cup {e}
    /\ UNCHANGED <<account, subs, sessions, events, clock, job, overlap, ops>>

-----------------------------------------------------------------------------
(* cancel_all_for_customer: expire the open checkouts, list what runs,     *)
(* cancel each.  Used for an orphan by the webhook and by account deletion.*)

ExpireFor(c) == sessions' = {p \in sessions: p.cust # c \/ ~Sells(p)}

\* cancel_subscription: one that has ended already counts as cancelled.
CancelOne(s) ==
    IF Live(subs[s].status) THEN Ends(s) ELSE UNCHANGED <<subs, events, clock>>

OrphanExpire(h) ==
    /\ hook[h].pc = "expire"
    /\ ExpireFor(subs[hook[h].ev.sub].cust)
    /\ hook' = [hook EXCEPT ![h].pc = "list"]
    /\ UNCHANGED <<subs, events, clock, acked>>

OrphanList(h) ==
    /\ hook[h].pc = "list"
    /\ hook' = [hook EXCEPT ![h].pc = "cancel",
                            ![h].todo = Running(subs[hook[h].ev.sub].cust)]
    /\ UNCHANGED <<subs, events, clock, sessions, acked>>

OrphanCancel(h) ==
    /\ hook[h].pc = "cancel"
    /\ \E s \in hook[h].todo: CancelOne(s) /\ hook' = [hook EXCEPT ![h].todo = @ \ {s}]
    /\ UNCHANGED <<sessions, acked>>

OrphanDone(h) ==
    /\ hook[h].pc = "cancel" /\ hook[h].todo = {}
    /\ acked' = acked \cup {hook[h].ev}
    /\ hook' = [hook EXCEPT ![h] = IdleHook]
    /\ UNCHANGED <<subs, events, clock, sessions>>

\* Stripe fails or the process dies: 502 or nothing, and a later redelivery.
HookFails(h) ==
    /\ hook[h].pc # "idle"
    /\ hook' = [hook EXCEPT ![h] = IdleHook]
    /\ UNCHANGED <<subs, events, clock, sessions, acked>>

CancelOrphan(h) ==
    /\ OrphanExpire(h) \/ OrphanList(h) \/ OrphanCancel(h) \/ OrphanDone(h) \/ HookFails(h)
    /\ UNCHANGED <<account, row, job, overlap, judged, ops>>

-----------------------------------------------------------------------------
(* create_checkout                                                         *)

\* The row is created if need be; a live subscription refuses with 409.
StartCheckout ==
    /\ job.pc = "idle" /\ account
    /\ LET r == IF row = None THEN NewRow ELSE row IN
       /\ ~Live(r.status)
       /\ row' = r
       /\ job' = [IdleJob EXCEPT !.pc = "open", !.kind = "checkout", !.cust = r.cust]
    /\ UNCHANGED <<sessions, subs, events, clock, account>>

\* The page is opened at Stripe; nobody has paid it yet.
OpenFor(s) ==
    /\ job.pc = "open"
    /\ subs[s].status = "none" /\ \A p \in sessions: p.sub # s
    /\ sessions' = sessions \cup {[cust |-> job.cust, sub |-> s]}
    /\ job' = [job EXCEPT !.pc = "handout", !.todo = {s}]
    /\ UNCHANGED <<row, subs, events, clock, account>>

OpenPage == \E s \in Subs: OpenFor(s)

\* Under the lock: handed out while the account exists, else expired (which
\* may fail: the webhook then cancels what is paid).
HandOut ==
    /\ job.pc = "handout"
    /\ job' = IdleJob
    /\ \/ account /\ UNCHANGED sessions
       \/ ~account /\ sessions' \in {sessions, {p \in sessions: p.sub \notin job.todo \/ ~Sells(p)}}
    /\ UNCHANGED <<row, subs, events, clock, account>>

-----------------------------------------------------------------------------
(* change_plan                                                             *)

\* Only a live subscription can be moved; nothing is written, the change comes
\* back as an event.
StartChange ==
    /\ job.pc = "idle" /\ row # None
    /\ Live(row.status) /\ row.cust # None /\ row.sub # None
    /\ job' = [IdleJob EXCEPT !.pc = "change", !.kind = "change", !.cust = row.cust,
                              !.todo = {row.sub}]
    /\ UNCHANGED <<row, sessions, subs, events, clock, account>>

\* create_plan_change_session: opened on the subscription read from the row,
\* which Stripe still has to be running.
OpenChange ==
    /\ job.pc = "change"
    /\ \E s \in job.todo:
         /\ Live(subs[s].status)
         /\ sessions' = sessions \cup {[cust |-> job.cust, sub |-> s]}
    /\ job' = IdleJob
    /\ UNCHANGED <<row, subs, events, clock, account>>

-----------------------------------------------------------------------------
(* withdraw: cancel the contract's subscription, then record its end.  The *)
(* refund between the two is RefundLedger's.                               *)

StartWithdraw ==
    /\ job.pc = "idle" /\ account /\ row # None /\ row.contract # None
    /\ job' = [IdleJob EXCEPT !.pc = "wcancel", !.kind = "withdraw",
                              !.todo = {row.contract}]
    /\ UNCHANGED <<row, sessions, subs, events, clock, account>>

WithdrawCancel ==
    /\ job.pc = "wcancel"
    /\ \E s \in job.todo: CancelOne(s)
    /\ job' = [job EXCEPT !.pc = "record"]
    /\ UNCHANGED <<row, sessions, account>>

RecordEndedWithdrawn ==
    /\ job.pc = "record"
    /\ row' = IF row # None /\ row.sub \in job.todo
              THEN [row EXCEPT !.status = "withdrawn"] ELSE row
    /\ job' = IdleJob
    /\ UNCHANGED <<sessions, subs, events, clock, account>>

RecordEnded ==
    /\ job.pc = "record"
    /\ row' = IF row # None /\ row.sub \in job.todo
              THEN [row EXCEPT !.status = "canceled"] ELSE row
    /\ job' = IdleJob
    /\ UNCHANGED <<sessions, subs, events, clock, account>>

-----------------------------------------------------------------------------
(* delete_user_and_data                                                    *)

\* _billing_state, and whether cancel_live_subscription has a customer to ask.
BillingState == IF row = None THEN None ELSE [cust |-> row.cust, sub |-> row.sub, status |-> row.status]

StartDelete ==
    /\ job.pc = "idle" /\ account
    /\ LET cust == IF row = None THEN None ELSE row.cust IN
       job' = [IdleJob EXCEPT !.kind = "delete", !.cust = cust, !.settled = BillingState,
                              !.pc = IF cust = None THEN "commit" ELSE "expire"]
    /\ UNCHANGED <<row, sessions, subs, events, clock, account>>

DeleteExpire ==
    /\ job.pc = "expire"
    /\ ExpireFor(job.cust)
    /\ job' = [job EXCEPT !.pc = "list"]
    /\ UNCHANGED <<row, subs, events, clock, account>>

DeleteList ==
    /\ job.pc = "list"
    /\ job' = [job EXCEPT !.pc = "cancel", !.todo = Running(job.cust)]
    /\ UNCHANGED <<row, sessions, subs, events, clock, account>>

DeleteCancel ==
    /\ job.pc = "cancel"
    /\ IF job.todo = {}
       THEN job' = [job EXCEPT !.pc = "commit"] /\ UNCHANGED <<subs, events, clock>>
       ELSE \E s \in job.todo: CancelOne(s) /\ job' = [job EXCEPT !.todo = @ \ {s}]
    /\ UNCHANGED <<row, sessions, account>>

\* _billing_moved: a customer never settled, or a status that can still bill.
MovedNever(settled, now) == FALSE

Moved(settled, now) ==
    /\ now # settled
    /\ \/ now = None
       \/ now # None /\ now.cust # (IF settled = None THEN None ELSE settled.cust)
       \/ now # None /\ Live(now.status)

DeleteCommit ==
    /\ job.pc = "commit"
    /\ job' = IdleJob
    /\ IF account /\ ~Moved(job.settled, BillingState)
       THEN account' = FALSE /\ row' = None
       ELSE UNCHANGED <<account, row>>
    /\ UNCHANGED <<sessions, subs, events, clock>>

\* Stripe fails, or the process dies.
JobFails ==
    /\ job.pc # "idle" /\ job' = IdleJob
    /\ UNCHANGED <<row, sessions, subs, events, clock, account>>

StartJob ==
    /\ ops < MaxOps /\ ops' = ops + 1
    /\ StartCheckout \/ StartChange \/ StartWithdraw \/ StartDelete
    /\ UNCHANGED <<acked, hook, overlap, judged>>

JobStep ==
    /\ \/ OpenPage \/ HandOut \/ OpenChange \/ WithdrawCancel \/ RecordEnded
       \/ DeleteExpire \/ DeleteList \/ DeleteCancel \/ DeleteCommit \/ JobFails
    /\ UNCHANGED <<acked, hook, overlap, judged, ops>>

Init ==
    /\ account = TRUE
    /\ row = None \/ \E c \in Customers: row = EndedRow(c)
    /\ subs = [s \in Subs |-> [status |-> "none", cust |-> None]]
    /\ sessions = {} /\ events = {} /\ acked = {} /\ clock = 1
    /\ hook = [h \in Hooks |-> IdleHook] /\ job = IdleJob
    /\ overlap = FALSE /\ judged = {} /\ ops = 0

Next ==
    \/ Provider \/ StartJob \/ JobStep
    \/ \E h \in Hooks: Apply(h) \/ CancelOrphan(h) \/ \E e \in events: Deliver(h, e)

Spec == Init /\ [][Next]_vars

-----------------------------------------------------------------------------
(* Properties.                                                             *)

\* The rows, events and requests keep their shapes.
TypeOK ==
    /\ account \in BOOLEAN /\ overlap \in BOOLEAN
    /\ \/ row = None
       \/ row \in [status: Statuses, cust: Customers \cup {None}, sub: Subs \cup {None, Old},
                   lastId: 0..MaxEvents, lastAt: Nat, contract: Subs \cup {None},
                   checked: Subs \cup {None}]
    /\ subs \in [Subs -> [status: Statuses, cust: Customers \cup {None}]]
    /\ sessions \subseteq [cust: Customers \cup {None}, sub: Subs]
    /\ events \subseteq Events /\ acked \subseteq events
    /\ \A h \in Hooks: hook[h].todo \subseteq Subs

\* cancel_live_subscription and _cancel_orphan: once an account is gone, a
\* subscription of it keeps billing only while no delivery of its start was
\* answered, that is while Stripe still repeats one.
NothingBillsDeleted ==
    ~account => \A e \in acked: e.type \in {"checkout", "created"} => ~Live(subs[e.sub].status)

Settled == account /\ events = acked /\ job.pc = "idle" /\ \A h \in Hooks: hook[h].pc = "idle"

\* subscriptions.py: repeated and unordered deliveries are harmless to a paying
\* user: once every event was answered, the subscription that runs is the one
\* the row tracks, and it is live (when no two ever ran together).
PaidKeepsPlan ==
    Settled /\ ~overlap => \A s \in Subs: Live(subs[s].status) => row.sub = s /\ Live(row.status)

\* A withdrawal window never moves off a subscription that still runs, unless to
\* one that was judged before: the row remembers the last one judged only.
KeepsContract ==
    row # None /\ row' # None /\ row'.contract # row.contract /\ row.contract # None
    /\ row'.contract \notin judged
    => ~Live(subs[row.contract].status)
ContractKept == [][KeepsContract]_vars

\* docs/BILLING.md: each subscription is judged once, on its first paid event; one
\* that was not made the contract then is never made it later.
JudgedOnce ==
    [][row # None /\ row' # None /\ row'.contract # row.contract
       => row'.contract \notin judged]_vars
=============================================================================
