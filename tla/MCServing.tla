----------------------------- MODULE MCServing ------------------------------
(***************************************************************************)
(* What users pay for and are given: refunds, subscriptions, renders, and  *)
(* imports.                                                                *)
(*                                                                         *)
(* The components share no state, so one run can check them side by side:  *)
(* focus says which of them runs, and v1, v2, ... hold its variables.  Pay *)
(* stands for RefundLedger, Pay!J for RenderJobs, Pay!B for Subscriptions. *)
(***************************************************************************)
EXTENDS Integers, TLC, TLAPS

CONSTANTS x1, x2, y1, y2, spare, None

VARIABLES focus, v1, v2, v3, v4, v5, v6, v7, v8, v9, v10, v11, v12

vars == <<focus, v1, v2, v3, v4, v5, v6, v7, v8, v9, v10, v11, v12>>
Symmetric == Permutations({x1, x2}) \cup Permutations({y1, y2})
-----------------------------------------------------------------------------
Pay == INSTANCE ServingProofs WITH
    Reqs <- {x1, x2}, Amounts <- {2}, Cards <- {1, 4}, MaxAttempt <- 1, MaxRenewals <- 1,
    MaxOps <- 2, PaysPending <- FALSE, NoReq <- None, NoRow <- spare, account <- v1,
    window <- v2, row <- v3, req <- v4, fresh <- v5, stripe <- v6, handed <- v7, asked <- v8,
    ops <- v9,
    Jobs <- {x1, x2}, Clients <- {y1, y2}, JobKinds <- {"video", "preview"}, VideoLimit <- 1,
    PreviewLimit <- 1, MaxCrashes <- 1, Mixed <- FALSE, NoJob <- None, job <- v1, geo <- v2,
    file <- v3, mails <- v4, queued <- v5, post <- v6, horse <- v7, marker <- v8, up <- v9,
    crashes <- v10,
    Subs <- {x1, x2}, Customers <- {"c"}, Hooks <- {y1, y2}, MaxEvents <- 5, MaxErrands <- 2,
    SameSecond <- FALSE, Old <- "old", owner <- v1, bill <- v2, subs <- v3, sessions <- v4,
    events <- v5, acked <- v6, clock <- v7, hook <- v8, task <- v9, overlap <- v10,
    judged <- v11, errands <- v12
Tra == INSTANCE Transfer WITH
    Reqs <- {"r1"}, Names <- {1}, FileNames <- {1}, RowIds <- {1, 2}, PublicIds <- {spare},
    Photos <- {"a"}, Uploads <- {"u"}, MaxTrips <- 2, Attempts <- 1, MaxTripIds <- 2,
    trips <- v1, lastTrip <- v2, lastRow <- v3, rows <- v4, disk <- v5, staging <- v6,
    guard <- v7, req <- v8, edit <- v9, drawn <- v10, lost <- v11, raced <- v12
Ids == INSTANCE Transfer WITH
    Reqs <- {x1, x2}, Names <- {1, 2}, FileNames <- {1}, RowIds <- {1, 2},
    PublicIds <- {spare}, Photos <- {}, Uploads <- {}, MaxTrips <- 2, Attempts <- 2,
    MaxTripIds <- 2, trips <- v1, lastTrip <- v2, lastRow <- v3, rows <- v4, disk <- v5,
    staging <- v6, guard <- v7, req <- v8, edit <- v9, drawn <- v10, lost <- v11, raced <- v12
-----------------------------------------------------------------------------
Init ==
    \/ /\ focus = "refunds" /\ Pay!Init
       /\ v10 = None /\ v11 = None /\ v12 = None
    \/ /\ focus = "subscriptions" /\ Pay!B!Init
    \/ /\ focus = "renders" /\ Pay!J!Init
       /\ v11 = None /\ v12 = None
    \/ /\ focus = "transfer" /\ Tra!Init
    \/ /\ focus = "ids" /\ Ids!Init

Next ==
    \/ focus = "refunds" /\ Pay!Next /\ UNCHANGED <<focus, v10, v11, v12>>
    \/ focus = "subscriptions" /\ Pay!B!Next /\ UNCHANGED focus
    \/ focus = "renders" /\ Pay!J!Next /\ UNCHANGED <<focus, v11, v12>>
    \/ focus = "transfer" /\ Tra!Next /\ UNCHANGED focus
    \/ focus = "ids" /\ Ids!Next /\ UNCHANGED focus

Spec == Init /\ [][Next]_vars
-----------------------------------------------------------------------------
\* - RefundLedger: issue_refund: however requests overlap, die, lose answers or
\*   outlive their lease, every create of one withdrawal carries the same
\*   provider key, so there is one credit note at most.
\* - RefundLedger: withdrawal.py: nothing is ever refunded twice: what the note
\*   sent and what the owner paid by hand never exceed the unused period.
\* - RefundLedger: A final row says what happened at Stripe: what it calls
\*   refunded is what the note sent, and with what it owes or the owner settled
\*   it adds up to the unused period (when that could be read).
\* - RefundLedger: An account that withdrew in time and is gone lost nothing: a
\*   row is left for the owner to settle, or the unused period was sent back by
\*   note or by hand (a note that bounces after that is in the log, its row
\*   being gone).
RefundedOnce ==
    focus = "refunds" =>
        /\ Pay!TypeOK
        /\ Pay!OneNote
        /\ Pay!NeverTwice
        /\ Pay!LedgerAgrees
        /\ Pay!NothingForfeited

\* - Subscriptions: cancel_live_subscription and _cancel_orphan: once an
\*   account is gone, a subscription of it keeps billing only while no delivery
\*   of its start was answered, that is while Stripe still repeats one.
\* - Subscriptions: subscriptions.py: repeated and unordered deliveries are
\*   harmless to a paying user: once every event was answered, the subscription
\*   that runs is the one the row tracks, and it is live (when no two ever ran
\*   together).
BillingFollows ==
    focus = "subscriptions" =>
        /\ Pay!B!TypeOK
        /\ Pay!B!NothingBillsDeleted
        /\ Pay!B!PaidKeepsPlan

\* - RenderJobs: job_runner.py: a job failed by a sweep never later reports
\*   done, and a race never sends a second email: one email per video, the one
\*   its row says, and none for a preview.
\* - RenderJobs: A finished video or preview has its file, whoever else was
\*   deleting files of that job; and no poster file is left that no row points
\*   at.
\* - RenderJobs: Two POSTs of one user never spend more than the plan has.
RendersSound ==
    focus = "renders" =>
        /\ Pay!J!TypeOK
        /\ Pay!J!OneOutcome
        /\ Pay!J!FilesMatchRow
        /\ Pay!J!QuotaKept

\* - Transfer: Every photo a row names is stored, or will be by the import that
\*   wrote the row; a crash before placement, or a replace meeting a photo edit
\*   of the same row, is the only way a name is left without its file.
\* - Transfer: A deep link addresses one memory: no import, copy or replace
\*   ever gives a public id another memory holds.
ImportsSound ==
    /\ focus = "transfer" => Tra!TypeOK /\ Tra!NamedIsStored
    /\ focus = "ids" => Ids!UniquePublicId

\* - Subscriptions: A withdrawal window never moves off a subscription that
\*   still runs.
\* - RenderJobs: entitlements.py: a lost preview that stopped costing the user
\*   does not cost again when a sweep fails it.
\* - Transfer: A row of an existing trip is changed or dropped by an import
\*   only when a replace of that trip was asked for; the memories the file
\*   still names keep their row and public id, and a companion's entry is never
\*   touched.
ServingSteps ==
    [][/\ focus = "subscriptions" => Pay!B!KeepsContract
       /\ focus = "renders" => Pay!J!KeepsFree
       /\ focus = "transfer" => Tra!KeepsRows]_vars
-----------------------------------------------------------------------------
(* Proofs: the part of this run that is proved for every value of the      *)
(* constants, from the invariant of its component.                         *)

\* The focus never changes, and what runs is a step of the component.
LEMMA Focused ==
    [Next]_vars => /\ focus' = focus
                   /\ focus = "refunds" => [Pay!Next]_(Pay!vars)
                   /\ focus = "renders" => [Pay!J!Next]_(Pay!J!vars)
                   /\ focus = "subscriptions" => [Pay!B!Next]_(Pay!B!vars)
<1>1. CASE UNCHANGED vars BY <1>1 DEF vars, Pay!vars, Pay!J!vars, Pay!B!vars
<1>2. CASE Next BY <1>2 DEF Next
<1> QED BY <1>1, <1>2

\* withdrawal.py: one note, no cent twice, a ledger that agrees and nothing lost
\* by a deletion, whatever the two null values are.
THEOREM RefundProved == ASSUME Pay!RefundAssumed PROVE Spec => []RefundedOnce
<1> DEFINE Inv == focus = "refunds" => Pay!IInv
<1>1. Init => Inv
  <2> SUFFICES ASSUME Init, focus = "refunds" PROVE Pay!IInv OBVIOUS
  <2>1. Pay!Init BY DEF Init
  <2> QED BY <2>1, Pay!InitIInv
<1>2. Inv /\ [Next]_vars => Inv'
  <2> SUFFICES ASSUME Inv, [Next]_vars, focus' = "refunds" PROVE Pay!IInv' OBVIOUS
  <2>1. Pay!IInv /\ [Pay!Next]_(Pay!vars) BY Focused
  <2> QED BY <2>1, Pay!StepIInv
<1>3. Inv => RefundedOnce
  <2> SUFFICES ASSUME Inv, focus = "refunds" PROVE RefundedOnce BY DEF RefundedOnce
  <2>1. Pay!LedgerSound BY Pay!IInvSound
  <2> QED BY <2>1 DEF RefundedOnce, Pay!LedgerSound
<1> QED BY <1>1, <1>2, <1>3, PTL DEF Spec

\* job_runner.py: one outcome and at most one email for each job, files that match the
\* rows and quotas that hold, whatever the null value is.
THEOREM RendersProved == ASSUME Pay!RenderAssumed PROVE Spec => []RendersSound
<1> DEFINE Inv == focus = "renders" => Pay!JobsIInv
<1>1. Init => Inv
  <2> SUFFICES ASSUME Init, focus = "renders" PROVE Pay!JobsIInv OBVIOUS
  <2>1. Pay!J!Init BY DEF Init
  <2> QED BY <2>1, Pay!JobsInit
<1>2. Inv /\ [Next]_vars => Inv'
  <2> SUFFICES ASSUME Inv, [Next]_vars, focus' = "renders" PROVE Pay!JobsIInv' OBVIOUS
  <2>1. Pay!JobsIInv /\ [Pay!J!Next]_(Pay!J!vars) BY Focused
  <2> QED BY <2>1, Pay!JobsStep
<1>3. Inv => RendersSound
  <2> SUFFICES ASSUME Inv, focus = "renders" PROVE RendersSound BY DEF RendersSound
  <2>1. Pay!RenderSound BY Pay!JobsPromise
  <2> QED BY <2>1 DEF RendersSound, Pay!RenderSound
<1> QED BY <1>1, <1>2, <1>3, PTL DEF Spec

\* subscriptions.py, withdrawal.py: nothing bills an account that is gone, and the plan
\* follows the last word of Stripe, whatever the null value is.
THEOREM BillingProved == ASSUME Pay!BillAssumed PROVE Spec => []BillingFollows
<1> DEFINE Inv == focus = "subscriptions" => Pay!BillIInv
<1>1. Init => Inv
  <2> SUFFICES ASSUME Init, focus = "subscriptions" PROVE Pay!BillIInv OBVIOUS
  <2>1. Pay!B!Init BY DEF Init
  <2> QED BY <2>1, Pay!BillInit
<1>2. Inv /\ [Next]_vars => Inv'
  <2> SUFFICES ASSUME Inv, [Next]_vars, focus' = "subscriptions" PROVE Pay!BillIInv' OBVIOUS
  <2>1. Pay!BillIInv /\ [Pay!B!Next]_(Pay!B!vars) BY Focused
  <2> QED BY <2>1, Pay!BillStep
<1>3. Inv => BillingFollows
  <2> SUFFICES ASSUME Inv, focus = "subscriptions" PROVE BillingFollows BY DEF BillingFollows
  <2>1. Pay!BillSound BY Pay!BillPromise
  <2> QED BY <2>1 DEF BillingFollows, Pay!BillSound
<1> QED BY <1>1, <1>2, <1>3, PTL DEF Spec
=============================================================================
