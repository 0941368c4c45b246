--------------------------- MODULE OrderLifecycle ---------------------------
(***************************************************************************)
(* The order state machine of src/app/services/transaction.py, dispute.py  *)
(* and dispute_escalation.py, with the timeout sweep and the payout        *)
(* intents ("outbox" rows) its transitions queue.                          *)
(*                                                                         *)
(* Every request runs in its own database session at READ COMMITTED.  It   *)
(* reads the order row without a lock and checks the status, then          *)
(* record_anchor_event takes the row lock and keeps it to the commit, but  *)
(* nothing reads the status again.  So a request is two steps here: Begin, *)
(* which checks the guards and keeps what was read, and the handler's      *)
(* commit, which writes from what was kept.  The sweep is split the same   *)
(* way, over all the orders its five queries returned.                     *)
(*                                                                         *)
(* Overlap says whether two of them may be open on one order at a time.    *)
(* The code lets them; with FALSE the module is the single-file execution  *)
(* that the tests and the guards assume.                                   *)
(***************************************************************************)
EXTENDS Naturals, FiniteSets

CONSTANTS
    Orders,         \* rows of the table transactions
    Workers,        \* sessions serving HTTP requests
    Sweepers,       \* sessions running run_timeout_jobs
    Serialized,     \* the orders whose listing is serialized
    Econfirm,       \* the orders whose custody provider is eConfirm
    SellerMay,      \* per order, what its dispute policy lets the seller do
    Production,     \* settings.environment = "production"
    SplitSupported, \* EscrowService._is_split_capability_supported()
    Overlap,        \* may two sessions be open on one order?
    MaxCases        \* bound: disputes rows of one order

ASSUME ConstantsAssumption ==
    /\ Serialized \subseteq Orders
    /\ Econfirm \subseteq Orders
    /\ SellerMay \in [Orders -> SUBSET {"refund", "ship"}]
    /\ Production \in BOOLEAN
    /\ SplitSupported \in BOOLEAN
    /\ Overlap \in BOOLEAN
    /\ MaxCases \in Nat \ {0}

VARIABLES
    status,   \* transactions.status
    aged,     \* the timestamp the status's timeout rule reads is past its window
    otp,      \* transactions.delivery_otp_hash is set
    funded,   \* escrows.funded_amount covers the order
    filed,    \* how many disputes rows the order has
    latest,   \* the row latest_dispute returns, 0 if there is none
    cases,    \* the disputes rows
    intents,  \* payout_attempts rows queued for the order's escrow
    job,      \* per worker, the request it is serving
    due       \* per sweeper, what its queries returned

data == <<status, aged, otp, funded, filed, latest, cases, intents>>
vars == <<status, aged, otp, funded, filed, latest, cases, intents,
          job, due>>

-----------------------------------------------------------------------------
\* returned_to_seller is left out: the code passes through it inside a commit.
Timed == {"locked", "at_door_pending_inspection", "hold_24h",
          "disputed_functional", "return_in_transit"}

Released == {"released", "resolved_release"}
Refunded == {"refunded_buyer", "resolved_refund"}
Settled  == Released \cup Refunded \cup {"resolved_split"}

OpenCase == {"disputed_functional", "return_in_transit", "return_received",
             "awaiting_buyer_reconfirmation"}

Statuses == Timed \cup OpenCase \cup Settled \cup
            {"awaiting_payment", "out_for_delivery", "escalated_admin_review"}

OpenDispute == {"open", "return_received", "awaiting_buyer_reconfirmation"}

DisputeStatuses == OpenDispute \cup
    {"none", "escalated_admin_review", "resolved_refund", "resolved_release",
     "resolved_split", "canceled"}

\* The JSON column disputes.evidence, always written back as a whole.
Evidence == [rejections: Nat, buyer: BOOLEAN, seller: BOOLEAN]
Case     == [status: DisputeStatuses, evidence: Evidence]
CaseId   == 1..MaxCases
NoCase   == [status |-> "none",
             evidence |-> [rejections |-> 0, buyer |-> FALSE, seller |-> FALSE]]

\* Outbox purposes by what they pay; the number is the dispute an admin
\* purpose carries, 0 for the purposes that carry the order.
FullRelease  == {"tx-release", "reconfirm-release", "hold-release",
                 "dispute-timeout-release", "admin-release"}
FullRefund   == {"tx-refund", "seller-refund", "timeout-refund",
                 "timeout-at-door-refund", "admin-refund"}
SplitPart    == {"admin-split-release", "admin-split-refund"}
Purposes     == FullRelease \cup FullRefund \cup SplitPart
Intent       == [purpose: Purposes, case: 0..MaxCases]
Pay(p, i)    == [purpose |-> p, case |-> i]

Ops == {"payment_callback", "dispatch", "arrival", "otp_give", "otp_withhold",
        "report", "report_other", "sent_back", "received", "seller_refund", "seller_ship",
        "reconfirm_accept", "reconfirm_reject", "escalate", "admin_refund", "admin_release", "admin_split",
        "confirm_buyer", "confirm_seller"}

Idle    == [op |-> "idle"]
Request == [op: Ops, order: Orders, case: 0..MaxCases, seen: Case,
            filed: 0..MaxCases, otp: BOOLEAN]

\* What a sweep keeps of an order: the status its query matched, the code it saw.
Found  == [from: Timed \cup {"none"}, otp: BOOLEAN]
NotDue == [from |-> "none", otp |-> FALSE]

BUYER_RECONFIRMATION_RETRY_LIMIT == 1

TypeOK ==
    /\ status \in [Orders -> Statuses]
    /\ aged \in [Orders -> BOOLEAN]
    /\ otp \in [Orders -> BOOLEAN]
    /\ funded \in [Orders -> BOOLEAN]
    /\ filed \in [Orders -> 0..MaxCases]
    /\ latest \in [Orders -> 0..MaxCases]
    /\ cases \in [Orders -> [CaseId -> Case]]
    /\ intents \in [Orders -> SUBSET Intent]
    /\ job \in [Workers -> Request \cup {Idle}]
    /\ due \in [Sweepers -> [Orders -> Found]]

NothingDue == [o \in Orders |-> NotDue]

Init ==
    /\ status = [o \in Orders |-> "awaiting_payment"]
    /\ aged = [o \in Orders |-> FALSE]
    /\ otp = [o \in Orders |-> FALSE]
    /\ funded = [o \in Orders |-> FALSE]
    /\ filed = [o \in Orders |-> 0]
    /\ latest = [o \in Orders |-> 0]
    /\ cases = [o \in Orders |-> [i \in CaseId |-> NoCase]]
    /\ intents = [o \in Orders |-> {}]
    /\ job = [w \in Workers |-> Idle]
    /\ due = [s \in Sweepers |-> NothingDue]

-----------------------------------------------------------------------------
(***************************************************************************)
(* The first half of a request: db.get, the status check, the early        *)
(* returns.  What the handler keeps of the rows it read goes into job.     *)
(***************************************************************************)
Holds(w, o)  == job[w] # Idle /\ job[w].order = o
Sweeps(s, o) == due[s][o].from # "none"
Busy(o)      == (\E w \in Workers : Holds(w, o)) \/ (\E s \in Sweepers : Sweeps(s, o))

\* i is the disputes row read before the lock, 0 if the handler reads none.
Start(w, o, op, i) ==
    /\ job[w] = Idle
    /\ Overlap \/ ~Busy(o)
    /\ job' = [job EXCEPT ![w] =
                 [op |-> op, order |-> o, case |-> i,
                  seen |-> IF i = 0 THEN NoCase ELSE cases[o][i],
                  filed |-> IF op \in {"report", "report_other"}
                            THEN filed[o] ELSE 0,
                  otp |-> op = "otp_withhold" /\ otp[o]]]
    /\ UNCHANGED <<data, due>>

PaymentCallbackGuard(o) == o \notin Econfirm /\ status[o] = "awaiting_payment"
DispatchGuard(o)        == status[o] = "locked"
ArrivalGuard(o)         == status[o] = "out_for_delivery"
OtpGuard(o)             == status[o] = "at_door_pending_inspection"
\* Slip: a report is still taken after the release.
LateReportGuard(o)      == status[o] \in {"hold_24h", "released"} /\ o \in Serialized
ReportGuard(o)          == status[o] = "hold_24h" /\ o \in Serialized
SentBackGuard(o)        == status[o] = "disputed_functional"
ReceivedGuard(o)        == status[o] = "return_in_transit"
SellerActionGuard(o, a) == status[o] = "return_received" /\ a \in SellerMay[o]
ReconfirmGuard(o)       == status[o] = "awaiting_buyer_reconfirmation"
EscalateGuard(o)        == status[o] \in OpenCase /\ latest[o] # 0
AdminGuard(o, i)        == /\ cases[o][i].status = "escalated_admin_review"
                           /\ status[o] = "escalated_admin_review"
ConfirmGuard(o)         == /\ status[o] \in {"resolved_release", "resolved_refund",
                                             "resolved_split"}
                           /\ latest[o] # 0

Begin(w, o) ==
    \/ PaymentCallbackGuard(o) /\ Start(w, o, "payment_callback", 0)
    \/ DispatchGuard(o) /\ Start(w, o, "dispatch", 0)
    \/ ArrivalGuard(o) /\ Start(w, o, "arrival", 0)
    \/ OtpGuard(o) /\ otp[o] /\ Start(w, o, "otp_give", 0)
    \/ OtpGuard(o) /\ Start(w, o, "otp_withhold", 0)
    \/ ReportGuard(o) /\ \E op \in {"report", "report_other"} : Start(w, o, op, 0)
    \/ SentBackGuard(o) /\ Start(w, o, "sent_back", 0)
    \/ ReceivedGuard(o) /\ Start(w, o, "received", 0)
    \/ SellerActionGuard(o, "refund") /\ Start(w, o, "seller_refund", 0)
    \/ SellerActionGuard(o, "ship") /\ Start(w, o, "seller_ship", 0)
    \/ ReconfirmGuard(o) /\ \E op \in {"reconfirm_accept", "reconfirm_reject"} :
                               Start(w, o, op, latest[o])
    \/ EscalateGuard(o) /\ Start(w, o, "escalate", latest[o])
    \/ \E i \in CaseId, op \in {"admin_refund", "admin_release", "admin_split"} :
          AdminGuard(o, i) /\ Start(w, o, op, i)
    \/ ConfirmGuard(o) /\ \E op \in {"confirm_buyer", "confirm_seller"} :
                             Start(w, o, op, latest[o])

\* The session ends without a commit: an exception (no routable payout rail,
\* a duplicate outbox row, a split that is not supported), a lost connection
\* or a crash of the process.
Abort(w) ==
    /\ job[w] # Idle
    /\ job' = [job EXCEPT ![w] = Idle]
    /\ UNCHANGED <<data, due>>

-----------------------------------------------------------------------------
(***************************************************************************)
(* The second half: the writes, in one commit.                             *)
(***************************************************************************)
Serving(w, op) == job[w] # Idle /\ job[w].op = op
Commit(w)      == job' = [job EXCEPT ![w] = Idle] /\ UNCHANGED due

\* transition_transaction; the status's own timestamp restarts its window.
Enter(o, s) ==
    /\ status' = [status EXCEPT ![o] = s]
    /\ aged' = [aged EXCEPT ![o] = FALSE]

\* A column is written only if it differs from what this session loaded: a
\* code the session did not see is not cleared.
ClearOtp(o, seen) == otp' = [otp EXCEPT ![o] = @ /\ ~seen]

\* EscrowService._enqueue_payout_intent returns an existing row of the purpose.
Queue(o, is) == intents' = [intents EXCEPT ![o] = @ \cup is]

Written(seen, current, new) == IF new = seen THEN current ELSE new

\* Row i of the disputes; a handler that found no dispute writes none.
SetCase(o, i, st, ev) ==
    IF i = 0 THEN UNCHANGED cases
             ELSE cases' = [cases EXCEPT ![o][i] = [status |-> st, evidence |-> ev]]

\* The dispute a request read before the lock, written back with a new status.
WriteBack(w, st, ev) ==
    LET r == job[w] IN
    SetCase(r.order, r.case, Written(r.seen.status, cases[r.order][r.case].status, st), ev)

\* The latest dispute, read after the lock.
RuleCase(o, st) ==
    SetCase(o, latest[o], st, cases[o][latest[o]].evidence)

\* Slip: the callback locks the order and forgets to book its funding.
PaymentCallbackUnbooked(w) ==
    /\ Serving(w, "payment_callback")
    /\ Enter(job[w].order, "locked")
    /\ UNCHANGED <<otp, funded, filed, latest, cases, intents>>
    /\ Commit(w)

PaymentCallback(w) ==
    LET o == job[w].order IN
    /\ Serving(w, "payment_callback")
    /\ Enter(o, "locked")
    /\ funded' = [funded EXCEPT ![o] = @ \/ ~Production]
    /\ UNCHANGED <<otp, filed, latest, cases, intents>>
    /\ Commit(w)

\* The eConfirm poller's commit: it reads the status after the row lock.
CustodyFunding(o) ==
    /\ o \in Econfirm
    /\ ~funded[o]
    /\ funded' = [funded EXCEPT ![o] = TRUE]
    /\ IF status[o] = "awaiting_payment" THEN Enter(o, "locked")
                                         ELSE UNCHANGED <<status, aged>>
    /\ UNCHANGED <<otp, filed, latest, cases, intents, job, due>>

Dispatch(w) ==
    /\ Serving(w, "dispatch")
    /\ Enter(job[w].order, "out_for_delivery")
    /\ UNCHANGED <<otp, funded, filed, latest, cases, intents>>
    /\ Commit(w)

Arrival(w) ==
    LET o == job[w].order IN
    /\ Serving(w, "arrival")
    /\ Enter(o, "at_door_pending_inspection")
    /\ otp' = [otp EXCEPT ![o] = TRUE]
    /\ UNCHANGED <<funded, filed, latest, cases, intents>>
    /\ Commit(w)

OtpGive(w) ==
    LET o == job[w].order IN
    /\ Serving(w, "otp_give")
    /\ IF o \in Serialized
       THEN Enter(o, "hold_24h") /\ UNCHANGED intents
       ELSE Enter(o, "released") /\ Queue(o, {Pay("tx-release", 0)})
    /\ ClearOtp(o, TRUE)
    /\ UNCHANGED <<funded, filed, latest, cases>>
    /\ Commit(w)

\* Slip: the refund is queued by a later commit that never comes.
OtpWithholdUnqueued(w) ==
    /\ Serving(w, "otp_withhold")
    /\ Enter(job[w].order, "refunded_buyer")
    /\ ClearOtp(job[w].order, job[w].otp)
    /\ UNCHANGED <<funded, filed, latest, cases, intents>>
    /\ Commit(w)

\* return_in_transit and returned_to_seller are recorded in the same commit.
OtpWithhold(w) ==
    LET o == job[w].order IN
    /\ Serving(w, "otp_withhold")
    /\ Enter(o, "refunded_buyer")
    /\ ClearOtp(o, job[w].otp)
    /\ Queue(o, {Pay("tx-refund", 0)})
    /\ UNCHANGED <<funded, filed, latest, cases>>
    /\ Commit(w)

\* Slip: the report moves the order and loses the dispute.
ReportWithoutDispute(w) ==
    /\ Serving(w, "report") \/ Serving(w, "report_other")
    /\ Enter(job[w].order, "disputed_functional")
    /\ UNCHANGED <<otp, funded, filed, latest, cases, intents>>
    /\ Commit(w)

\* latest_dispute orders by created_at, the start of the inserting session: if
\* another row was inserted since this one started, either may be the latest.
ReportFunctionalIssue(w) ==
    LET o == job[w].order
        i == filed[o] + 1
    IN
    /\ Serving(w, "report") \/ Serving(w, "report_other")
    /\ i \in CaseId
    /\ Enter(o, "disputed_functional")
    /\ filed' = [filed EXCEPT ![o] = i]
    /\ cases' = [cases EXCEPT ![o][i] =
                   [NoCase EXCEPT !.status = IF job[w].op = "report" THEN "open"
                                             ELSE "escalated_admin_review"]]
    /\ \E l \in {i} \cup (IF job[w].filed < filed[o] THEN {latest[o]} ELSE {}) :
          latest' = [latest EXCEPT ![o] = l]
    /\ UNCHANGED <<otp, funded, intents>>
    /\ Commit(w)

BuyerSentBack(w) ==
    /\ Serving(w, "sent_back")
    /\ Enter(job[w].order, "return_in_transit")
    /\ UNCHANGED <<otp, funded, filed, latest, cases, intents>>
    /\ Commit(w)

SellerReceived(w) ==
    /\ Serving(w, "received")
    /\ Enter(job[w].order, "return_received")
    /\ UNCHANGED <<otp, funded, filed, latest, cases, intents>>
    /\ Commit(w)

\* The dispute is read after the lock, so its current row is written.
SellerRefund(w) ==
    LET o == job[w].order IN
    /\ Serving(w, "seller_refund")
    /\ Enter(o, "refunded_buyer")
    /\ Queue(o, {Pay("seller-refund", 0)})
    /\ RuleCase(o, "resolved_refund")
    /\ UNCHANGED <<otp, funded, filed, latest>>
    /\ Commit(w)

SellerShip(w) ==
    LET o == job[w].order IN
    /\ Serving(w, "seller_ship")
    /\ Enter(o, "awaiting_buyer_reconfirmation")
    /\ RuleCase(o, "awaiting_buyer_reconfirmation")
    /\ UNCHANGED <<otp, funded, filed, latest, intents>>
    /\ Commit(w)

\* The evidence is written back only if the buyer left notes.
ReconfirmAccept(w) ==
    LET o == job[w].order IN
    /\ Serving(w, "reconfirm_accept")
    /\ Enter(o, "resolved_release")
    /\ Queue(o, {Pay("reconfirm-release", 0)})
    /\ \E ev \in {job[w].seen.evidence, cases[o][job[w].case].evidence} :
          WriteBack(w, "resolved_release", ev)
    /\ UNCHANGED <<otp, funded, filed, latest>>
    /\ Commit(w)

\* The first rejection gives the seller another try, the next one escalates.
ReconfirmReject(w) ==
    LET seen == job[w].seen.evidence
        next == IF seen.rejections < BUYER_RECONFIRMATION_RETRY_LIMIT
                THEN "return_received" ELSE "escalated_admin_review"
    IN
    /\ Serving(w, "reconfirm_reject")
    /\ Enter(job[w].order, next)
    /\ WriteBack(w, next, [seen EXCEPT !.rejections = @ + 1])
    /\ UNCHANGED <<otp, funded, filed, latest, intents>>
    /\ Commit(w)

EscalateDispute(w) ==
    /\ Serving(w, "escalate")
    /\ Enter(job[w].order, "escalated_admin_review")
    /\ WriteBack(w, "escalated_admin_review", job[w].seen.evidence)
    /\ UNCHANGED <<otp, funded, filed, latest, intents>>
    /\ Commit(w)

\* force_resolve_dispute_case leaves the evidence alone.
AdminDecide(w, op, s, purposes) ==
    LET o == job[w].order
        i == job[w].case
    IN
    /\ Serving(w, op)
    /\ Enter(o, s)
    /\ Queue(o, {Pay(p, i) : p \in purposes})
    /\ WriteBack(w, s, cases[o][i].evidence)
    /\ UNCHANGED <<otp, funded, filed, latest>>
    /\ Commit(w)

AdminRefund(w)  == AdminDecide(w, "admin_refund", "resolved_refund", {"admin-refund"})
AdminRelease(w) == AdminDecide(w, "admin_release", "resolved_release", {"admin-release"})
AdminSplit(w)   == SplitSupported /\ AdminDecide(w, "admin_split", "resolved_split", SplitPart)

\* Only the evidence changes; resolved_at was set by the resolution itself.
ConfirmResolved(w, op, confirmed) ==
    LET r == job[w] IN
    /\ Serving(w, op)
    /\ SetCase(r.order, r.case, cases[r.order][r.case].status,
               Written(r.seen.evidence, cases[r.order][r.case].evidence, confirmed))
    /\ UNCHANGED <<status, aged, otp, funded, filed, latest, intents>>
    /\ Commit(w)

ConfirmResolvedBuyer(w)  ==
    ConfirmResolved(w, "confirm_buyer", [job[w].seen.evidence EXCEPT !.buyer = TRUE])
ConfirmResolvedSeller(w) ==
    ConfirmResolved(w, "confirm_seller", [job[w].seen.evidence EXCEPT !.seller = TRUE])

-----------------------------------------------------------------------------
(***************************************************************************)
(* run_timeout_jobs.  A ruling is what one of its five loops does to an    *)
(* order its query returned.                                               *)
(***************************************************************************)
WindowElapses(o) ==
    /\ status[o] \in Timed
    /\ ~aged[o]
    /\ aged' = [aged EXCEPT ![o] = TRUE]
    /\ UNCHANGED <<status, otp, funded, filed, latest, cases, intents, job, due>>

\* Slips: the release is not queued; the dispute is left where it was.
HoldAutoReleaseUnqueued ==
    [to |-> "released", queue |-> {}, clearsOtp |-> TRUE, case |-> "none"]
ReceiptTimeoutOrderOnly ==
    [to |-> "escalated_admin_review", queue |-> {},
     clearsOtp |-> FALSE, case |-> "none"]

AtDoorTimeout ==
    [to |-> "refunded_buyer", queue |-> {"timeout-at-door-refund"},
     clearsOtp |-> TRUE, case |-> "none"]
NoDispatchTimeout ==
    [to |-> "refunded_buyer", queue |-> {"timeout-refund"},
     clearsOtp |-> TRUE, case |-> "none"]
HoldAutoRelease ==
    [to |-> "released", queue |-> {"hold-release"},
     clearsOtp |-> TRUE, case |-> "none"]
SentBackTimeout ==
    [to |-> "released", queue |-> {"dispute-timeout-release"},
     clearsOtp |-> FALSE, case |-> "canceled"]
ReceiptTimeout ==
    [to |-> "escalated_admin_review", queue |-> {},
     clearsOtp |-> FALSE, case |-> "escalated_admin_review"]

Ruling == [at_door_pending_inspection |-> AtDoorTimeout,
           locked |-> NoDispatchTimeout,
           hold_24h |-> HoldAutoRelease,
           disputed_functional |-> SentBackTimeout,
           return_in_transit |-> ReceiptTimeout]

RulingFor(s, o) == Ruling[due[s][o].from]

SweepLoad(s) ==
    LET found == {o \in Orders : status[o] \in Timed /\ aged[o]} IN
    /\ due[s] = NothingDue
    /\ found # {}
    /\ Overlap \/ \A o \in found : ~Busy(o)
    /\ due' = [due EXCEPT ![s] =
                 [o \in Orders |-> IF o \in found THEN [from |-> status[o], otp |-> otp[o]]
                                                 ELSE NotDue]]
    /\ UNCHANGED <<data, job>>

\* Slip: no ruling closes the dispute, what return_case_repair.py cleans up after.
RuledCasesUntouched(s, o) == cases[o]

\* A dispute ruling touches only a latest dispute that is still open.
RuledCases(s, o) ==
    LET st == RulingFor(s, o).case IN
    [i \in CaseId |->
        IF st # "none" /\ i = latest[o] /\ cases[o][i].status \in OpenDispute
        THEN [cases[o][i] EXCEPT !.status = st]
        ELSE cases[o][i]]

\* Slip: the run ends without its commit.
SweepCommitLost(s) ==
    /\ due[s] # NothingDue
    /\ due' = [due EXCEPT ![s] = NothingDue]
    /\ UNCHANGED <<data, job>>

\* One commit for every order of the run.
SweepCommit(s) ==
    /\ due[s] # NothingDue
    /\ status' = [o \in Orders |-> IF Sweeps(s, o) THEN RulingFor(s, o).to ELSE status[o]]
    /\ aged' = [o \in Orders |-> aged[o] /\ ~Sweeps(s, o)]
    /\ otp' = [o \in Orders |->
                 otp[o] /\ ~(Sweeps(s, o) /\ RulingFor(s, o).clearsOtp /\ due[s][o].otp)]
    /\ cases' = [o \in Orders |-> IF Sweeps(s, o) THEN RuledCases(s, o) ELSE cases[o]]
    /\ intents' = [o \in Orders |->
                     IF Sweeps(s, o)
                     THEN intents[o] \cup {Pay(p, 0) : p \in RulingFor(s, o).queue}
                     ELSE intents[o]]
    /\ due' = [due EXCEPT ![s] = NothingDue]
    /\ UNCHANGED <<funded, filed, latest, job>>

\* An order that raises, a deadlock or a crash rolls the whole run back.
SweepAbort(s) ==
    /\ due[s] # NothingDue
    /\ due' = [due EXCEPT ![s] = NothingDue]
    /\ UNCHANGED <<data, job>>

-----------------------------------------------------------------------------
Finish(w) ==
    \/ PaymentCallback(w) \/ Dispatch(w) \/ Arrival(w)
    \/ OtpGive(w) \/ OtpWithhold(w)
    \/ ReportFunctionalIssue(w) \/ BuyerSentBack(w) \/ SellerReceived(w)
    \/ SellerRefund(w) \/ SellerShip(w)
    \/ ReconfirmAccept(w) \/ ReconfirmReject(w) \/ EscalateDispute(w)
    \/ AdminRefund(w) \/ AdminRelease(w) \/ AdminSplit(w)
    \/ ConfirmResolvedBuyer(w) \/ ConfirmResolvedSeller(w)

Next ==
    \/ \E w \in Workers, o \in Orders : Begin(w, o)
    \/ \E w \in Workers : Finish(w) \/ Abort(w)
    \/ \E o \in Orders : CustodyFunding(o) \/ WindowElapses(o)
    \/ \E s \in Sweepers : SweepLoad(s) \/ SweepCommit(s) \/ SweepAbort(s)

Spec == Init /\ [][Next]_vars

\* Nothing in src/app schedules run_timeout_jobs: an operator's cron does.  It
\* is assumed to keep running, and its runs not to roll back for ever.
SweepFairness ==
    /\ \A o \in Orders : WF_vars(WindowElapses(o))
    /\ \A s \in Sweepers : WF_vars(SweepLoad(s)) /\ SF_vars(SweepCommit(s))

SweptSpec == Spec /\ SweepFairness

-----------------------------------------------------------------------------
(***************************************************************************)
(* Properties.                                                             *)
(***************************************************************************)
PaysSeller(o) == \E p \in FullRelease, i \in 0..MaxCases : intents[o] = {Pay(p, i)}
PaysBuyer(o)  == \E p \in FullRefund, i \in 0..MaxCases : intents[o] = {Pay(p, i)}
PaysBoth(o)   == \E i \in 0..MaxCases : intents[o] = {Pay(p, i) : p \in SplitPart}

\* The status a client sees and the payouts queued for the executor tell the
\* same story: one full release for a released order, one full refund for a
\* refunded one, one pair for a split, nothing while the order is open.  Eleven
\* handlers and sweep rules set the status and queue the payout separately.
SettlementAgrees ==
    \A o \in Orders :
        /\ status[o] \in Released => PaysSeller(o)
        /\ status[o] \in Refunded => PaysBuyer(o)
        /\ status[o] = "resolved_split" => PaysBoth(o)
        /\ status[o] \notin Settled => intents[o] = {}

\* The money of an order as EscrowPromise sees it.
MoneyOf(o) ==
    IF PaysSeller(o) THEN "to_seller"
    ELSE IF PaysBuyer(o) THEN "to_buyer"
    ELSE IF PaysBoth(o) THEN "shared"
    ELSE IF intents[o] # {} THEN "overpaid"
    ELSE IF status[o] = "awaiting_payment" THEN "unpaid" ELSE "held"

Promise == INSTANCE EscrowPromise WITH money <- [o \in Orders |-> MoneyOf(o)]

\* The life of an order keeps the promise: its money is held until it leaves
\* escrow in one direction, and it never leaves twice.
KeepsPromise == Promise!Spec

LatestCase(o) == cases[o][latest[o]]

\* No order is stuck the way return_case_repair.py looks for: an escalated or
\* settled order whose dispute is still open, which nobody can move on.
NoStrandedReturnCase ==
    \A o \in Orders :
        status[o] \in Settled \cup {"escalated_admin_review"} /\ latest[o] # 0
            => LatestCase(o).status \notin OpenDispute

\* What the parties do not settle goes to an admin who can decide it: after the
\* second rejection a case is never back with the seller, and the latest dispute
\* of an order under review is escalated too, which force_resolve_dispute_case
\* asks for.
EscalationDecidable ==
    \A o \in Orders :
        /\ status[o] = "escalated_admin_review" =>
             latest[o] # 0 /\ LatestCase(o).status = "escalated_admin_review"
        /\ \A i \in CaseId :
             cases[o][i].evidence.rejections > BUYER_RECONFIRMATION_RETRY_LIMIT =>
               status[o] \in {"escalated_admin_review", "resolved_refund",
                             "resolved_release", "resolved_split"}

-----------------------------------------------------------------------------
\* What overlapping sessions leave true.  An order is never shown as settled
\* without the payout that settles it: the intents commit with the status.
SettlementIsQueued ==
    \A o \in Orders :
        /\ status[o] \in Released =>
             \E p \in FullRelease, i \in 0..MaxCases : Pay(p, i) \in intents[o]
        /\ status[o] \in Refunded =>
             \E p \in FullRefund, i \in 0..MaxCases : Pay(p, i) \in intents[o]
        /\ status[o] = "resolved_split" =>
             \E i \in 0..MaxCases : {Pay(p, i) : p \in SplitPart} \subseteq intents[o]

\* No payout is queued before the buyer's money is booked in the escrow; in
\* production a simulated order is never booked by a callback.
PayoutsAreFunded ==
    \A o \in Orders :
        intents[o] # {} => funded[o] \/ (Production /\ o \notin Econfirm)

\* A return case always has a dispute to escalate, decide or confirm.
OpenCaseHasDispute ==
    \A o \in Orders :
        status[o] \in OpenCase \cup {"escalated_admin_review", "resolved_release",
                                    "resolved_refund", "resolved_split"}
            => latest[o] # 0

\* No order waits for ever on a buyer or a seller whose window the code bounds.
TimeoutsFire ==
    \A o \in Orders : \A st \in Timed : status[o] = st ~> status[o] # st

-----------------------------------------------------------------------------
(***************************************************************************)
(* What README.md says and the code does not do.                           *)
(***************************************************************************)
\* README.md:409: "Released transactions are terminal for OTP actions and
\* cannot be reopened through withhold flow."
ReleasedNotReopened ==
    [][\A o \in Orders : status[o] = "released" => status'[o] # "refunded_buyer"]_vars
=============================================================================
