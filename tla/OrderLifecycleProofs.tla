------------------------ MODULE OrderLifecycleProofs ------------------------
(***************************************************************************)
(* What holds of OrderLifecycle for every set of orders and sessions.      *)
(***************************************************************************)
EXTENDS OrderLifecycle, TLAPS

USE DEF data

\* The statuses, operations and purposes the actions name are ones TypeOK knows.
LEMMA StatusNames ==
    /\ Timed \subseteq Statuses
    /\ Settled \subseteq Statuses
    /\ OpenCase \subseteq Statuses
    /\ "awaiting_payment" \in Statuses
    /\ "out_for_delivery" \in Statuses
    /\ "escalated_admin_review" \in Statuses
BY DEF Statuses

LEMMA NoCaseType == NoCase \in Case
BY DEF NoCase, Case, Evidence, DisputeStatuses

LEMMA PayType ==
    ASSUME NEW p \in Purposes, NEW i \in 0..MaxCases
    PROVE  Pay(p, i) \in Intent
BY DEF Pay, Intent

\* What a sweep rule may do to an order.
LEMMA RulingType ==
    ASSUME NEW st \in Timed
    PROVE  /\ Ruling[st].to \in {"refunded_buyer", "released", "escalated_admin_review"}
           /\ Ruling[st].queue \subseteq FullRelease \cup FullRefund
           /\ Ruling[st].clearsOtp \in BOOLEAN
           /\ Ruling[st].case \in DisputeStatuses
           /\ Ruling[st].to = "refunded_buyer" =>
                \E p \in FullRefund : Ruling[st].queue = {p}
           /\ Ruling[st].to = "released" =>
                \E p \in FullRelease : Ruling[st].queue = {p}
           /\ Ruling[st].to = "escalated_admin_review" => Ruling[st].queue = {}
<1>1. CASE st = "locked"
  BY <1>1 DEF Ruling, NoDispatchTimeout, FullRefund, FullRelease, DisputeStatuses
<1>2. CASE st = "at_door_pending_inspection"
  BY <1>2 DEF Ruling, AtDoorTimeout, FullRefund, FullRelease, DisputeStatuses
<1>3. CASE st = "hold_24h"
  BY <1>3 DEF Ruling, HoldAutoRelease, FullRefund, FullRelease, DisputeStatuses
<1>4. CASE st = "disputed_functional"
  BY <1>4 DEF Ruling, SentBackTimeout, FullRefund, FullRelease, DisputeStatuses
<1>5. CASE st = "return_in_transit"
  BY <1>5 DEF Ruling, ReceiptTimeout, FullRefund, FullRelease, DisputeStatuses
<1> QED BY <1>1, <1>2, <1>3, <1>4, <1>5 DEF Timed

-----------------------------------------------------------------------------
LEMMA StartType ==
    ASSUME TypeOK, NEW w \in Workers, NEW o \in Orders, NEW op \in Ops,
           NEW i \in 0..MaxCases, Start(w, o, op, i)
    PROVE  TypeOK'
<1> DEFINE r == [op |-> op, order |-> o, case |-> i,
                 seen |-> IF i = 0 THEN NoCase ELSE cases[o][i],
                 filed |-> IF op \in {"report", "report_other"} THEN filed[o] ELSE 0,
                 otp |-> op = "otp_withhold" /\ otp[o]]
<1>1. i # 0 => cases[o][i] \in Case
  BY ConstantsAssumption DEF TypeOK, CaseId
<1>2. filed[o] \in 0..MaxCases /\ 0 \in 0..MaxCases
  BY ConstantsAssumption DEF TypeOK
<1>3. r \in Request
  BY <1>1, <1>2, NoCaseType DEF Request
<1>4. job' = [job EXCEPT ![w] = r]
  BY DEF Start
<1>5. job' \in [Workers -> Request \cup {Idle}]
  BY <1>3, <1>4 DEF TypeOK
<1> QED BY <1>5 DEF TypeOK, Start

ConfirmOps == {"confirm_buyer", "confirm_seller"}

\* What the guards of a request leave true of the order it starts on.
ReadFresh(op, o) ==
    /\ op \notin ConfirmOps => status[o] \notin Settled
    /\ op # "payment_callback" => status[o] # "awaiting_payment"
    /\ op = "payment_callback" => o \notin Econfirm

LEMMA BeginStarts ==
    ASSUME TypeOK, NEW w \in Workers, NEW o \in Orders, Begin(w, o)
    PROVE  \E op \in Ops, i \in 0..MaxCases : Start(w, o, op, i) /\ ReadFresh(op, o)
<1> DEFINE Begun(op, i) == Start(w, o, op, i) /\ ReadFresh(op, o)
<1>1. latest[o] \in 0..MaxCases /\ 0 \in 0..MaxCases /\ CaseId \subseteq 0..MaxCases
  BY ConstantsAssumption DEF TypeOK, CaseId
<1>2. \A st \in Timed \cup OpenCase \cup {"awaiting_payment", "out_for_delivery",
                                          "escalated_admin_review"} : st \notin Settled
  BY DEF Timed, OpenCase, Settled, Released, Refunded
<1>3. "awaiting_payment" \notin Timed \cup OpenCase \cup Settled
  BY DEF Timed, OpenCase, Settled, Released, Refunded
<1>4. ASSUME NEW op, NEW i, Start(w, o, op, i),
             status[o] \notin Settled \cup {"awaiting_payment"}, op # "payment_callback"
      PROVE  Begun(op, i)
  BY <1>4 DEF ReadFresh
<1>5. ASSUME PaymentCallbackGuard(o), Start(w, o, "payment_callback", 0)
      PROVE  Begun("payment_callback", 0)
  BY <1>5, <1>2 DEF ReadFresh, PaymentCallbackGuard
<1>6. ASSUME NEW op \in ConfirmOps, ConfirmGuard(o), Start(w, o, op, latest[o])
      PROVE  Begun(op, latest[o])
  BY <1>6 DEF ReadFresh, ConfirmOps, ConfirmGuard
<1> HIDE DEF Begun
<1>7. \/ status[o] \notin Settled \cup {"awaiting_payment"}
      \/ PaymentCallbackGuard(o) \/ ConfirmGuard(o)
  BY <1>2, <1>3 DEF Begin, DispatchGuard, ArrivalGuard, OtpGuard, ReportGuard,
     SentBackGuard, ReceivedGuard, SellerActionGuard, ReconfirmGuard, EscalateGuard,
     AdminGuard, Timed, OpenCase
<1>8. \/ \E op \in Ops \ {"payment_callback"}, i \in 0..MaxCases : Start(w, o, op, i)
      \/ PaymentCallbackGuard(o) /\ Start(w, o, "payment_callback", 0)
  BY <1>1 DEF Begin, Ops
<1>9. CASE status[o] \notin Settled \cup {"awaiting_payment"}
  BY <1>1, <1>4, <1>5, <1>8, <1>9 DEF Begun, Ops
<1>10. CASE PaymentCallbackGuard(o)
  <2>1. status[o] = "awaiting_payment"
    BY <1>10 DEF PaymentCallbackGuard
  <2>2. Start(w, o, "payment_callback", 0)
    BY <2>1, <1>3 DEF Begin, DispatchGuard, ArrivalGuard, OtpGuard, ReportGuard,
       SentBackGuard, ReceivedGuard, SellerActionGuard, ReconfirmGuard, EscalateGuard,
       AdminGuard, ConfirmGuard, OpenCase
  <2> QED BY <2>2, <1>1, <1>5, <1>10 DEF Begun, Ops
<1>11. CASE ConfirmGuard(o)
  <2>1. status[o] \in {"resolved_release", "resolved_refund", "resolved_split"}
    BY <1>11 DEF ConfirmGuard
  <2>2. \E op \in ConfirmOps : Start(w, o, op, latest[o])
    BY <2>1 DEF Begin, PaymentCallbackGuard, DispatchGuard, ArrivalGuard, OtpGuard,
       ReportGuard, SentBackGuard, ReceivedGuard, SellerActionGuard, ReconfirmGuard,
       EscalateGuard, AdminGuard, OpenCase, ConfirmOps
  <2> QED BY <2>2, <1>1, <1>6, <1>11 DEF Begun, Ops, ConfirmOps
<1> QED BY <1>7, <1>9, <1>10, <1>11

LEMMA ServingType ==
    ASSUME TypeOK, NEW w \in Workers, job[w] # Idle
    PROVE  /\ job[w] \in Request
           /\ job[w].op \in Ops
           /\ job[w].order \in Orders
           /\ job[w].case \in 0..MaxCases
           /\ job[w].seen \in Case
           /\ job[w].seen.evidence \in Evidence
           /\ job[w].otp \in BOOLEAN
<1>1. job[w] \in Request
  BY DEF TypeOK
<1> QED BY <1>1 DEF Request, Case

LEMMA EnterType ==
    ASSUME TypeOK, NEW o \in Orders, NEW s \in Statuses, Enter(o, s)
    PROVE  status' \in [Orders -> Statuses] /\ aged' \in [Orders -> BOOLEAN]
BY DEF TypeOK, Enter

LEMMA ClearOtpType ==
    ASSUME TypeOK, NEW o \in Orders, NEW seen \in BOOLEAN, ClearOtp(o, seen)
    PROVE  otp' \in [Orders -> BOOLEAN]
BY DEF TypeOK, ClearOtp

LEMMA QueueType ==
    ASSUME TypeOK, NEW o \in Orders, NEW is \in SUBSET Intent, Queue(o, is)
    PROVE  intents' \in [Orders -> SUBSET Intent]
BY DEF TypeOK, Queue

LEMMA SetCaseType ==
    ASSUME TypeOK, NEW o \in Orders, NEW i \in 0..MaxCases,
           NEW st \in DisputeStatuses, NEW ev \in Evidence, SetCase(o, i, st, ev)
    PROVE  cases' \in [Orders -> [CaseId -> Case]]
<1>1. CASE i = 0
  BY <1>1 DEF TypeOK, SetCase
<1>2. CASE i # 0
  <2>1. [status |-> st, evidence |-> ev] \in Case
    BY DEF Case
  <2>2. cases' = [cases EXCEPT ![o][i] = [status |-> st, evidence |-> ev]]
    BY <1>2 DEF SetCase
  <2> QED BY <2>1, <2>2 DEF TypeOK
<1> QED BY <1>1, <1>2

\* The dispute row a session names is a row, whose evidence is evidence.
LEMMA RowType ==
    ASSUME TypeOK, NEW o \in Orders, NEW i \in CaseId
    PROVE  /\ cases[o][i] \in Case
           /\ cases[o][i].status \in DisputeStatuses
           /\ cases[o][i].evidence \in Evidence
<1>1. cases[o][i] \in Case
  BY DEF TypeOK
<1> QED BY <1>1 DEF Case

\* Row 0 is no row: SetCase writes nothing there, whatever it is given.
LEMMA WriteBackType ==
    ASSUME TypeOK, NEW w \in Workers, job[w] # Idle,
           NEW st \in DisputeStatuses, NEW ev \in Evidence, WriteBack(w, st, ev)
    PROVE  cases' \in [Orders -> [CaseId -> Case]]
<1> DEFINE o == job[w].order
           i == job[w].case
           wr == Written(job[w].seen.status, cases[o][i].status, st)
<1>1. o \in Orders /\ i \in 0..MaxCases
  BY ServingType
<1>2. SetCase(o, i, wr, ev)
  BY DEF WriteBack
<1>3. CASE i = 0
  BY <1>2, <1>3 DEF TypeOK, SetCase
<1>4. CASE i # 0
  <2>1. i \in CaseId
    BY <1>1, <1>4, ConstantsAssumption DEF CaseId
  <2>2. wr \in DisputeStatuses
    BY <1>1, <2>1, RowType DEF Written
  <2> HIDE DEF wr, o, i
  <2> QED BY <1>1, <1>2, <2>2, SetCaseType
<1> QED BY <1>3, <1>4

LEMMA RuleCaseType ==
    ASSUME TypeOK, NEW o \in Orders, NEW st \in DisputeStatuses, RuleCase(o, st)
    PROVE  cases' \in [Orders -> [CaseId -> Case]]
<1>1. latest[o] \in 0..MaxCases
  BY DEF TypeOK
<1>2. CASE latest[o] = 0
  BY <1>2 DEF TypeOK, RuleCase, SetCase
<1>3. CASE latest[o] # 0
  <2>1. latest[o] \in CaseId
    BY <1>1, <1>3, ConstantsAssumption DEF CaseId
  <2>2. cases[o][latest[o]].evidence \in Evidence
    BY <2>1, RowType
  <2> QED BY <1>1, <2>2, SetCaseType DEF RuleCase
<1> QED BY <1>2, <1>3

LEMMA CommitType ==
    ASSUME TypeOK, NEW w \in Workers, Commit(w)
    PROVE  /\ job' \in [Workers -> Request \cup {Idle}]
           /\ due' \in [Sweepers -> [Orders -> Found]]
BY DEF TypeOK, Commit

LEMMA FinishType ==
    ASSUME TypeOK, NEW w \in Workers, Finish(w)
    PROVE  TypeOK'
<1> DEFINE o == job[w].order
           i == job[w].case
<1>0. job[w] # Idle
  BY DEF Finish, PaymentCallback, Dispatch, Arrival, OtpGive, OtpWithhold,
         ReportFunctionalIssue, BuyerSentBack, SellerReceived, SellerRefund,
         SellerShip, ReconfirmAccept, ReconfirmReject, EscalateDispute,
         AdminRefund, AdminRelease, AdminSplit, AdminDecide,
         ConfirmResolvedBuyer, ConfirmResolvedSeller, ConfirmResolved, Serving
<1>s. /\ o \in Orders /\ i \in 0..MaxCases
      /\ job[w].seen \in Case /\ job[w].seen.evidence \in Evidence
      /\ job[w].otp \in BOOLEAN
  BY <1>0, ServingType
<1>n. /\ {"locked", "out_for_delivery", "at_door_pending_inspection", "hold_24h",
          "released", "refunded_buyer", "disputed_functional",
          "return_in_transit", "return_received", "awaiting_buyer_reconfirmation",
          "resolved_release", "resolved_refund", "resolved_split",
          "escalated_admin_review"} \subseteq Statuses
      /\ {"open", "return_received", "awaiting_buyer_reconfirmation",
          "resolved_release", "resolved_refund", "resolved_split",
          "escalated_admin_review"} \subseteq DisputeStatuses
  BY DEF Statuses, Timed, OpenCase, Settled, Released, Refunded, DisputeStatuses,
         OpenDispute
<1>p. /\ 0 \in 0..MaxCases
      /\ {"tx-release", "tx-refund", "seller-refund", "reconfirm-release",
          "admin-refund", "admin-release"} \subseteq Purposes
      /\ SplitPart \subseteq Purposes
  BY ConstantsAssumption DEF Purposes, FullRelease, FullRefund
<1>c. Commit(w) => /\ job' \in [Workers -> Request \cup {Idle}]
                   /\ due' \in [Sweepers -> [Orders -> Found]]
  BY CommitType
<1>e. \A s \in Statuses : Enter(o, s) =>
         status' \in [Orders -> Statuses] /\ aged' \in [Orders -> BOOLEAN]
  BY <1>s, EnterType
<1>q. \A is \in SUBSET Intent : Queue(o, is) => intents' \in [Orders -> SUBSET Intent]
  BY <1>s, QueueType
<1>q1. \A p \in Purposes : \A j \in 0..MaxCases : {Pay(p, j)} \in SUBSET Intent
  BY PayType
<1>k. \A seen \in BOOLEAN : ClearOtp(o, seen) => otp' \in [Orders -> BOOLEAN]
  BY <1>s, ClearOtpType
<1>r. \A st \in DisputeStatuses : RuleCase(o, st) =>
         cases' \in [Orders -> [CaseId -> Case]]
  BY <1>s, RuleCaseType
<1>b. \A st \in DisputeStatuses, ev \in Evidence : WriteBack(w, st, ev) =>
         cases' \in [Orders -> [CaseId -> Case]]
  BY <1>0, WriteBackType
<1> HIDE DEF o, i
<1>1. ASSUME PaymentCallback(w) PROVE TypeOK'
  BY <1>1, <1>s, <1>n, <1>c, <1>e DEF PaymentCallback, TypeOK, o
<1>2. ASSUME Dispatch(w) PROVE TypeOK'
  BY <1>2, <1>n, <1>c, <1>e DEF Dispatch, TypeOK, o
<1>3. ASSUME Arrival(w) PROVE TypeOK'
  BY <1>3, <1>s, <1>n, <1>c, <1>e DEF Arrival, TypeOK, o
<1>4. ASSUME OtpGive(w) PROVE TypeOK'
  BY <1>4, <1>n, <1>p, <1>c, <1>e, <1>q, <1>q1, <1>k DEF OtpGive, TypeOK, o
<1>5. ASSUME OtpWithhold(w) PROVE TypeOK'
  BY <1>5, <1>s, <1>n, <1>p, <1>c, <1>e, <1>q, <1>q1, <1>k DEF OtpWithhold, TypeOK, o
<1>6. ASSUME ReportFunctionalIssue(w) PROVE TypeOK'
  <2> DEFINE j == filed[o] + 1
             st == IF job[w].op = "report" THEN "open" ELSE "escalated_admin_review"
             new == [NoCase EXCEPT !.status = st]
  <2>1. j \in CaseId /\ j \in 0..MaxCases
    BY <1>6, ConstantsAssumption DEF ReportFunctionalIssue, CaseId, o
  <2>2. new \in Case
    BY <1>n, NoCaseType DEF Case, NoCase
  <2>3. cases' = [cases EXCEPT ![o][j] = new]
    BY <1>6 DEF ReportFunctionalIssue, o
  <2>4. cases' \in [Orders -> [CaseId -> Case]]
    BY <2>1, <2>2, <2>3 DEF TypeOK
  <2>5. filed' \in [Orders -> 0..MaxCases]
    BY <1>6, <2>1 DEF ReportFunctionalIssue, TypeOK, o
  <2>6. latest[o] \in 0..MaxCases
    BY <1>s DEF TypeOK
  <2>7. latest' \in [Orders -> 0..MaxCases]
    <3>1. PICK l \in {j, latest[o]} : latest' = [latest EXCEPT ![o] = l]
      BY <1>6 DEF ReportFunctionalIssue, o
    <3>2. l \in 0..MaxCases
      BY <2>1, <2>6
    <3> QED BY <3>1, <3>2, <1>s DEF TypeOK
  <2>8. Enter(o, "disputed_functional") /\ Commit(w) /\ UNCHANGED <<otp, funded, intents>>
    BY <1>6 DEF ReportFunctionalIssue, o
  <2> QED BY <2>4, <2>5, <2>7, <2>8, <1>n, <1>c, <1>e DEF TypeOK
<1>7. ASSUME BuyerSentBack(w) PROVE TypeOK'
  BY <1>7, <1>n, <1>c, <1>e DEF BuyerSentBack, TypeOK, o
<1>8. ASSUME SellerReceived(w) PROVE TypeOK'
  BY <1>8, <1>n, <1>c, <1>e DEF SellerReceived, TypeOK, o
<1>9. ASSUME SellerRefund(w) PROVE TypeOK'
  BY <1>9, <1>n, <1>p, <1>c, <1>e, <1>q, <1>q1, <1>r DEF SellerRefund, TypeOK, o
<1>10. ASSUME SellerShip(w) PROVE TypeOK'
  BY <1>10, <1>n, <1>c, <1>e, <1>r DEF SellerShip, TypeOK, o
<1>11. ASSUME ReconfirmAccept(w) PROVE TypeOK'
  <2>1. PICK ev \in {job[w].seen.evidence, cases[o][i].evidence} :
           WriteBack(w, "resolved_release", ev)
    BY <1>11 DEF ReconfirmAccept, o, i
  <2>2. cases' \in [Orders -> [CaseId -> Case]]
    <3>1. CASE i = 0
      BY <2>1, <3>1 DEF WriteBack, SetCase, TypeOK, o, i
    <3>2. CASE i # 0
      <4>1. i \in CaseId
        BY <1>s, <3>2, ConstantsAssumption DEF CaseId
      <4> QED BY <2>1, <4>1, <1>s, <1>n, <1>b, RowType
    <3> QED BY <3>1, <3>2
  <2> QED BY <1>11, <2>2, <1>n, <1>p, <1>c, <1>e, <1>q, <1>q1 DEF ReconfirmAccept, TypeOK, o
<1>12. ASSUME ReconfirmReject(w) PROVE TypeOK'
  <2> DEFINE seen == job[w].seen.evidence
             next == IF seen.rejections < BUYER_RECONFIRMATION_RETRY_LIMIT
                     THEN "return_received" ELSE "escalated_admin_review"
             ev == [seen EXCEPT !.rejections = @ + 1]
  <2>1. ev \in Evidence
    BY <1>s DEF Evidence
  <2>2. Enter(o, next) /\ WriteBack(w, next, ev) /\ Commit(w)
        /\ UNCHANGED <<otp, funded, filed, latest, intents>>
    BY <1>12 DEF ReconfirmReject, o
  <2>3. next \in Statuses /\ next \in DisputeStatuses
    BY <1>n
  <2> HIDE DEF ev, next
  <2> QED BY <2>1, <2>2, <2>3, <1>c, <1>e, <1>b DEF TypeOK
<1>13. ASSUME EscalateDispute(w) PROVE TypeOK'
  BY <1>13, <1>s, <1>n, <1>c, <1>e, <1>b DEF EscalateDispute, TypeOK, o
<1>14. ASSUME NEW op, NEW s \in {"resolved_refund", "resolved_release", "resolved_split"},
              NEW ps \in SUBSET Purposes, AdminDecide(w, op, s, ps)
       PROVE  TypeOK'
  <2>1. {Pay(p, i) : p \in ps} \in SUBSET Intent
    BY <1>s, PayType
  <2>2. /\ Enter(o, s) /\ Queue(o, {Pay(p, i) : p \in ps})
        /\ WriteBack(w, s, cases[o][i].evidence) /\ Commit(w)
        /\ UNCHANGED <<otp, funded, filed, latest>>
    BY <1>14 DEF AdminDecide, o, i
  <2>3. cases' \in [Orders -> [CaseId -> Case]]
    <3>1. CASE i = 0
      BY <2>2, <3>1 DEF WriteBack, SetCase, TypeOK, o, i
    <3>2. CASE i # 0
      <4>1. i \in CaseId
        BY <1>s, <3>2, ConstantsAssumption DEF CaseId
      <4> QED BY <2>2, <4>1, <1>s, <1>n, <1>b, RowType
    <3> QED BY <3>1, <3>2
  <2>4. s \in Statuses
    BY <1>n
  <2> QED BY <2>1, <2>2, <2>3, <2>4, <1>c, <1>e, <1>q DEF TypeOK
<1>15. ASSUME NEW op, NEW ev \in Evidence, ConfirmResolved(w, op, ev) PROVE TypeOK'
  <2>1. /\ SetCase(o, i, cases[o][i].status,
                   Written(job[w].seen.evidence, cases[o][i].evidence, ev))
        /\ Commit(w)
        /\ UNCHANGED <<status, aged, otp, funded, filed, latest, intents>>
    BY <1>15 DEF ConfirmResolved, o, i
  <2>2. cases' \in [Orders -> [CaseId -> Case]]
    <3>1. CASE i = 0
      BY <2>1, <3>1 DEF SetCase, TypeOK
    <3>2. CASE i # 0
      <4>1. i \in CaseId
        BY <1>s, <3>2, ConstantsAssumption DEF CaseId
      <4>2. /\ cases[o][i].status \in DisputeStatuses
            /\ Written(job[w].seen.evidence, cases[o][i].evidence, ev) \in Evidence
        BY <4>1, <1>s, RowType DEF Written
      <4> QED BY <2>1, <4>2, <1>s, SetCaseType
    <3> QED BY <3>1, <3>2
  <2> QED BY <2>1, <2>2, <1>c DEF TypeOK
<1>16. AdminRefund(w) => TypeOK'
  BY <1>14, <1>p DEF AdminRefund
<1>17. AdminRelease(w) => TypeOK'
  BY <1>14, <1>p DEF AdminRelease
<1>18. AdminSplit(w) => TypeOK'
  BY <1>14, <1>p DEF AdminSplit
<1>19. ConfirmResolvedBuyer(w) => TypeOK'
  <2>1. [job[w].seen.evidence EXCEPT !.buyer = TRUE] \in Evidence
    BY <1>s DEF Evidence
  <2> QED BY <1>15, <2>1 DEF ConfirmResolvedBuyer
<1>20. ConfirmResolvedSeller(w) => TypeOK'
  <2>1. [job[w].seen.evidence EXCEPT !.seller = TRUE] \in Evidence
    BY <1>s DEF Evidence
  <2> QED BY <1>15, <2>1 DEF ConfirmResolvedSeller
<1> QED BY <1>1, <1>2, <1>3, <1>4, <1>5, <1>6, <1>7, <1>8, <1>9, <1>10, <1>11, <1>12,
           <1>13, <1>16, <1>17, <1>18, <1>19, <1>20 DEF Finish

LEMMA SweepCommitType ==
    ASSUME TypeOK, NEW s \in Sweepers, SweepCommit(s)
    PROVE  TypeOK'
<1>1. \A o \in Orders : due[s][o] \in Found /\ (Sweeps(s, o) => due[s][o].from \in Timed)
  BY DEF TypeOK, Found, Sweeps
<1>2. \A o \in Orders : Sweeps(s, o) =>
         /\ RulingFor(s, o).to \in Statuses
         /\ RulingFor(s, o).queue \subseteq Purposes
         /\ RulingFor(s, o).case \in DisputeStatuses
  BY <1>1, RulingType DEF RulingFor, Purposes, Statuses, Settled, Released, Refunded
<1>3. status' \in [Orders -> Statuses] /\ aged' \in [Orders -> BOOLEAN]
      /\ otp' \in [Orders -> BOOLEAN]
  BY <1>2 DEF SweepCommit, TypeOK
<1>4. cases' \in [Orders -> [CaseId -> Case]]
  <2>1. ASSUME NEW o \in Orders, Sweeps(s, o) PROVE RuledCases(s, o) \in [CaseId -> Case]
    <3>1. \A i \in CaseId : cases[o][i] \in Case
      BY DEF TypeOK
    <3>2. \A c \in Case : [c EXCEPT !.status = RulingFor(s, o).case] \in Case
      BY <1>2, <2>1 DEF Case
    <3> QED BY <3>1, <3>2 DEF RuledCases
  <2>2. cases' = [o \in Orders |-> IF Sweeps(s, o) THEN RuledCases(s, o) ELSE cases[o]]
    BY DEF SweepCommit
  <2> QED BY <2>1, <2>2 DEF TypeOK
<1>5. intents' \in [Orders -> SUBSET Intent]
  <2>1. ASSUME NEW o \in Orders, Sweeps(s, o)
        PROVE  {Pay(p, 0) : p \in RulingFor(s, o).queue} \in SUBSET Intent
    BY <1>2, <2>1, PayType, ConstantsAssumption
  <2> QED BY <2>1 DEF SweepCommit, TypeOK
<1>6. due' \in [Sweepers -> [Orders -> Found]]
  BY DEF SweepCommit, NothingDue, NotDue, Found, TypeOK
<1> QED BY <1>3, <1>4, <1>5, <1>6 DEF SweepCommit, TypeOK

LEMMA NextType == TypeOK /\ [Next]_vars => TypeOK'
<1> SUFFICES ASSUME TypeOK, [Next]_vars PROVE TypeOK'
  OBVIOUS
<1>1. ASSUME NEW w \in Workers, NEW o \in Orders, Begin(w, o) PROVE TypeOK'
  BY <1>1, BeginStarts, StartType
<1>2. ASSUME NEW w \in Workers, Finish(w) PROVE TypeOK'
  BY <1>2, FinishType
<1>3. ASSUME NEW w \in Workers, Abort(w) PROVE TypeOK'
  BY <1>3 DEF Abort, TypeOK
<1>4. ASSUME NEW o \in Orders, CustodyFunding(o) PROVE TypeOK'
  BY <1>4, StatusNames DEF CustodyFunding, Enter, TypeOK, Timed
<1>5. ASSUME NEW o \in Orders, WindowElapses(o) PROVE TypeOK'
  BY <1>5 DEF WindowElapses, TypeOK
<1>6. ASSUME NEW s \in Sweepers, SweepLoad(s) PROVE TypeOK'
  <2>1. \A o \in Orders : status[o] \in Timed => [from |-> status[o], otp |-> otp[o]] \in Found
    BY DEF TypeOK, Found
  <2>2. NotDue \in Found
    BY DEF NotDue, Found
  <2>3. due' \in [Sweepers -> [Orders -> Found]]
    BY <1>6, <2>1, <2>2 DEF SweepLoad, TypeOK
  <2> QED BY <1>6, <2>3 DEF SweepLoad, TypeOK
<1>7. ASSUME NEW s \in Sweepers, SweepCommit(s) PROVE TypeOK'
  BY <1>7, SweepCommitType
<1>8. ASSUME NEW s \in Sweepers, SweepAbort(s) PROVE TypeOK'
  BY <1>8 DEF SweepAbort, NothingDue, NotDue, Found, TypeOK
<1>9. ASSUME UNCHANGED vars PROVE TypeOK'
  BY <1>9 DEF vars, TypeOK
<1> QED BY <1>1, <1>2, <1>3, <1>4, <1>5, <1>6, <1>7, <1>8, <1>9 DEF Next

\* Whatever the sessions do, every column holds a value of its type: the
\* rejection count a number, the latest dispute one of the order's disputes.
THEOREM TypeCorrect == Spec => []TypeOK
<1>1. Init => TypeOK
  BY NoCaseType, StatusNames, ConstantsAssumption
     DEF Init, TypeOK, NothingDue, NotDue, Found
<1>2. TypeOK /\ [Next]_vars => TypeOK'
  BY NextType
<1> QED BY <1>1, <1>2, PTL DEF Spec

-----------------------------------------------------------------------------
(***************************************************************************)
(* What a commit does to the status and the payouts of an order.           *)
(***************************************************************************)
Keeps(o)    == status'[o] = status[o] /\ intents'[o] = intents[o]
Opens(o)    == /\ status'[o] \in Statuses \ (Settled \cup {"awaiting_payment"})
               /\ intents'[o] = intents[o]
Releases(o) == /\ status'[o] \in Released
               /\ \E p \in FullRelease, i \in 0..MaxCases :
                     intents'[o] = intents[o] \cup {Pay(p, i)}
Refunds(o)  == /\ status'[o] \in Refunded
               /\ \E p \in FullRefund, i \in 0..MaxCases :
                     intents'[o] = intents[o] \cup {Pay(p, i)}
Splits(o)   == /\ status'[o] = "resolved_split"
               /\ \E i \in 0..MaxCases :
                     intents'[o] = intents[o] \cup {Pay(p, i) : p \in SplitPart}

\* A request touches its own order only, and ends its session.
LEMMA FinishEffect ==
    ASSUME TypeOK, NEW w \in Workers, Finish(w)
    PROVE  /\ job[w] # Idle
           /\ job' = [job EXCEPT ![w] = Idle]
           /\ due' = due
           /\ \A p \in Orders : p # job[w].order => Keeps(p) /\ funded'[p] = funded[p]
           /\ \/ job[w].op \in ConfirmOps /\ Keeps(job[w].order)
              \/ job[w].op \notin ConfirmOps /\ Opens(job[w].order)
              \/ /\ job[w].op \notin ConfirmOps \cup {"payment_callback"}
                 /\ \/ Releases(job[w].order)
                    \/ Refunds(job[w].order)
                    \/ Splits(job[w].order)
           /\ funded'[job[w].order] =
                (funded[job[w].order] \/ (job[w].op = "payment_callback" /\ ~Production))
<1> DEFINE o == job[w].order
           i == job[w].case
           Rest == \A p \in Orders : p # o => Keeps(p) /\ funded'[p] = funded[p]
           Done == job[w] # Idle /\ job' = [job EXCEPT ![w] = Idle] /\ due' = due
           Book == funded'[o] = (funded[o] \/ (job[w].op = "payment_callback" /\ ~Production))
           NotConfirm == job[w].op \notin ConfirmOps
           Later == job[w].op \notin ConfirmOps \cup {"payment_callback"}
           Goal == /\ Done /\ Rest /\ Book
                   /\ \/ job[w].op \in ConfirmOps /\ Keeps(o)
                      \/ NotConfirm /\ Opens(o)
                      \/ Later /\ (Releases(o) \/ Refunds(o) \/ Splits(o))
<1>0. job[w] # Idle
  BY DEF Finish, PaymentCallback, Dispatch, Arrival, OtpGive, OtpWithhold,
         ReportFunctionalIssue, BuyerSentBack, SellerReceived, SellerRefund,
         SellerShip, ReconfirmAccept, ReconfirmReject, EscalateDispute,
         AdminRefund, AdminRelease, AdminSplit, AdminDecide,
         ConfirmResolvedBuyer, ConfirmResolvedSeller, ConfirmResolved, Serving
<1>s. o \in Orders /\ i \in 0..MaxCases /\ 0 \in 0..MaxCases
  BY <1>0, ServingType, ConstantsAssumption
<1>n. /\ {"locked", "out_for_delivery", "at_door_pending_inspection", "hold_24h",
          "disputed_functional", "return_in_transit", "return_received",
          "awaiting_buyer_reconfirmation", "escalated_admin_review"}
             \subseteq Statuses \ (Settled \cup {"awaiting_payment"})
      /\ {"released", "resolved_release"} \subseteq Released
      /\ {"refunded_buyer", "resolved_refund"} \subseteq Refunded
  BY DEF Statuses, Timed, OpenCase, Settled, Released, Refunded
<1>d. Commit(w) => Done
  BY <1>0 DEF Commit
<1>f. UNCHANGED funded => /\ \A p \in Orders : funded'[p] = funded[p]
                          /\ Later => Book
  BY <1>s DEF TypeOK
\* A step that enters an open status and queues nothing.
<1>o. ASSUME NEW st \in {"locked", "out_for_delivery", "at_door_pending_inspection",
                         "hold_24h", "disputed_functional", "return_in_transit",
                         "return_received", "awaiting_buyer_reconfirmation",
                         "escalated_admin_review"},
             Enter(o, st), UNCHANGED intents
      PROVE  Opens(o) /\ \A p \in Orders : p # o => Keeps(p)
  BY <1>o, <1>n, <1>s DEF Opens, Keeps, Enter, TypeOK
\* A step that enters a settled status and queues its payout.
<1>q. ASSUME NEW st, NEW is, Enter(o, st), Queue(o, is)
      PROVE  /\ status'[o] = st /\ intents'[o] = intents[o] \cup is
             /\ \A p \in Orders : p # o => Keeps(p)
  BY <1>q, <1>s DEF Keeps, Enter, Queue, TypeOK
<1> HIDE DEF o, i, Rest, Done, Book, NotConfirm, Later
<1>1. ASSUME PaymentCallback(w) PROVE Goal
  <2>1. /\ Serving(w, "payment_callback") /\ Enter(o, "locked") /\ Commit(w)
        /\ funded' = [funded EXCEPT ![o] = @ \/ ~Production] /\ UNCHANGED intents
    BY <1>1 DEF PaymentCallback, o
  <2>2. Book /\ \A p \in Orders : p # o => funded'[p] = funded[p]
    BY <2>1, <1>s DEF Book, Serving, TypeOK
  <2>3. NotConfirm
    BY <2>1 DEF NotConfirm, Serving, ConfirmOps
  <2> QED BY <2>1, <2>2, <2>3, <1>o, <1>d DEF Rest
<1>2. ASSUME NEW op \in {"dispatch", "arrival", "report", "report_other", "sent_back", "received",
                         "seller_ship", "reconfirm_reject", "escalate"},
             NEW st \in {"out_for_delivery", "at_door_pending_inspection",
                         "disputed_functional", "return_in_transit", "return_received",
                         "awaiting_buyer_reconfirmation", "escalated_admin_review"},
             Serving(w, op), Enter(o, st), Commit(w), UNCHANGED <<funded, intents>>
      PROVE  Goal
  <2>1. Later /\ NotConfirm
    BY <1>2 DEF Later, NotConfirm, Serving, ConfirmOps
  <2> QED BY <1>2, <2>1, <1>o, <1>d, <1>f DEF Rest
<1>3. Dispatch(w) => Goal
  BY <1>2 DEF Dispatch, o
<1>4. Arrival(w) => Goal
  BY <1>2 DEF Arrival, o
<1>5. ReportFunctionalIssue(w) => Goal
  BY <1>2 DEF ReportFunctionalIssue, o
<1>6. BuyerSentBack(w) => Goal
  BY <1>2 DEF BuyerSentBack, o
<1>7. SellerReceived(w) => Goal
  BY <1>2 DEF SellerReceived, o
<1>8. SellerShip(w) => Goal
  BY <1>2 DEF SellerShip, o
<1>9. ReconfirmReject(w) => Goal
  BY <1>2 DEF ReconfirmReject, o
<1>10. EscalateDispute(w) => Goal
  BY <1>2 DEF EscalateDispute, o
<1>11. ASSUME NEW op \in {"otp_give", "otp_withhold", "seller_refund", "reconfirm_accept",
                          "admin_refund", "admin_release", "admin_split"},
              NEW st, NEW is, Serving(w, op), Enter(o, st), Queue(o, is), Commit(w),
              UNCHANGED funded,
              \/ st \in Released /\ \E p \in FullRelease, j \in 0..MaxCases : is = {Pay(p, j)}
              \/ st \in Refunded /\ \E p \in FullRefund, j \in 0..MaxCases : is = {Pay(p, j)}
              \/ st = "resolved_split"
                   /\ \E j \in 0..MaxCases : is = {Pay(p, j) : p \in SplitPart}
       PROVE  Goal
  <2>1. Later
    BY <1>11 DEF Later, Serving, ConfirmOps
  <2>2. Releases(o) \/ Refunds(o) \/ Splits(o)
    BY <1>11, <1>q DEF Releases, Refunds, Splits
  <2> QED BY <1>11, <2>1, <2>2, <1>q, <1>d, <1>f DEF Rest
<1>12. ASSUME OtpGive(w) PROVE Goal
  <2>1. CASE o \in Serialized
    <3>1. Later /\ NotConfirm
      BY <1>12 DEF OtpGive, Later, NotConfirm, Serving, ConfirmOps
    <3>2. Enter(o, "hold_24h") /\ UNCHANGED <<funded, intents>> /\ Commit(w)
      BY <1>12, <2>1 DEF OtpGive, o
    <3> QED BY <3>1, <3>2, <1>o, <1>d, <1>f DEF Rest
  <2>2. CASE o \notin Serialized
    <3>1. /\ Serving(w, "otp_give") /\ Enter(o, "released")
          /\ Queue(o, {Pay("tx-release", 0)}) /\ Commit(w) /\ UNCHANGED funded
      BY <1>12, <2>2 DEF OtpGive, o
    <3>2. "tx-release" \in FullRelease
      BY DEF FullRelease
    <3> QED BY <3>1, <3>2, <1>11, <1>n, <1>s
  <2> QED BY <2>1, <2>2
<1>13. ASSUME OtpWithhold(w) PROVE Goal
  <2>1. /\ Serving(w, "otp_withhold") /\ Enter(o, "refunded_buyer")
        /\ Queue(o, {Pay("tx-refund", 0)}) /\ Commit(w) /\ UNCHANGED funded
    BY <1>13 DEF OtpWithhold, o
  <2>2. "tx-refund" \in FullRefund
    BY DEF FullRefund
  <2> QED BY <2>1, <2>2, <1>11, <1>n, <1>s
<1>14. ASSUME SellerRefund(w) PROVE Goal
  <2>1. /\ Serving(w, "seller_refund") /\ Enter(o, "refunded_buyer")
        /\ Queue(o, {Pay("seller-refund", 0)}) /\ Commit(w) /\ UNCHANGED funded
    BY <1>14 DEF SellerRefund, o
  <2>2. "seller-refund" \in FullRefund
    BY DEF FullRefund
  <2> QED BY <2>1, <2>2, <1>11, <1>n, <1>s
<1>15. ASSUME ReconfirmAccept(w) PROVE Goal
  <2>1. /\ Serving(w, "reconfirm_accept") /\ Enter(o, "resolved_release")
        /\ Queue(o, {Pay("reconfirm-release", 0)}) /\ Commit(w) /\ UNCHANGED funded
    BY <1>15 DEF ReconfirmAccept, o
  <2>2. "reconfirm-release" \in FullRelease
    BY DEF FullRelease
  <2> QED BY <2>1, <2>2, <1>11, <1>n, <1>s
<1>16. ASSUME AdminRefund(w) PROVE Goal
  <2>1. /\ Serving(w, "admin_refund") /\ Enter(o, "resolved_refund")
        /\ Queue(o, {Pay("admin-refund", i)}) /\ Commit(w) /\ UNCHANGED funded
    <3>1. {Pay(p, i) : p \in {"admin-refund"}} = {Pay("admin-refund", i)}
      OBVIOUS
    <3> QED BY <1>16, <3>1 DEF AdminRefund, AdminDecide, o, i
  <2>2. "admin-refund" \in FullRefund
    BY DEF FullRefund
  <2> QED BY <2>1, <2>2, <1>11, <1>n, <1>s
<1>17. ASSUME AdminRelease(w) PROVE Goal
  <2>1. /\ Serving(w, "admin_release") /\ Enter(o, "resolved_release")
        /\ Queue(o, {Pay("admin-release", i)}) /\ Commit(w) /\ UNCHANGED funded
    <3>1. {Pay(p, i) : p \in {"admin-release"}} = {Pay("admin-release", i)}
      OBVIOUS
    <3> QED BY <1>17, <3>1 DEF AdminRelease, AdminDecide, o, i
  <2>2. "admin-release" \in FullRelease
    BY DEF FullRelease
  <2> QED BY <2>1, <2>2, <1>11, <1>n, <1>s
<1>18. ASSUME AdminSplit(w) PROVE Goal
  <2>1. /\ Serving(w, "admin_split") /\ Enter(o, "resolved_split")
        /\ Queue(o, {Pay(p, i) : p \in SplitPart}) /\ Commit(w) /\ UNCHANGED funded
    BY <1>18 DEF AdminSplit, AdminDecide, o, i
  <2> QED BY <2>1, <1>11, <1>s
<1>19. ASSUME NEW op \in ConfirmOps, NEW ev, ConfirmResolved(w, op, ev) PROVE Goal
  <2>1. Serving(w, op) /\ Commit(w) /\ UNCHANGED <<status, intents, funded>>
    BY <1>19 DEF ConfirmResolved
  <2>2. job[w].op \in ConfirmOps /\ Keeps(o) /\ Rest
    BY <2>1, <1>f DEF Serving, Keeps, Rest
  <2>3. Book
    BY <2>1, <1>s DEF Book, Serving, ConfirmOps, TypeOK
  <2> QED BY <2>1, <2>2, <2>3, <1>d
<1>20. ConfirmResolvedBuyer(w) => Goal
  BY <1>19 DEF ConfirmResolvedBuyer, ConfirmOps
<1>21. ConfirmResolvedSeller(w) => Goal
  BY <1>19 DEF ConfirmResolvedSeller, ConfirmOps
<1>22. Goal
  BY <1>1, <1>3, <1>4, <1>5, <1>6, <1>7, <1>8, <1>9, <1>10, <1>12, <1>13, <1>14, <1>15,
     <1>16, <1>17, <1>18, <1>20, <1>21 DEF Finish
<1> QED BY <1>22 DEF Done, Rest, Book, NotConfirm, Later, o

\* A sweep settles or escalates each order it found, and leaves the others.
LEMMA SweepEffect ==
    ASSUME TypeOK, NEW s \in Sweepers, SweepCommit(s)
    PROVE  /\ due' = [due EXCEPT ![s] = NothingDue]
           /\ job' = job /\ funded' = funded
           /\ \A o \in Orders : ~Sweeps(s, o) => Keeps(o)
           /\ \A o \in Orders : Sweeps(s, o) => Opens(o) \/ Releases(o) \/ Refunds(o)
<1>1. ASSUME NEW o \in Orders, ~Sweeps(s, o) PROVE Keeps(o)
  BY <1>1 DEF SweepCommit, Keeps
<1>2. ASSUME NEW o \in Orders, Sweeps(s, o) PROVE Opens(o) \/ Releases(o) \/ Refunds(o)
  <2> DEFINE r == RulingFor(s, o)
  <2>1. due[s][o].from \in Timed
    BY <1>2 DEF TypeOK, Found, Sweeps
  <2>2. /\ status'[o] = r.to
        /\ intents'[o] = intents[o] \cup {Pay(p, 0) : p \in r.queue}
    BY <1>2 DEF SweepCommit
  <2>3. /\ r.to \in {"refunded_buyer", "released", "escalated_admin_review"}
        /\ r.to = "refunded_buyer" => \E p \in FullRefund : r.queue = {p}
        /\ r.to = "released" => \E p \in FullRelease : r.queue = {p}
        /\ r.to = "escalated_admin_review" => r.queue = {}
    BY <2>1, RulingType DEF RulingFor
  <2> HIDE DEF r
  <2>4. CASE r.to = "refunded_buyer"
    <3>1. PICK p \in FullRefund : r.queue = {p}
      BY <2>3, <2>4
    <3>2. intents'[o] = intents[o] \cup {Pay(p, 0)}
      BY <2>2, <3>1
    <3> QED BY <2>2, <2>4, <3>2, ConstantsAssumption DEF Refunds, Refunded
  <2>5. CASE r.to = "released"
    <3>1. PICK p \in FullRelease : r.queue = {p}
      BY <2>3, <2>5
    <3>2. intents'[o] = intents[o] \cup {Pay(p, 0)}
      BY <2>2, <3>1
    <3> QED BY <2>2, <2>5, <3>2, ConstantsAssumption DEF Releases, Released
  <2>6. CASE r.to = "escalated_admin_review"
    <3>1. intents'[o] = intents[o]
      BY <2>2, <2>3, <2>6
    <3>2. "escalated_admin_review" \in Statuses \ (Settled \cup {"awaiting_payment"})
      BY DEF Statuses, Settled, Released, Refunded
    <3> QED BY <2>2, <2>6, <3>1, <3>2 DEF Opens
  <2> QED BY <2>3, <2>4, <2>5, <2>6
<1> QED BY <1>1, <1>2 DEF SweepCommit

-----------------------------------------------------------------------------
(***************************************************************************)
(* Sessions that overlap.                                                  *)
(***************************************************************************)
QueuedFor(o) ==
    /\ status[o] \in Released =>
         \E p \in FullRelease, i \in 0..MaxCases : Pay(p, i) \in intents[o]
    /\ status[o] \in Refunded =>
         \E p \in FullRefund, i \in 0..MaxCases : Pay(p, i) \in intents[o]
    /\ status[o] = "resolved_split" =>
         \E i \in 0..MaxCases : {Pay(p, i) : p \in SplitPart} \subseteq intents[o]

LEMMA OutcomesDisjoint ==
    /\ Released \cap Refunded = {}
    /\ "resolved_split" \notin Released \cup Refunded
    /\ FullRelease \cap FullRefund = {}
    /\ SplitPart \cap (FullRelease \cup FullRefund) = {}
BY DEF Released, Refunded, FullRelease, FullRefund, SplitPart

LEMMA QueuedKept ==
    ASSUME NEW o \in Orders, QueuedFor(o),
           Keeps(o) \/ Opens(o) \/ Releases(o) \/ Refunds(o) \/ Splits(o)
    PROVE  QueuedFor(o)'
<1>1. CASE Keeps(o)
  BY <1>1 DEF Keeps, QueuedFor
<1>2. CASE Opens(o)
  BY <1>2 DEF Opens, QueuedFor, Settled
<1>3. CASE Releases(o)
  BY <1>3, OutcomesDisjoint DEF Releases, QueuedFor
<1>4. CASE Refunds(o)
  BY <1>4, OutcomesDisjoint DEF Refunds, QueuedFor
<1>5. CASE Splits(o)
  BY <1>5, OutcomesDisjoint DEF Splits, QueuedFor
<1> QED BY <1>1, <1>2, <1>3, <1>4, <1>5

\* Every step does one of these to every order.
LEMMA NextEffect ==
    ASSUME TypeOK, [Next]_vars, NEW o \in Orders
    PROVE  Keeps(o) \/ Opens(o) \/ Releases(o) \/ Refunds(o) \/ Splits(o)
<1>1. ASSUME NEW w \in Workers, NEW p \in Orders, Begin(w, p) PROVE Keeps(o)
  BY <1>1, BeginStarts DEF Start, Keeps
<1>2. ASSUME NEW w \in Workers, Finish(w)
      PROVE  Keeps(o) \/ Opens(o) \/ Releases(o) \/ Refunds(o) \/ Splits(o)
  BY <1>2, FinishEffect
<1>3. ASSUME NEW p \in Orders, CustodyFunding(p) PROVE Keeps(o) \/ Opens(o)
  <2>1. "locked" \in Statuses \ (Settled \cup {"awaiting_payment"})
    BY DEF Statuses, Timed, Settled, Released, Refunded
  <2> QED BY <1>3, <2>1 DEF CustodyFunding, Enter, Keeps, Opens, TypeOK
<1>4. ASSUME NEW s \in Sweepers, SweepCommit(s)
      PROVE  Keeps(o) \/ Opens(o) \/ Releases(o) \/ Refunds(o)
  BY <1>4, SweepEffect
<1>5. ASSUME \/ \E w \in Workers : Abort(w)
             \/ \E p \in Orders : WindowElapses(p)
             \/ \E s \in Sweepers : SweepLoad(s) \/ SweepAbort(s)
             \/ UNCHANGED vars
      PROVE  Keeps(o)
  BY <1>5 DEF Abort, WindowElapses, SweepLoad, SweepAbort, vars, Keeps
<1> QED BY <1>1, <1>2, <1>3, <1>4, <1>5 DEF Next

\* However sessions overlap, an order shown as released, refunded or split has
\* the payouts queued that make it so.
THEOREM QueuedCorrect == Spec => []SettlementIsQueued
<1> DEFINE Inv == TypeOK /\ \A o \in Orders : QueuedFor(o)
<1>1. Init => Inv
  <2>1. Init => TypeOK
    BY NoCaseType, StatusNames, ConstantsAssumption
       DEF Init, TypeOK, NothingDue, NotDue, Found
  <2>2. Init => \A o \in Orders : QueuedFor(o)
    BY DEF Init, QueuedFor, Released, Refunded
  <2> QED BY <2>1, <2>2
<1>2. Inv /\ [Next]_vars => Inv'
  <2> SUFFICES ASSUME Inv, [Next]_vars PROVE Inv'
    OBVIOUS
  <2>1. TypeOK'
    BY NextType
  <2>2. ASSUME NEW o \in Orders PROVE QueuedFor(o)'
    BY NextEffect, QueuedKept
  <2> QED BY <2>1, <2>2
<1>3. Inv => SettlementIsQueued
  BY DEF SettlementIsQueued, QueuedFor
<1> QED BY <1>1, <1>2, <1>3, PTL DEF Spec

\* The escrow of o holds the buyer's money, or can never be booked as holding it.
Booked(o) == funded[o] \/ (Production /\ o \notin Econfirm)

\* Why PayoutsAreFunded survives overlap: only the payment callback and the
\* eConfirm poller leave awaiting_payment, and a session that saw a later status
\* saw an order that was already booked.
FundedInv ==
    /\ \A o \in Orders : status[o] # "awaiting_payment" \/ intents[o] # {} => Booked(o)
    /\ \A w \in Workers : job[w] # Idle =>
         IF job[w].op = "payment_callback" THEN job[w].order \notin Econfirm
                                           ELSE Booked(job[w].order)
    /\ \A s \in Sweepers, o \in Orders : Sweeps(s, o) => Booked(o)

\* Bookings are never undone.
LEMMA BookedKept ==
    ASSUME TypeOK, [Next]_vars, NEW o \in Orders, Booked(o)
    PROVE  Booked(o)'
<1>1. ASSUME NEW w \in Workers, NEW p \in Orders, Begin(w, p) PROVE funded' = funded
  BY <1>1, BeginStarts DEF Start
<1>2. ASSUME NEW w \in Workers, Finish(w), funded[o] PROVE funded'[o]
  BY <1>2, FinishEffect
<1>3. ASSUME NEW p \in Orders, CustodyFunding(p), funded[o] PROVE funded'[o]
  BY <1>3 DEF CustodyFunding, TypeOK
<1>4. ASSUME \/ \E w \in Workers : Abort(w)
             \/ \E p \in Orders : WindowElapses(p)
             \/ \E s \in Sweepers : SweepLoad(s) \/ SweepCommit(s) \/ SweepAbort(s)
             \/ UNCHANGED vars
      PROVE  funded' = funded
  BY <1>4 DEF Abort, WindowElapses, SweepLoad, SweepCommit, SweepAbort, vars
<1> QED BY <1>1, <1>2, <1>3, <1>4 DEF Next, Booked

LEMMA FundedStep == TypeOK /\ FundedInv /\ [Next]_vars => FundedInv'
<1> SUFFICES ASSUME TypeOK, FundedInv, [Next]_vars PROVE FundedInv'
  OBVIOUS
<1> DEFINE Orders1 == \A o \in Orders : status[o] # "awaiting_payment" \/ intents[o] # {} => Booked(o)
           Jobs1   == \A w \in Workers : job[w] # Idle =>
                        IF job[w].op = "payment_callback" THEN job[w].order \notin Econfirm
                                                          ELSE Booked(job[w].order)
           Sweeps1 == \A s \in Sweepers, o \in Orders : Sweeps(s, o) => Booked(o)
<1>b. \A o \in Orders : Booked(o) => Booked(o)'
  BY BookedKept
<1>j. \A w \in Workers : job[w] # Idle => job[w].order \in Orders
  BY ServingType
<1>i. \A w \in Workers : job' = [job EXCEPT ![w] = Idle] => Jobs1'
  BY <1>b, <1>j DEF FundedInv, TypeOK
<1>u. job' = job => Jobs1'
  BY <1>b, <1>j DEF FundedInv
<1>v. due' = due => Sweeps1'
  BY <1>b DEF FundedInv, Sweeps
<1>w. \A s \in Sweepers : due' = [due EXCEPT ![s] = NothingDue] => Sweeps1'
  BY <1>b DEF FundedInv, Sweeps, NothingDue, NotDue, TypeOK
<1>k. (\A o \in Orders : Keeps(o)) => Orders1'
  BY <1>b DEF FundedInv, Keeps
<1>1. ASSUME NEW w \in Workers, NEW o \in Orders, Begin(w, o) PROVE FundedInv'
  <2>1. PICK op \in Ops, i \in 0..MaxCases : Start(w, o, op, i) /\ ReadFresh(op, o)
    BY <1>1, BeginStarts
  <2>2. UNCHANGED <<status, intents, funded, due>>
    BY <2>1 DEF Start
  <2>3. IF op = "payment_callback" THEN o \notin Econfirm ELSE Booked(o)
    BY <2>1 DEF ReadFresh, FundedInv
  <2>4. /\ job'[w] # Idle => job'[w].op = op /\ job'[w].order = o
        /\ \A v \in Workers : v # w => job'[v] = job[v]
    BY <2>1 DEF Start, TypeOK
  <2>5. Jobs1'
    BY <2>2, <2>3, <2>4, <1>b, <1>j DEF FundedInv
  <2>6. Orders1'
    BY <2>2, <1>k DEF Keeps
  <2> HIDE DEF Orders1, Jobs1, Sweeps1
  <2>7. FundedInv' <=> Orders1' /\ Jobs1' /\ Sweeps1'
    BY DEF FundedInv, Orders1, Jobs1, Sweeps1
  <2> QED BY <2>2, <2>5, <2>6, <2>7, <1>v
<1>2. ASSUME NEW w \in Workers, Finish(w) PROVE FundedInv'
  <2>1. PICK o \in Orders : job[w] # Idle /\ o = job[w].order
    BY <1>2, FinishEffect, <1>j
  <2>2. job' = [job EXCEPT ![w] = Idle] /\ due' = due
    BY <1>2, FinishEffect
  <2>3. \A p \in Orders : p # o => Keeps(p)
    BY <1>2, <2>1, FinishEffect
  <2>4. Booked(o)'
    <3>1. CASE job[w].op = "payment_callback"
      <4>1. o \notin Econfirm
        BY <2>1, <3>1 DEF FundedInv
      <4>2. funded'[o] = (funded[o] \/ ~Production)
        BY <1>2, <2>1, <3>1, FinishEffect
      <4> QED BY <4>1, <4>2, ConstantsAssumption DEF Booked
    <3>2. CASE job[w].op # "payment_callback"
      BY <2>1, <3>2, <1>b DEF FundedInv
    <3> QED BY <3>1, <3>2
  <2>5. Orders1'
    BY <2>4, <2>3, <1>b DEF FundedInv, Keeps
  <2> QED BY <2>5, <2>2, <1>i, <1>v DEF FundedInv
<1>3. ASSUME NEW w \in Workers, Abort(w) PROVE FundedInv'
  <2>1. job' = [job EXCEPT ![w] = Idle] /\ due' = due /\ \A o \in Orders : Keeps(o)
    BY <1>3 DEF Abort, Keeps
  <2> QED BY <2>1, <1>i, <1>v, <1>k DEF FundedInv
<1>4. ASSUME NEW o \in Orders, CustodyFunding(o) PROVE FundedInv'
  <2>1. job' = job /\ due' = due /\ Booked(o)'
    BY <1>4 DEF CustodyFunding, Booked, TypeOK
  <2>2. \A p \in Orders : p # o => Keeps(p)
    BY <1>4 DEF CustodyFunding, Enter, Keeps, TypeOK
  <2>3. Orders1'
    BY <2>1, <2>2, <1>b DEF FundedInv, Keeps
  <2> QED BY <2>1, <2>3, <1>u, <1>v DEF FundedInv
<1>5. ASSUME (\E o \in Orders : WindowElapses(o)) \/ UNCHANGED vars PROVE FundedInv'
  <2>1. job' = job /\ due' = due /\ \A o \in Orders : Keeps(o)
    BY <1>5 DEF WindowElapses, vars, Keeps
  <2> QED BY <2>1, <1>u, <1>v, <1>k DEF FundedInv
<1>6. ASSUME NEW s \in Sweepers, SweepLoad(s) PROVE FundedInv'
  <2>1. job' = job /\ \A o \in Orders : Keeps(o)
    BY <1>6 DEF SweepLoad, Keeps
  <2>2. \A o \in Orders : status[o] \in Timed => Booked(o)
    BY DEF FundedInv, Timed
  <2>3. \A t \in Sweepers, o \in Orders :
           Sweeps(t, o)' => Sweeps(t, o) \/ status[o] \in Timed
    BY <1>6 DEF SweepLoad, Sweeps, NotDue, TypeOK
  <2>4. Sweeps1'
    BY <2>2, <2>3, <1>b DEF FundedInv
  <2> QED BY <2>1, <2>4, <1>u, <1>k DEF FundedInv
<1>7. ASSUME NEW s \in Sweepers, SweepCommit(s) PROVE FundedInv'
  <2>1. /\ due' = [due EXCEPT ![s] = NothingDue] /\ job' = job
        /\ \A o \in Orders : ~Sweeps(s, o) => Keeps(o)
    BY <1>7, SweepEffect
  <2>2. \A o \in Orders : Sweeps(s, o) => Booked(o)'
    BY <1>b DEF FundedInv
  <2>3. Orders1'
    BY <2>1, <2>2, <1>b DEF FundedInv, Keeps
  <2> QED BY <2>1, <2>3, <1>u, <1>w DEF FundedInv
<1>8. ASSUME NEW s \in Sweepers, SweepAbort(s) PROVE FundedInv'
  <2>1. /\ due' = [due EXCEPT ![s] = NothingDue] /\ job' = job
        /\ \A o \in Orders : Keeps(o)
    BY <1>8 DEF SweepAbort, Keeps
  <2> QED BY <2>1, <1>u, <1>w, <1>k DEF FundedInv
<1> QED BY <1>1, <1>2, <1>3, <1>4, <1>5, <1>6, <1>7, <1>8 DEF Next

\* However sessions overlap, no payout is queued for an order whose money the
\* escrow does not hold (but for simulated custody in production, which books none).
THEOREM FundedCorrect == Spec => []PayoutsAreFunded
<1>1. Init => TypeOK /\ FundedInv
  <2>1. Init => TypeOK
    BY NoCaseType, StatusNames, ConstantsAssumption
       DEF Init, TypeOK, NothingDue, NotDue, Found
  <2> QED BY <2>1 DEF Init, FundedInv, Sweeps, NothingDue, NotDue
<1>2. TypeOK /\ FundedInv /\ [Next]_vars => (TypeOK /\ FundedInv)'
  BY NextType, FundedStep
<1>3. FundedInv => PayoutsAreFunded
  BY DEF FundedInv, PayoutsAreFunded, Booked
<1> QED BY <1>1, <1>2, <1>3, PTL DEF Spec

-----------------------------------------------------------------------------
(***************************************************************************)
(* A return case has a dispute, however many sessions overlap.             *)
(***************************************************************************)
\* The statuses in which OpenCaseHasDispute asks for a dispute.
NeedsCase == OpenCase \cup {"escalated_admin_review", "resolved_release",
                            "resolved_refund", "resolved_split"}

\* The requests that only start on an order in one of these statuses.
CaseOps == {"sent_back", "received", "seller_refund", "seller_ship",
            "reconfirm_accept", "reconfirm_reject", "escalate", "admin_refund",
            "admin_release", "admin_split", "confirm_buyer", "confirm_seller"}

Disputed(o) == latest[o] # 0

\* A dispute is filed by the commit that opens the case, and never removed; so a
\* session that saw the case open writes to an order that still has one.
CaseInv ==
    /\ \A o \in Orders : status[o] \in NeedsCase \/ filed[o] > 0 => Disputed(o)
    /\ \A w \in Workers : job[w] # Idle /\ job[w].op \in CaseOps
                            => Disputed(job[w].order)
    /\ \A s \in Sweepers, o \in Orders : due[s][o].from \in OpenCase => Disputed(o)

-----------------------------------------------------------------------------
\* The guard of a request about a case asks for one of the case's statuses.
LEMMA BeginCase ==
    ASSUME TypeOK, NEW w \in Workers, NEW o \in Orders, Begin(w, o)
    PROVE  \E op \in Ops, i \in 0..MaxCases :
              Start(w, o, op, i) /\ (op \in CaseOps => status[o] \in NeedsCase)
<1> DEFINE Begun(op, i) == Start(w, o, op, i) /\ (op \in CaseOps => status[o] \in NeedsCase)
<1>1. latest[o] \in 0..MaxCases /\ 0 \in 0..MaxCases /\ CaseId \subseteq 0..MaxCases
  BY ConstantsAssumption DEF TypeOK, CaseId
<1>2. ASSUME NEW op \in Ops \ CaseOps, Start(w, o, op, 0)
      PROVE  \E q \in Ops, i \in 0..MaxCases : Begun(q, i)
  BY <1>1, <1>2
<1>3. ASSUME NEW op \in CaseOps, NEW i \in 0..MaxCases, Start(w, o, op, i), status[o] \in NeedsCase
      PROVE  \E q \in Ops, j \in 0..MaxCases : Begun(q, j)
  BY <1>3 DEF CaseOps, Ops
<1>4. {"payment_callback", "dispatch", "arrival", "otp_give", "otp_withhold",
       "report", "report_other"} \subseteq Ops \ CaseOps
  BY DEF Ops, CaseOps
<1>5. /\ SentBackGuard(o) \/ ReceivedGuard(o) \/ ReconfirmGuard(o) \/ EscalateGuard(o)
         \/ SellerActionGuard(o, "refund") \/ SellerActionGuard(o, "ship") \/ ConfirmGuard(o)
            => status[o] \in NeedsCase
      /\ \A i \in CaseId : AdminGuard(o, i) => status[o] \in NeedsCase
  BY DEF SentBackGuard, ReceivedGuard, ReconfirmGuard, EscalateGuard, SellerActionGuard,
         ConfirmGuard, AdminGuard, NeedsCase, OpenCase
<1>6. CASE \E op \in Ops \ CaseOps : Start(w, o, op, 0)
  BY <1>6, <1>2
<1>7. CASE \E op \in CaseOps, i \in 0..MaxCases : Start(w, o, op, i) /\ status[o] \in NeedsCase
  BY <1>7, <1>3
<1>8. (\E op \in Ops \ CaseOps : Start(w, o, op, 0)) \/
      (\E op \in CaseOps, i \in 0..MaxCases : Start(w, o, op, i) /\ status[o] \in NeedsCase)
  <2>1. {"sent_back", "received", "seller_refund", "seller_ship", "reconfirm_accept",
         "reconfirm_reject", "escalate", "admin_refund", "admin_release", "admin_split",
         "confirm_buyer", "confirm_seller"} \subseteq CaseOps
    BY DEF CaseOps
  <2> QED BY <2>1, <1>1, <1>4, <1>5 DEF Begin
<1> QED BY <1>6, <1>7, <1>8

\* A request other than a report files nothing, and only a request about a case
\* enters one of the case's statuses; a report leaves the order with a dispute.
LEMMA FinishCase ==
    ASSUME TypeOK, NEW w \in Workers, Finish(w)
    PROVE  /\ \A p \in Orders : p # job[w].order =>
                latest'[p] = latest[p] /\ filed'[p] = filed[p]
           /\ \/ /\ latest' = latest /\ filed' = filed
                 /\ status'[job[w].order] \in NeedsCase => job[w].op \in CaseOps
              \/ (filed[job[w].order] > 0 => Disputed(job[w].order))
                    => latest'[job[w].order] # 0
<1> DEFINE o == job[w].order
<1>1. o \in Orders
  BY FinishEffect, ServingType
<1>2. CASE ReportFunctionalIssue(w)
  <2>1. PICK l \in {filed[o] + 1} \cup (IF job[w].filed < filed[o] THEN {latest[o]} ELSE {}) :
           latest' = [latest EXCEPT ![o] = l]
    BY <1>2 DEF ReportFunctionalIssue
  <2>2. filed' = [filed EXCEPT ![o] = filed[o] + 1]
    BY <1>2 DEF ReportFunctionalIssue
  <2>3. filed[o] \in Nat /\ (job[w] # Idle => job[w].filed \in Nat)
    BY <1>1, ServingType, ConstantsAssumption DEF TypeOK, Request
  <2>4. latest'[o] = l /\ \A p \in Orders : p # o => latest'[p] = latest[p] /\ filed'[p] = filed[p]
    BY <1>1, <2>1, <2>2 DEF TypeOK
  <2>5. (filed[o] > 0 => Disputed(o)) => l # 0
    BY <2>1, <2>3, FinishEffect DEF Disputed
  <2> QED BY <2>4, <2>5 DEF Disputed
<1>3. CASE PaymentCallback(w) \/ Dispatch(w) \/ Arrival(w) \/ OtpGive(w) \/ OtpWithhold(w)
  <2>1. latest' = latest /\ filed' = filed
    BY <1>3 DEF PaymentCallback, Dispatch, Arrival, OtpGive, OtpWithhold
  <2>2. status'[o] \in {"locked", "out_for_delivery", "at_door_pending_inspection",
                        "hold_24h", "released", "refunded_buyer"}
    <3>1. \A st : Enter(o, st) => status'[o] = st
      BY <1>1 DEF Enter, TypeOK
    <3>2. CASE PaymentCallback(w)
      BY <3>1, <3>2 DEF PaymentCallback
    <3>3. CASE Dispatch(w) \/ Arrival(w)
      BY <3>1, <3>3 DEF Dispatch, Arrival
    <3>4. CASE OtpGive(w)
      BY <3>1, <3>4 DEF OtpGive
    <3>5. CASE OtpWithhold(w)
      BY <3>1, <3>5 DEF OtpWithhold
    <3> QED BY <1>3, <3>2, <3>3, <3>4, <3>5
  <2> QED BY <2>1, <2>2 DEF NeedsCase, OpenCase
<1>4. CASE BuyerSentBack(w) \/ SellerReceived(w) \/ SellerRefund(w) \/ SellerShip(w)
           \/ ReconfirmAccept(w) \/ ReconfirmReject(w) \/ EscalateDispute(w)
           \/ AdminRefund(w) \/ AdminRelease(w) \/ AdminSplit(w)
           \/ ConfirmResolvedBuyer(w) \/ ConfirmResolvedSeller(w)
  <2>1. latest' = latest /\ filed' = filed
    BY <1>4 DEF BuyerSentBack, SellerReceived, SellerRefund, SellerShip, ReconfirmAccept,
                ReconfirmReject, EscalateDispute, AdminRefund, AdminRelease, AdminSplit,
                AdminDecide, ConfirmResolvedBuyer, ConfirmResolvedSeller, ConfirmResolved
  <2>2. job[w].op \in CaseOps
    BY <1>4 DEF BuyerSentBack, SellerReceived, SellerRefund, SellerShip, ReconfirmAccept,
                ReconfirmReject, EscalateDispute, AdminRefund, AdminRelease, AdminSplit,
                AdminDecide, ConfirmResolvedBuyer, ConfirmResolvedSeller, ConfirmResolved,
                Serving, CaseOps
  <2> QED BY <2>1, <2>2
<1> QED BY <1>2, <1>3, <1>4 DEF Finish

\* The only ruling that enters one of the case's statuses is the one on a return
\* that is on its way.
Ruled(s, o) == Sweeps(s, o) /\ status'[o] = RulingFor(s, o).to

LEMMA RuledCase ==
    ASSUME TypeOK, NEW s \in Sweepers, NEW o \in Orders,
           Ruled(s, o), status'[o] \in NeedsCase
    PROVE  due[s][o].from \in OpenCase
<1>1. due[s][o].from \in Timed
  BY DEF TypeOK, Found, Sweeps, Ruled
<1>2. CASE due[s][o].from \in {"disputed_functional", "return_in_transit"}
  BY <1>2 DEF OpenCase
<1>3. CASE due[s][o].from \in {"locked", "at_door_pending_inspection", "hold_24h"}
  <2>1. Ruling[due[s][o].from].to \in {"refunded_buyer", "released"}
    BY <1>3 DEF Ruling, NoDispatchTimeout, AtDoorTimeout, HoldAutoRelease
  <2> QED BY <2>1 DEF Ruled, RulingFor, NeedsCase, OpenCase
<1> QED BY <1>1, <1>2, <1>3 DEF Timed

LEMMA CaseStep == TypeOK /\ CaseInv /\ [Next]_vars => CaseInv'
<1> SUFFICES ASSUME TypeOK, CaseInv, [Next]_vars PROVE CaseInv'
  OBVIOUS
<1> DEFINE Orders1 == \A o \in Orders : status[o] \in NeedsCase \/ filed[o] > 0 => Disputed(o)
           Jobs1   == \A w \in Workers : job[w] # Idle /\ job[w].op \in CaseOps
                                            => Disputed(job[w].order)
           Sweeps1 == \A s \in Sweepers, o \in Orders :
                         due[s][o].from \in OpenCase => Disputed(o)
<1>s. CaseInv <=> Orders1 /\ Jobs1 /\ Sweeps1
  BY DEF CaseInv
<1>p. CaseInv' <=> Orders1' /\ Jobs1' /\ Sweeps1'
  BY DEF CaseInv
<1>j. \A w \in Workers : job[w] # Idle => job[w].order \in Orders
  BY ServingType
<1>k. UNCHANGED <<latest, filed, status>> => Orders1'
  BY <1>s DEF Disputed
<1>i. ASSUME NEW w \in Workers, job' = [job EXCEPT ![w] = Idle],
             \A o \in Orders : Disputed(o) => Disputed(o)'
      PROVE  Jobs1'
  BY <1>i, <1>s, <1>j DEF TypeOK
<1>d. ASSUME NEW s \in Sweepers, due' = [due EXCEPT ![s] = NothingDue], UNCHANGED latest
      PROVE  Sweeps1'
  <2>1. "none" \notin OpenCase
    BY DEF OpenCase
  <2> QED BY <2>1, <1>d, <1>s DEF TypeOK, NothingDue, NotDue, Disputed
<1>1. ASSUME NEW w \in Workers, NEW o \in Orders, Begin(w, o) PROVE CaseInv'
  <2>1. PICK op \in Ops, i \in 0..MaxCases :
           Start(w, o, op, i) /\ (op \in CaseOps => status[o] \in NeedsCase)
    BY <1>1, BeginCase
  <2>2. UNCHANGED <<latest, filed, status, due>>
    BY <2>1 DEF Start
  <2>3. /\ job'[w].op = op /\ job'[w].order = o
        /\ \A v \in Workers : v # w => job'[v] = job[v]
    BY <2>1 DEF Start, TypeOK
  <2>4. Jobs1'
    BY <2>1, <2>2, <2>3, <1>s DEF Disputed
  <2>5. Sweeps1'
    BY <2>2, <1>s DEF Disputed
  <2> QED BY <2>2, <2>4, <2>5, <1>k, <1>p
<1>2. ASSUME NEW w \in Workers, Finish(w) PROVE CaseInv'
  <2>1. PICK o \in Orders : job[w] # Idle /\ o = job[w].order
    BY <1>2, FinishEffect, <1>j
  <2>2. job' = [job EXCEPT ![w] = Idle] /\ due' = due
    BY <1>2, FinishEffect
  <2>3. \A p \in Orders : p # o =>
           latest'[p] = latest[p] /\ filed'[p] = filed[p] /\ status'[p] = status[p]
    BY <1>2, <2>1, FinishEffect, FinishCase DEF Keeps
  <2>4. \/ /\ latest' = latest /\ filed' = filed
           /\ status'[o] \in NeedsCase => job[w].op \in CaseOps
        \/ latest'[o] # 0
    BY <1>2, <2>1, <1>s, FinishCase
  <2>5. \A p \in Orders : Disputed(p) => Disputed(p)'
    BY <2>3, <2>4 DEF Disputed
  <2>6. job[w].op \in CaseOps => Disputed(o)
    BY <2>1, <1>s
  <2>7. Orders1'
    BY <2>3, <2>4, <2>6, <1>s DEF Disputed
  <2>8. Sweeps1'
    BY <2>2, <2>5, <1>s
  <2> QED BY <2>2, <2>5, <2>7, <2>8, <1>i, <1>p
<1>3. ASSUME NEW w \in Workers, Abort(w) PROVE CaseInv'
  <2>1. job' = [job EXCEPT ![w] = Idle] /\ UNCHANGED <<latest, filed, status, due>>
    BY <1>3 DEF Abort
  <2>2. Sweeps1'
    BY <2>1, <1>s DEF Disputed
  <2> QED BY <2>1, <2>2, <1>i, <1>k, <1>p DEF Disputed
<1>4. ASSUME NEW o \in Orders, CustodyFunding(o) PROVE CaseInv'
  <2>1. UNCHANGED <<latest, filed, job, due>>
    BY <1>4 DEF CustodyFunding
  <2>2. \A p \in Orders : status'[p] = status[p] \/ status'[p] = "locked"
    BY <1>4 DEF CustodyFunding, Enter, TypeOK
  <2>3. "locked" \notin NeedsCase
    BY DEF NeedsCase, OpenCase
  <2> QED BY <2>1, <2>2, <2>3, <1>s, <1>p DEF Disputed
<1>5. ASSUME (\E o \in Orders : WindowElapses(o)) \/ UNCHANGED vars PROVE CaseInv'
  <2>1. UNCHANGED <<latest, filed, status, job, due>>
    BY <1>5 DEF WindowElapses, vars
  <2> QED BY <2>1, <1>s, <1>p DEF Disputed
<1>6. ASSUME NEW s \in Sweepers, SweepLoad(s) PROVE CaseInv'
  <2>1. UNCHANGED <<latest, filed, status, job>>
    BY <1>6 DEF SweepLoad
  <2>2. \A t \in Sweepers, o \in Orders :
           due'[t][o].from \in {due[t][o].from, status[o], "none"}
    BY <1>6 DEF SweepLoad, NotDue, TypeOK
  <2>3. "none" \notin OpenCase /\ OpenCase \subseteq NeedsCase
    BY DEF OpenCase, NeedsCase
  <2>4. Sweeps1'
    BY <2>1, <2>2, <2>3, <1>s DEF Disputed
  <2> QED BY <2>1, <2>4, <1>k, <1>s, <1>p DEF Disputed
<1>7. ASSUME NEW s \in Sweepers, SweepCommit(s) PROVE CaseInv'
  <2>1. /\ due' = [due EXCEPT ![s] = NothingDue]
        /\ UNCHANGED <<latest, filed, job>>
    BY <1>7 DEF SweepCommit
  <2>2. \A o \in Orders : status'[o] = status[o] \/ Ruled(s, o)
    BY <1>7 DEF SweepCommit, Ruled
  <2>3. ASSUME NEW o \in Orders, Ruled(s, o), status'[o] \in NeedsCase PROVE Disputed(o)
    BY <2>3, RuledCase, <1>s
  <2>4. Orders1'
    BY <2>1, <2>2, <2>3, <1>s DEF Disputed
  <2>5. Jobs1'
    BY <2>1, <1>s DEF Disputed
  <2> QED BY <2>1, <2>4, <2>5, <1>d, <1>p
<1>8. ASSUME NEW s \in Sweepers, SweepAbort(s) PROVE CaseInv'
  <2>1. /\ due' = [due EXCEPT ![s] = NothingDue]
        /\ UNCHANGED <<latest, filed, status, job>>
    BY <1>8 DEF SweepAbort
  <2>2. Jobs1'
    BY <2>1, <1>s DEF Disputed
  <2> QED BY <2>1, <2>2, <1>d, <1>k, <1>p
<1> QED BY <1>1, <1>2, <1>3, <1>4, <1>5, <1>6, <1>7, <1>8 DEF Next

\* However sessions overlap, an order in a return case, under review or decided
\* has a dispute that the next handler finds.
THEOREM CaseCorrect == Spec => []OpenCaseHasDispute
<1>1. Init => TypeOK /\ CaseInv
  <2>1. Init => TypeOK
    BY NoCaseType, StatusNames, ConstantsAssumption
       DEF Init, TypeOK, NothingDue, NotDue, Found
  <2> QED BY <2>1 DEF Init, CaseInv, NeedsCase, OpenCase, NothingDue, NotDue
<1>2. TypeOK /\ CaseInv /\ [Next]_vars => (TypeOK /\ CaseInv)'
  BY NextType, CaseStep
<1>3. CaseInv => OpenCaseHasDispute
  BY DEF CaseInv, OpenCaseHasDispute, NeedsCase, Disputed
<1> QED BY <1>1, <1>2, <1>3, PTL DEF Spec

-----------------------------------------------------------------------------
(***************************************************************************)
(* When the sessions on one order take turns: the status and the payouts   *)
(* agree, the order keeps EscrowPromise, and its one dispute goes along    *)
(* with its status.                                                        *)
(***************************************************************************)
\* At most one session is open on an order.
Exclusive ==
    \A o \in Orders :
        /\ \A v, w \in Workers : Holds(v, o) /\ Holds(w, o) => v = w
        /\ \A s, t \in Sweepers : Sweeps(s, o) /\ Sweeps(t, o) => s = t
        /\ \A w \in Workers, s \in Sweepers : ~(Holds(w, o) /\ Sweeps(s, o))

\* What an open session read is still so when it commits.
Fresh ==
    /\ \A w \in Workers, o \in Orders : Holds(w, o) => ReadFresh(job[w].op, o)
    /\ \A s \in Sweepers, o \in Orders : Sweeps(s, o) => status[o] \in Timed

SerialInv == TypeOK /\ Exclusive /\ Fresh /\ SettlementAgrees

-----------------------------------------------------------------------------
LEMMA FreshKept ==
    ASSUME NEW o \in Orders, NEW op, ReadFresh(op, o), status'[o] = status[o]
    PROVE  ReadFresh(op, o)'
BY DEF ReadFresh

\* The sessions of a step that opens none stay exclusive.
LEMMA ExclusiveKept ==
    ASSUME Exclusive,
           \A w \in Workers, o \in Orders : Holds(w, o)' => Holds(w, o),
           \A s \in Sweepers, o \in Orders : Sweeps(s, o)' => Sweeps(s, o)
    PROVE  Exclusive'
BY DEF Exclusive

LEMMA HoldsAfter ==
    ASSUME TypeOK, NEW w \in Workers, job' = [job EXCEPT ![w] = Idle]
    PROVE  \A v \in Workers, o \in Orders :
              Holds(v, o)' => v # w /\ Holds(v, o) /\ job'[v] = job[v]
BY DEF Holds, TypeOK

LEMMA SweepsAfter ==
    ASSUME TypeOK, NEW s \in Sweepers, due' = [due EXCEPT ![s] = NothingDue]
    PROVE  \A t \in Sweepers, o \in Orders : Sweeps(t, o)' => t # s /\ Sweeps(t, o)
BY DEF Sweeps, NothingDue, NotDue, TypeOK

LEMMA SerialInit == Init => SerialInv
<1> SUFFICES ASSUME Init PROVE SerialInv
  OBVIOUS
<1>1. TypeOK
  BY NoCaseType, StatusNames, ConstantsAssumption
     DEF Init, TypeOK, NothingDue, NotDue, Found
<1>2. Exclusive /\ Fresh
  BY DEF Init, Exclusive, Fresh, Holds, Sweeps, NothingDue, NotDue
<1>3. SettlementAgrees
  BY DEF Init, SettlementAgrees, Released, Refunded
<1> QED BY <1>1, <1>2, <1>3 DEF SerialInv

LEMMA SerialExclusive ==
    ASSUME Overlap = FALSE, SerialInv, [Next]_vars
    PROVE  Exclusive'
<1>t. TypeOK /\ Exclusive
  BY DEF SerialInv
<1>1. ASSUME NEW w \in Workers, NEW o \in Orders, Begin(w, o) PROVE Exclusive'
  <2>1. PICK op \in Ops, i \in 0..MaxCases : Start(w, o, op, i) /\ ReadFresh(op, o)
    BY <1>t, <1>1, BeginStarts
  <2>2. ~Busy(o) /\ due' = due
    BY <2>1 DEF Start
  <2>3. \A v \in Workers, p \in Orders : Holds(v, p)' => Holds(v, p) \/ (v = w /\ p = o)
    BY <1>t, <2>1 DEF Start, Holds, TypeOK
  <2>4. \A s \in Sweepers, p \in Orders : Sweeps(s, p)' <=> Sweeps(s, p)
    BY <2>2 DEF Sweeps
  <2> QED BY <1>t, <2>2, <2>3, <2>4 DEF Exclusive, Busy
<1>2. ASSUME NEW w \in Workers, Finish(w) \/ Abort(w) PROVE Exclusive'
  <2>1. job' = [job EXCEPT ![w] = Idle] /\ due' = due
    BY <1>t, <1>2, FinishEffect DEF Abort
  <2> QED BY <1>t, <2>1, HoldsAfter, ExclusiveKept DEF Sweeps
<1>3. ASSUME \/ \E o \in Orders : CustodyFunding(o) \/ WindowElapses(o)
             \/ UNCHANGED vars
      PROVE  Exclusive'
  <2>1. job' = job /\ due' = due
    BY <1>3 DEF CustodyFunding, WindowElapses, vars
  <2> QED BY <1>t, <2>1, ExclusiveKept DEF Sweeps, Holds
<1>4. ASSUME NEW s \in Sweepers, SweepLoad(s) PROVE Exclusive'
  <2>1. \A t \in Sweepers, o \in Orders :
           Sweeps(t, o)' => Sweeps(t, o) \/ (t = s /\ ~Busy(o))
    BY <1>t, <1>4 DEF SweepLoad, Sweeps, NotDue, TypeOK
  <2>2. job' = job
    BY <1>4 DEF SweepLoad
  <2> QED BY <1>t, <2>1, <2>2 DEF Exclusive, Busy, Holds
<1>5. ASSUME NEW s \in Sweepers, SweepCommit(s) \/ SweepAbort(s) PROVE Exclusive'
  <2>1. job' = job /\ due' = [due EXCEPT ![s] = NothingDue]
    BY <1>5 DEF SweepCommit, SweepAbort
  <2> QED BY <1>t, <2>1, SweepsAfter, ExclusiveKept DEF Holds
<1> QED BY <1>1, <1>2, <1>3, <1>4, <1>5 DEF Next

LEMMA SerialFresh ==
    ASSUME Overlap = FALSE, SerialInv, [Next]_vars
    PROVE  Fresh'
<1>t. TypeOK /\ Exclusive /\ Fresh
  BY DEF SerialInv
<1>1. ASSUME NEW w \in Workers, NEW o \in Orders, Begin(w, o) PROVE Fresh'
  <2>1. PICK op \in Ops, i \in 0..MaxCases : Start(w, o, op, i) /\ ReadFresh(op, o)
    BY <1>t, <1>1, BeginStarts
  <2>2. due' = due /\ status' = status
    BY <2>1 DEF Start
  <2>3. \A v \in Workers, p \in Orders : Holds(v, p)' =>
           \/ Holds(v, p) /\ job'[v] = job[v]
           \/ v = w /\ p = o /\ job'[v].op = op
    BY <1>t, <2>1 DEF Start, Holds, TypeOK
  <2> QED BY <1>t, <2>1, <2>2, <2>3 DEF Fresh, Sweeps, ReadFresh
<1>2. ASSUME NEW w \in Workers, Finish(w) PROVE Fresh'
  <2>1. PICK o \in Orders : job[w] # Idle /\ o = job[w].order
    BY <1>t, <1>2, FinishEffect, ServingType
  <2>2. /\ job' = [job EXCEPT ![w] = Idle] /\ due' = due
        /\ \A p \in Orders : p # o => status'[p] = status[p]
    BY <1>t, <1>2, <2>1, FinishEffect DEF Keeps
  <2>3. \A v \in Workers, p \in Orders : Holds(v, p)' =>
           p # o /\ Holds(v, p) /\ job'[v] = job[v]
    <3>1. Holds(w, o)
      BY <2>1 DEF Holds
    <3>2. \A v \in Workers, p \in Orders :
             Holds(v, p)' => v # w /\ Holds(v, p) /\ job'[v] = job[v]
      BY <1>t, <2>2, HoldsAfter
    <3> QED BY <1>t, <3>1, <3>2 DEF Exclusive
  <2>4. \A s \in Sweepers, p \in Orders : Sweeps(s, p)' => p # o /\ Sweeps(s, p)
    BY <1>t, <2>1, <2>2 DEF Exclusive, Holds, Sweeps
  <2> QED BY <1>t, <2>2, <2>3, <2>4 DEF Fresh, ReadFresh
<1>3. ASSUME NEW w \in Workers, Abort(w) PROVE Fresh'
  <2>1. job' = [job EXCEPT ![w] = Idle] /\ due' = due /\ status' = status
    BY <1>3 DEF Abort
  <2>2. \A v \in Workers, p \in Orders : Holds(v, p)' => Holds(v, p) /\ job'[v] = job[v]
    BY <1>t, <2>1, HoldsAfter
  <2>3. \A s \in Sweepers, p \in Orders : Sweeps(s, p)' <=> Sweeps(s, p)
    BY <2>1 DEF Sweeps
  <2> QED BY <1>t, <2>1, <2>2, <2>3 DEF Fresh, ReadFresh
<1>4. ASSUME NEW o \in Orders, CustodyFunding(o) PROVE Fresh'
  <2>1. job' = job /\ due' = due /\ o \in Econfirm
    BY <1>4 DEF CustodyFunding
  <2>2. \A p \in Orders : status'[p] = status[p] \/ (p = o /\ status[p] = "awaiting_payment")
    BY <1>t, <1>4 DEF CustodyFunding, Enter, TypeOK
  <2>3. \A w \in Workers : Holds(w, o) => status[o] # "awaiting_payment"
    BY <1>t, <2>1 DEF Fresh, ReadFresh
  <2>4. "awaiting_payment" \notin Timed
    BY DEF Timed
  <2>5. \A s \in Sweepers, p \in Orders : Sweeps(s, p) => status'[p] = status[p]
    BY <1>t, <2>2, <2>4 DEF Fresh
  <2>6. \A w \in Workers, p \in Orders : Holds(w, p) => status'[p] = status[p]
    BY <2>2, <2>3
  <2> QED BY <1>t, <2>1, <2>5, <2>6 DEF Fresh, ReadFresh, Holds, Sweeps
<1>5. ASSUME (\E o \in Orders : WindowElapses(o)) \/ UNCHANGED vars PROVE Fresh'
  <2>1. job' = job /\ due' = due /\ status' = status
    BY <1>5 DEF WindowElapses, vars
  <2> QED BY <1>t, <2>1 DEF Fresh, ReadFresh, Holds, Sweeps
<1>6. ASSUME NEW s \in Sweepers, SweepLoad(s) PROVE Fresh'
  <2>1. job' = job /\ status' = status
    BY <1>6 DEF SweepLoad
  <2>2. \A t \in Sweepers, o \in Orders :
           Sweeps(t, o)' => Sweeps(t, o) \/ status[o] \in Timed
    BY <1>t, <1>6 DEF SweepLoad, Sweeps, NotDue, TypeOK
  <2> QED BY <1>t, <2>1, <2>2 DEF Fresh, ReadFresh, Holds
<1>7. ASSUME NEW s \in Sweepers, SweepCommit(s) PROVE Fresh'
  <2>1. /\ job' = job /\ due' = [due EXCEPT ![s] = NothingDue]
        /\ \A o \in Orders : ~Sweeps(s, o) => status'[o] = status[o]
    BY <1>t, <1>7, SweepEffect DEF Keeps
  <2>2. \A t \in Sweepers, o \in Orders : Sweeps(t, o)' => Sweeps(t, o) /\ ~Sweeps(s, o)
    BY <1>t, <2>1, SweepsAfter DEF Exclusive
  <2>3. \A w \in Workers, o \in Orders : Holds(w, o) => ~Sweeps(s, o)
    BY <1>t DEF Exclusive
  <2> QED BY <1>t, <2>1, <2>2, <2>3 DEF Fresh, ReadFresh, Holds
<1>8. ASSUME NEW s \in Sweepers, SweepAbort(s) PROVE Fresh'
  <2>1. job' = job /\ due' = [due EXCEPT ![s] = NothingDue] /\ status' = status
    BY <1>8 DEF SweepAbort
  <2> QED BY <1>t, <2>1, SweepsAfter DEF Fresh, ReadFresh, Holds
<1> QED BY <1>1, <1>2, <1>3, <1>4, <1>5, <1>6, <1>7, <1>8 DEF Next

-----------------------------------------------------------------------------
\* An order's share of SettlementAgrees.
Agrees(o) ==
    /\ status[o] \in Released => PaysSeller(o)
    /\ status[o] \in Refunded => PaysBuyer(o)
    /\ status[o] = "resolved_split" => PaysBoth(o)
    /\ status[o] \notin Settled => intents[o] = {}

\* The first and only settlement of an order: it was open, nothing was queued.
LEMMA AgreesKept ==
    ASSUME NEW o \in Orders, Agrees(o),
           \/ Keeps(o)
           \/ status[o] \notin Settled
                /\ (Opens(o) \/ Releases(o) \/ Refunds(o) \/ Splits(o))
    PROVE  Agrees(o)'
<1>1. CASE Keeps(o)
  BY <1>1 DEF Keeps, Agrees, PaysSeller, PaysBuyer, PaysBoth
<1>2. CASE status[o] \notin Settled
  <2>1. intents[o] = {}
    BY <1>2 DEF Agrees
  <2>2. CASE Opens(o)
    BY <2>1, <2>2 DEF Opens, Agrees, Settled
  <2>3. CASE Releases(o)
    <3>1. PICK p \in FullRelease, i \in 0..MaxCases : intents'[o] = {Pay(p, i)}
      BY <2>1, <2>3 DEF Releases
    <3>2. status'[o] \in Released
      BY <2>3 DEF Releases
    <3> QED BY <3>1, <3>2, OutcomesDisjoint DEF Agrees, PaysSeller, Settled
  <2>4. CASE Refunds(o)
    <3>1. PICK p \in FullRefund, i \in 0..MaxCases : intents'[o] = {Pay(p, i)}
      BY <2>1, <2>4 DEF Refunds
    <3>2. status'[o] \in Refunded
      BY <2>4 DEF Refunds
    <3> QED BY <3>1, <3>2, OutcomesDisjoint DEF Agrees, PaysBuyer, Settled
  <2>5. CASE Splits(o)
    <3>1. PICK i \in 0..MaxCases : intents'[o] = {Pay(p, i) : p \in SplitPart}
      BY <2>1, <2>5 DEF Splits
    <3>2. status'[o] = "resolved_split"
      BY <2>5 DEF Splits
    <3> QED BY <3>1, <3>2, OutcomesDisjoint DEF Agrees, PaysBoth, Settled
  <2> QED BY <1>1, <1>2, <2>2, <2>3, <2>4, <2>5 DEF Keeps, Agrees
<1> QED BY <1>1, <1>2

\* What a step does to an order when sessions take turns: only an open order is
\* moved on, and only a paid one is settled.
LEMMA SerialEffect ==
    ASSUME Overlap = FALSE, SerialInv, [Next]_vars, NEW o \in Orders
    PROVE  \/ Keeps(o)
           \/ status[o] \notin Settled /\ Opens(o)
           \/ /\ status[o] \notin Settled \cup {"awaiting_payment"}
              /\ Releases(o) \/ Refunds(o) \/ Splits(o)
<1>t. TypeOK /\ Exclusive /\ Fresh
  BY DEF SerialInv
<1>1. ASSUME NEW w \in Workers, Finish(w)
      PROVE  \/ Keeps(o)
             \/ status[o] \notin Settled /\ Opens(o)
             \/ /\ status[o] \notin Settled \cup {"awaiting_payment"}
                /\ Releases(o) \/ Refunds(o) \/ Splits(o)
  <2>1. CASE o # job[w].order
    BY <1>t, <1>1, <2>1, FinishEffect
  <2>2. CASE o = job[w].order
    <3>1. Holds(w, o)
      BY <1>t, <1>1, <2>2, FinishEffect DEF Holds
    <3>2. /\ job[w].op \notin ConfirmOps => status[o] \notin Settled
          /\ job[w].op # "payment_callback" => status[o] # "awaiting_payment"
      BY <1>t, <3>1 DEF Fresh, ReadFresh
    <3> QED BY <1>t, <1>1, <2>2, <3>2, FinishEffect
  <2> QED BY <2>1, <2>2
<1>2. ASSUME NEW s \in Sweepers, SweepCommit(s)
      PROVE  \/ Keeps(o)
             \/ /\ status[o] \notin Settled \cup {"awaiting_payment"}
                /\ Opens(o) \/ Releases(o) \/ Refunds(o)
  <2>1. Sweeps(s, o) => status[o] \in Timed
    BY <1>t DEF Fresh
  <2>2. \A st \in Timed : st \notin Settled \cup {"awaiting_payment"}
    BY DEF Timed, Settled, Released, Refunded
  <2> QED BY <1>t, <1>2, <2>1, <2>2, SweepEffect
<1>3. ASSUME NEW p \in Orders, CustodyFunding(p)
      PROVE  Keeps(o) \/ (status[o] \notin Settled /\ Opens(o))
  <2>1. "locked" \in Statuses \ (Settled \cup {"awaiting_payment"})
    BY DEF Statuses, Timed, Settled, Released, Refunded
  <2>2. "awaiting_payment" \notin Settled
    BY DEF Settled, Released, Refunded
  <2> QED BY <1>t, <1>3, <2>1, <2>2 DEF CustodyFunding, Enter, Keeps, Opens, TypeOK
<1>4. ASSUME \/ \E w \in Workers, p \in Orders : Begin(w, p)
             \/ \E w \in Workers : Abort(w)
             \/ \E p \in Orders : WindowElapses(p)
             \/ \E s \in Sweepers : SweepLoad(s) \/ SweepAbort(s)
             \/ UNCHANGED vars
      PROVE  Keeps(o)
  <2>1. \A w \in Workers, p \in Orders : Begin(w, p) => status' = status /\ intents' = intents
    BY <1>t, BeginStarts DEF Start
  <2> QED BY <1>4, <2>1 DEF Abort, WindowElapses, SweepLoad, SweepAbort, vars, Keeps
<1> QED BY <1>1, <1>2, <1>3, <1>4 DEF Next

LEMMA SerialAgrees ==
    ASSUME Overlap = FALSE, SerialInv, [Next]_vars
    PROVE  SettlementAgrees'
<1>1. \A o \in Orders : Agrees(o)
  BY DEF SerialInv, SettlementAgrees, Agrees
<1>2. ASSUME NEW o \in Orders PROVE Agrees(o)'
  BY <1>1, SerialEffect, AgreesKept
<1> QED BY <1>2 DEF SettlementAgrees, Agrees

LEMMA SerialStep == Overlap = FALSE /\ SerialInv /\ [Next]_vars => SerialInv'
BY NextType, SerialExclusive, SerialFresh, SerialAgrees DEF SerialInv

\* When sessions take turns on an order, its status and its payouts tell the
\* same story: every guard is still true at the commit, so a handler or a sweep
\* rule settles an order that nothing settled before it.
THEOREM SettlementCorrect ==
    ASSUME Overlap = FALSE
    PROVE  Spec => []SettlementAgrees
<1>1. Init => SerialInv
  BY SerialInit
<1>2. SerialInv /\ [Next]_vars => SerialInv'
  BY SerialStep
<1>3. SerialInv => SettlementAgrees
  BY DEF SerialInv
<1> QED BY <1>1, <1>2, <1>3, PTL DEF Spec

-----------------------------------------------------------------------------
(***************************************************************************)
(* The order implements EscrowPromise: given SettlementAgrees, where the   *)
(* money is follows from the status.                                       *)
(***************************************************************************)
MoneyBy(st) ==
    IF st \in Released THEN "to_seller"
    ELSE IF st \in Refunded THEN "to_buyer"
    ELSE IF st = "resolved_split" THEN "shared"
    ELSE IF st = "awaiting_payment" THEN "unpaid" ELSE "held"

LEMMA SinglePurpose ==
    ASSUME NEW p, NEW q, NEW i, NEW j, {Pay(p, i)} = {Pay(q, j)}
    PROVE  p = q
<1>1. Pay(p, i) = Pay(q, j)
  OBVIOUS
<1> QED BY <1>1 DEF Pay

LEMMA SplitNotSingle ==
    ASSUME NEW q \in FullRelease \cup FullRefund, NEW i, NEW j
    PROVE  {Pay(p, i) : p \in SplitPart} # {Pay(q, j)}
<1>1. SUFFICES ASSUME {Pay(p, i) : p \in SplitPart} = {Pay(q, j)} PROVE FALSE
  OBVIOUS
<1>2. Pay("admin-split-release", i) \in {Pay(p, i) : p \in SplitPart}
  BY DEF SplitPart
<1>3. Pay("admin-split-release", i) = Pay(q, j)
  BY <1>1, <1>2, Zenon
<1>4. q = "admin-split-release"
  BY <1>3 DEF Pay
<1> QED BY <1>4, OutcomesDisjoint DEF SplitPart

LEMMA MoneyFollowsStatus ==
    SettlementAgrees => \A o \in Orders : MoneyOf(o) = MoneyBy(status[o])
<1> SUFFICES ASSUME SettlementAgrees, NEW o \in Orders
             PROVE  MoneyOf(o) = MoneyBy(status[o])
  OBVIOUS
<1>1. CASE status[o] \in Released
  BY <1>1 DEF SettlementAgrees, MoneyOf, MoneyBy
<1>2. CASE status[o] \in Refunded
  <2>1. PICK p \in FullRefund, i \in 0..MaxCases : intents[o] = {Pay(p, i)}
    BY <1>2 DEF SettlementAgrees, PaysBuyer
  <2>2. ~PaysSeller(o)
    BY <2>1, SinglePurpose, OutcomesDisjoint DEF PaysSeller
  <2>3. PaysBuyer(o)
    BY <2>1 DEF PaysBuyer
  <2> QED BY <1>2, <2>2, <2>3, OutcomesDisjoint DEF MoneyOf, MoneyBy
<1>3. CASE status[o] = "resolved_split"
  <2>1. PICK i \in 0..MaxCases : intents[o] = {Pay(p, i) : p \in SplitPart}
    BY <1>3 DEF SettlementAgrees, PaysBoth
  <2>2. ~PaysSeller(o) /\ ~PaysBuyer(o)
    BY <2>1, SplitNotSingle DEF PaysSeller, PaysBuyer
  <2>3. PaysBoth(o)
    BY <2>1 DEF PaysBoth
  <2> QED BY <1>3, <2>2, <2>3, OutcomesDisjoint DEF MoneyOf, MoneyBy
<1>4. CASE status[o] \notin Settled
  <2>1. intents[o] = {}
    BY <1>4 DEF SettlementAgrees
  <2>2. ~PaysSeller(o) /\ ~PaysBuyer(o)
    BY <2>1 DEF PaysSeller, PaysBuyer
  <2>3. ~PaysBoth(o)
    BY <2>1 DEF PaysBoth, SplitPart
  <2> QED BY <1>4, <2>1, <2>2, <2>3 DEF MoneyOf, MoneyBy, Settled
<1> QED BY <1>1, <1>2, <1>3, <1>4 DEF Settled

\* A step of an order, seen from where its money is.
LEMMA MoneyStep ==
    ASSUME Overlap = FALSE, SerialInv, [Next]_vars, NEW o \in Orders
    PROVE  \/ MoneyBy(status'[o]) = MoneyBy(status[o])
           \/ <<MoneyBy(status[o]), MoneyBy(status'[o])>> \in Promise!Moves
<1>1. CASE Keeps(o)
  BY <1>1 DEF Keeps
<1>2. CASE status[o] \notin Settled /\ Opens(o)
  <2>1. MoneyBy(status'[o]) = "held"
    BY <1>2 DEF Opens, MoneyBy, Settled
  <2>2. MoneyBy(status[o]) \in {"unpaid", "held"}
    BY <1>2 DEF MoneyBy, Settled
  <2> QED BY <2>1, <2>2 DEF Promise!Moves
<1>3. CASE /\ status[o] \notin Settled \cup {"awaiting_payment"}
           /\ Releases(o) \/ Refunds(o) \/ Splits(o)
  <2>1. MoneyBy(status[o]) = "held"
    BY <1>3 DEF MoneyBy, Settled
  <2>2. MoneyBy(status'[o]) \in {"to_seller", "to_buyer", "shared"}
    BY <1>3, OutcomesDisjoint DEF Releases, Refunds, Splits, MoneyBy
  <2> QED BY <2>1, <2>2 DEF Promise!Moves
<1> QED BY <1>1, <1>2, <1>3, SerialEffect

MoneyMap == [o \in Orders |-> MoneyOf(o)]

LEMMA PromiseStep ==
    ASSUME Overlap = FALSE, SerialInv, SerialInv', [Next]_vars
    PROVE  [Promise!Next]_MoneyMap
<1>1. \A o \in Orders : MoneyOf(o) = MoneyBy(status[o])
  BY MoneyFollowsStatus DEF SerialInv
<1>2. (\A o \in Orders : MoneyOf(o) = MoneyBy(status[o]))'
  <2>1. SettlementAgrees'
    BY DEF SerialInv
  <2> QED BY <2>1, MoneyFollowsStatus, PTL
<1>3. MoneyMap' \in [Orders -> Promise!Places]
  BY <1>2 DEF MoneyMap, MoneyBy, Promise!Places
<1>4. ASSUME NEW o \in Orders
      PROVE  MoneyMap'[o] = MoneyMap[o] \/ <<MoneyMap[o], MoneyMap'[o]>> \in Promise!Moves
  <2>1. MoneyMap[o] = MoneyBy(status[o]) /\ MoneyMap'[o] = MoneyBy(status'[o])
    BY <1>1, <1>2 DEF MoneyMap
  <2> QED BY <2>1, MoneyStep
<1> QED BY <1>3, <1>4 DEF Promise!Next, MoneyMap

LEMMA PromiseInit == Init => Promise!Init
<1> SUFFICES ASSUME Init PROVE Promise!Init
  OBVIOUS
<1>1. \A o \in Orders : intents[o] = {} /\ status[o] = "awaiting_payment"
  BY DEF Init
<1>2. \A o \in Orders : MoneyOf(o) = "unpaid"
  <2>1. SettlementAgrees
    BY SerialInit DEF SerialInv
  <2>2. MoneyBy("awaiting_payment") = "unpaid"
    BY DEF MoneyBy, Released, Refunded
  <2> QED BY <1>1, <2>1, <2>2, MoneyFollowsStatus
<1> QED BY <1>2 DEF Promise!Init

\* When sessions take turns on an order, its money leaves escrow once and in
\* one direction, whatever handlers, sweep rules and admin decisions run.
THEOREM PromiseKept ==
    ASSUME Overlap = FALSE
    PROVE  Spec => KeepsPromise
<1>1. Init => SerialInv /\ Promise!Init
  BY SerialInit, PromiseInit
<1>2. SerialInv /\ [Next]_vars => SerialInv'
  BY SerialStep
<1>3. SerialInv /\ SerialInv' /\ [Next]_vars => [Promise!Next]_MoneyMap
  BY PromiseStep
<1> QED BY <1>1, <1>2, <1>3, PTL DEF Spec, KeepsPromise, Promise!Spec, MoneyMap

-----------------------------------------------------------------------------
(***************************************************************************)
(* The return case when sessions take turns: what a request read of the    *)
(* order and of the dispute is still so when it writes, so an order has one *)
(* dispute, and its status goes along with the order's.                    *)
(***************************************************************************)
\* The statuses a request's guard asks for.
Resolved == {"resolved_release", "resolved_refund", "resolved_split"}
ReadIn   == [payment_callback |-> {"awaiting_payment"}, dispatch |-> {"locked"},
             arrival |-> {"out_for_delivery"},
             otp_give |-> {"at_door_pending_inspection"},
             otp_withhold |-> {"at_door_pending_inspection"},
             report |-> {"hold_24h"}, report_other |-> {"hold_24h"},
             sent_back |-> {"disputed_functional"}, received |-> {"return_in_transit"},
             seller_refund |-> {"return_received"}, seller_ship |-> {"return_received"},
             reconfirm_accept |-> {"awaiting_buyer_reconfirmation"},
             reconfirm_reject |-> {"awaiting_buyer_reconfirmation"},
             escalate |-> OpenCase,
             admin_refund |-> {"escalated_admin_review"},
             admin_release |-> {"escalated_admin_review"},
             admin_split |-> {"escalated_admin_review"},
             confirm_buyer |-> Resolved, confirm_seller |-> Resolved]

AdminOps  == {"admin_refund", "admin_release", "admin_split"}
LatestOps == {"reconfirm_accept", "reconfirm_reject", "escalate"} \cup ConfirmOps

\* What the request r read of o is so now.
Looked(r, o) ==
    /\ status[o] \in ReadIn[r.op]
    /\ r.op \in {"report", "report_other"} => r.filed = filed[o]
    /\ r.op \in LatestOps => r.case = latest[o] /\ latest[o] # 0
    /\ r.op \in AdminOps => /\ r.case \in CaseId
                            /\ cases[o][r.case].status = "escalated_admin_review"
    /\ r.case # 0 => r.seen = cases[o][r.case]

\* The dispute of an order whose case is open or under review.
CaseIn == [disputed_functional |-> {"open", "escalated_admin_review"},
           return_in_transit |-> {"open", "escalated_admin_review"},
           return_received |-> {"open", "escalated_admin_review", "return_received"},
           awaiting_buyer_reconfirmation |-> {"awaiting_buyer_reconfirmation"},
           escalated_admin_review |-> {"escalated_admin_review"}]

Undisputed == {"awaiting_payment", "locked", "out_for_delivery",
               "at_door_pending_inspection", "hold_24h"}

\* Status and dispute go along; c is the latest dispute.
GoesAlong(st, c) ==
    /\ st \notin Undisputed
    /\ st \in DOMAIN CaseIn => c.status \in CaseIn[st]
    /\ st \in Settled => c.status \notin OpenDispute
    /\ c.evidence.rejections > BUYER_RECONFIRMATION_RETRY_LIMIT =>
          st \in {"escalated_admin_review"} \cup Resolved

OneCase(o) ==
    /\ latest[o] = filed[o] /\ filed[o] \in {0, 1}
    /\ filed[o] = 0 => status[o] \notin NeedsCase
    /\ filed[o] = 1 => GoesAlong(status[o], cases[o][1])
    /\ \A i \in CaseId : i # filed[o] => cases[o][i] = NoCase

CasesInv ==
    /\ \A o \in Orders : OneCase(o)
    /\ \A w \in Workers, o \in Orders : Holds(w, o) => Looked(job[w], o)
    /\ \A s \in Sweepers, o \in Orders : Sweeps(s, o) => status[o] = due[s][o].from

\* The order's status and disputes are left alone.
SameCase(o) == /\ status'[o] = status[o] /\ filed'[o] = filed[o]
               /\ latest'[o] = latest[o] /\ cases'[o] = cases[o]

LEMMA SameCaseKept ==
    ASSUME NEW o \in Orders, SameCase(o)
    PROVE  /\ OneCase(o) => OneCase(o)'
           /\ \A r : Looked(r, o) => Looked(r, o)'
BY DEF SameCase, OneCase, Looked

LEMMA SetCaseEffect ==
    ASSUME TypeOK, NEW o \in Orders, NEW i \in 0..MaxCases, NEW st, NEW ev, SetCase(o, i, st, ev)
    PROVE  /\ \A p \in Orders : p # o => cases'[p] = cases[p]
           /\ \A j \in CaseId : j # i => cases'[o][j] = cases[o][j]
           /\ i # 0 => cases'[o][i] = [status |-> st, evidence |-> ev]
           /\ i = 0 => cases' = cases
<1>1. CASE i = 0
  BY <1>1 DEF SetCase
<1>2. CASE i # 0
  <2>1. cases' = [cases EXCEPT ![o][i] = [status |-> st, evidence |-> ev]]
    BY <1>2 DEF SetCase
  <2>2. cases \in [Orders -> [CaseId -> Case]] /\ i \in CaseId
    BY <1>2, ConstantsAssumption DEF TypeOK, CaseId
  <2>3. \A p \in Orders : cases'[p] =
           IF p = o THEN [cases[o] EXCEPT ![i] = [status |-> st, evidence |-> ev]] ELSE cases[p]
    BY <2>1, <2>2
  <2>4. \A j \in CaseId : cases'[o][j] =
           IF j = i THEN [status |-> st, evidence |-> ev] ELSE cases[o][j]
    BY <2>2, <2>3
  <2> QED BY <1>2, <2>2, <2>3, <2>4
<1> QED BY <1>1, <1>2

\* A request whose dispute is as it saw it writes the status it means to.
LEMMA WriteBackEffect ==
    ASSUME TypeOK, NEW w \in Workers, job[w] # Idle, Looked(job[w], job[w].order),
           NEW st, NEW ev, WriteBack(w, st, ev)
    PROVE  SetCase(job[w].order, job[w].case, st, ev)
BY DEF Looked, WriteBack, Written, SetCase

\* An order without a dispute that goes on without one.
LEMMA UndisputedKept ==
    ASSUME NEW o \in Orders, OneCase(o), status[o] \in Undisputed,
           latest'[o] = latest[o], filed'[o] = filed[o], cases'[o] = cases[o],
           status'[o] \in Undisputed \cup {"released", "refunded_buyer"}
    PROVE  OneCase(o)'
BY DEF OneCase, GoesAlong, NeedsCase, OpenCase, Undisputed

\* An order whose dispute is written, or left alone, in step with it.
LEMMA RowKept ==
    ASSUME NEW o \in Orders, OneCase(o), filed[o] = 1,
           latest'[o] = latest[o], filed'[o] = filed[o],
           \A j \in CaseId : j # 1 => cases'[o][j] = cases[o][j],
           GoesAlong(status'[o], cases'[o][1])
    PROVE  OneCase(o)'
BY DEF OneCase


\* The same, when the row is row 1 and SetCase writes it.
LEMMA RowWritten ==
    ASSUME TypeOK, NEW o \in Orders, OneCase(o), filed[o] = 1,
           latest'[o] = latest[o], filed'[o] = filed[o],
           NEW st, NEW ev, SetCase(o, 1, st, ev),
           GoesAlong(status'[o], [status |-> st, evidence |-> ev])
    PROVE  OneCase(o)'
<1>1. 1 \in 0..MaxCases
  BY ConstantsAssumption
<1>2. /\ \A j \in CaseId : j # 1 => cases'[o][j] = cases[o][j]
      /\ cases'[o][1] = [status |-> st, evidence |-> ev]
  BY <1>1, SetCaseEffect
<1> QED BY <1>2, RowKept

LEMMA CasesInit == Init => CasesInv
<1> SUFFICES ASSUME Init PROVE CasesInv
  OBVIOUS
<1>1. \A o \in Orders : OneCase(o)
  BY DEF Init, OneCase, NeedsCase, OpenCase
<1> QED BY <1>1 DEF Init, CasesInv, Holds, Sweeps, NothingDue, NotDue

\* A request starts on what its guard saw.
LEMMA BeginLooks ==
    ASSUME TypeOK, CasesInv, NEW w \in Workers, NEW o \in Orders, Begin(w, o)
    PROVE  \E op \in Ops, i \in 0..MaxCases :
              /\ Start(w, o, op, i)
              /\ status[o] \in ReadIn[op]
              /\ op \in LatestOps => i = latest[o] /\ latest[o] # 0
              /\ op \in AdminOps => /\ i \in CaseId
                                    /\ cases[o][i].status = "escalated_admin_review"
<1> DEFINE Begun(op, i) ==
              /\ Start(w, o, op, i)
              /\ status[o] \in ReadIn[op]
              /\ op \in LatestOps => i = latest[o] /\ latest[o] # 0
              /\ op \in AdminOps => /\ i \in CaseId
                                    /\ cases[o][i].status = "escalated_admin_review"
           Goal == \E op \in Ops, i \in 0..MaxCases : Begun(op, i)
<1>1. latest[o] \in 0..MaxCases /\ 0 \in 0..MaxCases /\ CaseId \subseteq 0..MaxCases
  BY ConstantsAssumption DEF TypeOK, CaseId
<1>2. ASSUME NEW op \in Ops, NEW i \in 0..MaxCases, Begun(op, i) PROVE Goal
  BY <1>2
<1>3. /\ {"payment_callback", "dispatch", "arrival", "otp_give", "otp_withhold", "report",
          "report_other", "sent_back", "received", "seller_refund", "seller_ship"}
           \subseteq Ops \ (LatestOps \cup AdminOps)
      /\ LatestOps \subseteq Ops \ AdminOps /\ AdminOps \subseteq Ops \ LatestOps
  BY DEF Ops, LatestOps, AdminOps, ConfirmOps
<1>4. ASSUME NEW op \in Ops \ (LatestOps \cup AdminOps), Start(w, o, op, 0),
             status[o] \in ReadIn[op]
      PROVE  Goal
  BY <1>1, <1>4, <1>2
<1>5. ASSUME NEW op \in LatestOps, Start(w, o, op, latest[o]), latest[o] # 0,
             status[o] \in ReadIn[op]
      PROVE  Goal
  BY <1>1, <1>3, <1>5, <1>2
<1>6. ASSUME NEW op \in AdminOps, NEW i \in CaseId, AdminGuard(o, i), Start(w, o, op, i),
             status[o] \in ReadIn[op]
      PROVE  Goal
  BY <1>1, <1>3, <1>6, <1>2 DEF AdminGuard
<1> HIDE DEF Goal
<1>7. ASSUME PaymentCallbackGuard(o), Start(w, o, "payment_callback", 0) PROVE Goal
  BY <1>7, <1>3, <1>4 DEF PaymentCallbackGuard, ReadIn
<1>8. ASSUME DispatchGuard(o), Start(w, o, "dispatch", 0) PROVE Goal
  BY <1>8, <1>3, <1>4 DEF DispatchGuard, ReadIn
<1>9. ASSUME ArrivalGuard(o), Start(w, o, "arrival", 0) PROVE Goal
  BY <1>9, <1>3, <1>4 DEF ArrivalGuard, ReadIn
<1>10. ASSUME OtpGuard(o), Start(w, o, "otp_give", 0) \/ Start(w, o, "otp_withhold", 0)
       PROVE  Goal
  BY <1>10, <1>3, <1>4 DEF OtpGuard, ReadIn
<1>11. ASSUME ReportGuard(o), NEW op \in {"report", "report_other"}, Start(w, o, op, 0)
       PROVE  Goal
  BY <1>11, <1>3, <1>4 DEF ReportGuard, ReadIn
<1>12. ASSUME SentBackGuard(o), Start(w, o, "sent_back", 0) PROVE Goal
  BY <1>12, <1>3, <1>4 DEF SentBackGuard, ReadIn
<1>13. ASSUME ReceivedGuard(o), Start(w, o, "received", 0) PROVE Goal
  BY <1>13, <1>3, <1>4 DEF ReceivedGuard, ReadIn
<1>14. ASSUME status[o] = "return_received",
              Start(w, o, "seller_refund", 0) \/ Start(w, o, "seller_ship", 0)
       PROVE  Goal
  BY <1>14, <1>3, <1>4 DEF ReadIn
<1>15. ASSUME ReconfirmGuard(o), NEW op \in {"reconfirm_accept", "reconfirm_reject"},
              Start(w, o, op, latest[o])
       PROVE  Goal
  <2>1. status[o] = "awaiting_buyer_reconfirmation"
    BY <1>15 DEF ReconfirmGuard
  <2>2. latest[o] # 0
    BY <2>1 DEF CasesInv, OneCase, NeedsCase, OpenCase
  <2> QED BY <1>15, <1>5, <2>1, <2>2 DEF LatestOps, ReadIn
<1>16. ASSUME EscalateGuard(o), Start(w, o, "escalate", latest[o]) PROVE Goal
  BY <1>16, <1>5 DEF EscalateGuard, LatestOps, ReadIn
<1>17. ASSUME NEW i \in CaseId, NEW op \in AdminOps, AdminGuard(o, i), Start(w, o, op, i)
       PROVE  Goal
  <2>1. status[o] \in ReadIn[op]
    BY <1>17 DEF AdminGuard, AdminOps, ReadIn
  <2> QED BY <1>17, <1>6, <2>1
<1>18. ASSUME ConfirmGuard(o), NEW op \in ConfirmOps, Start(w, o, op, latest[o]) PROVE Goal
  <2>1. status[o] \in ReadIn[op] /\ latest[o] # 0
    BY <1>18 DEF ConfirmGuard, ConfirmOps, ReadIn, Resolved
  <2> QED BY <1>18, <1>5, <2>1 DEF LatestOps
<1>19. Goal
  BY <1>7, <1>8, <1>9, <1>10, <1>11, <1>12, <1>13, <1>14, <1>15, <1>16, <1>17, <1>18
     DEF Begin, SellerActionGuard, AdminOps, ConfirmOps
<1> QED BY <1>19 DEF Goal


\* What a request's commit leaves alone of the other orders.
LEMMA FinishElsewhere ==
    ASSUME TypeOK, CasesInv, NEW w \in Workers, Finish(w),
           NEW o \in Orders, o # job[w].order
    PROVE  SameCase(o)
<1> DEFINE p == job[w].order
           i == job[w].case
<1>1. job[w] # Idle /\ status'[o] = status[o]
  BY FinishEffect DEF Keeps
<1>2. latest'[o] = latest[o] /\ filed'[o] = filed[o]
  BY FinishCase
<1>3. p \in Orders /\ i \in 0..MaxCases /\ latest[p] \in 0..MaxCases
  BY <1>1, ServingType DEF TypeOK
<1>4. \A j \in 0..MaxCases : \A st, ev : SetCase(p, j, st, ev) => cases'[o] = cases[o]
  BY <1>3, SetCaseEffect
<1>5. CASE \/ PaymentCallback(w) \/ Dispatch(w) \/ Arrival(w) \/ OtpGive(w)
           \/ OtpWithhold(w) \/ BuyerSentBack(w) \/ SellerReceived(w)
  <2>1. cases' = cases
    BY <1>5 DEF PaymentCallback, Dispatch, Arrival, OtpGive, OtpWithhold,
                BuyerSentBack, SellerReceived
  <2> QED BY <1>1, <1>2, <2>1 DEF SameCase
<1>6. CASE ReportFunctionalIssue(w)
  <2>1. \E c : cases' = [cases EXCEPT ![p][filed[p] + 1] = c]
    BY <1>6 DEF ReportFunctionalIssue
  <2>2. cases'[o] = cases[o]
    BY <2>1 DEF TypeOK
  <2> QED BY <1>1, <1>2, <2>2 DEF SameCase
<1>7. CASE \/ SellerRefund(w) \/ SellerShip(w) \/ ReconfirmAccept(w) \/ ReconfirmReject(w)
           \/ EscalateDispute(w) \/ AdminRefund(w) \/ AdminRelease(w) \/ AdminSplit(w)
           \/ ConfirmResolvedBuyer(w) \/ ConfirmResolvedSeller(w)
  <2>1. \E j \in {i, latest[p]} : \E st, ev : SetCase(p, j, st, ev)
    BY <1>7 DEF SellerRefund, SellerShip, ReconfirmAccept, ReconfirmReject, EscalateDispute,
                AdminRefund, AdminRelease, AdminSplit, AdminDecide, ConfirmResolvedBuyer,
                ConfirmResolvedSeller, ConfirmResolved, WriteBack, RuleCase
  <2>2. cases'[o] = cases[o]
    BY <1>3, <1>4, <2>1
  <2> QED BY <1>1, <1>2, <2>2 DEF SameCase
<1> QED BY <1>5, <1>6, <1>7 DEF Finish

\* An order in a return case, under review or decided has row 1 and no other,
\* and that row is the latest; the order gave its parties one retry at most.
LEMMA TheCase ==
    ASSUME TypeOK, NEW o \in Orders, OneCase(o), status[o] \in NeedsCase
    PROVE  /\ filed[o] = 1 /\ latest[o] = 1 /\ 1 \in CaseId
           /\ cases[o][1] \in Case /\ cases[o][1].evidence.rejections \in Nat
           /\ GoesAlong(status[o], cases[o][1])
           /\ \A i \in CaseId : cases[o][i].status = "escalated_admin_review" => i = 1
<1>1. filed[o] = 1 /\ latest[o] = 1
  BY DEF OneCase
<1>2. 1 \in CaseId
  BY ConstantsAssumption DEF CaseId
<1>3. cases[o][1] \in Case /\ cases[o][1].evidence.rejections \in Nat
  BY <1>2, RowType DEF Evidence
<1>4. \A i \in CaseId : cases[o][i].status = "escalated_admin_review" => i = 1
  BY <1>1 DEF OneCase, NoCase
<1> QED BY <1>1, <1>2, <1>3, <1>4 DEF OneCase

\* A commit that finds the order as its request read it leaves it with at most
\* one dispute, which goes along with its status.
LEMMA FinishOneCase ==
    ASSUME TypeOK, NEW w \in Workers, Finish(w), NEW o \in Orders, o = job[w].order,
           OneCase(o), Looked(job[w], o)
    PROVE  OneCase(o)'
<1> DEFINE r == job[w]
           c == cases[o][1]
<1>1. job[w] # Idle /\ job[w].seen \in Case /\ job[w].case \in 0..MaxCases
  BY FinishEffect, ServingType
<1>e. \A st : Enter(o, st) => status'[o] = st
  BY DEF Enter, TypeOK
<1>2. CASE PaymentCallback(w) \/ Dispatch(w) \/ Arrival(w) \/ OtpGive(w) \/ OtpWithhold(w)
  <2>1. latest' = latest /\ filed' = filed /\ cases' = cases
    BY <1>2 DEF PaymentCallback, Dispatch, Arrival, OtpGive, OtpWithhold
  <2>2. status[o] \in Undisputed
    <3>1. job[w].op \in {"payment_callback", "dispatch", "arrival", "otp_give", "otp_withhold"}
      BY <1>2 DEF PaymentCallback, Dispatch, Arrival, OtpGive, OtpWithhold, Serving
    <3>2. status[o] \in ReadIn[job[w].op]
      BY DEF Looked
    <3> QED BY <3>1, <3>2 DEF ReadIn, Undisputed
  <2>3. status'[o] \in Undisputed \cup {"released", "refunded_buyer"}
    BY <1>2, <1>e DEF PaymentCallback, Dispatch, Arrival, OtpGive, OtpWithhold, Undisputed
  <2> QED BY <2>1, <2>2, <2>3, UndisputedKept
<1>3. CASE BuyerSentBack(w) \/ SellerReceived(w)
  <2>1. latest' = latest /\ filed' = filed /\ cases' = cases
    BY <1>3 DEF BuyerSentBack, SellerReceived
  <2>2. \/ status[o] = "disputed_functional" /\ status'[o] = "return_in_transit"
        \/ status[o] = "return_in_transit" /\ status'[o] = "return_received"
    BY <1>3, <1>e DEF BuyerSentBack, SellerReceived, Serving, Looked, ReadIn
  <2>3. filed[o] = 1 /\ GoesAlong(status[o], c)
    BY <2>2, TheCase DEF NeedsCase, OpenCase
  <2>4. GoesAlong(status'[o], c)
    BY <2>2, <2>3 DEF GoesAlong, CaseIn, Undisputed, Settled, Released, Refunded, Resolved
  <2> QED BY <2>1, <2>3, <2>4, RowKept
<1>4. CASE ReportFunctionalIssue(w)
  <2>1. job[w].filed = filed[o] /\ status[o] = "hold_24h"
    BY <1>4 DEF ReportFunctionalIssue, Serving, Looked, ReadIn
  <2>2. filed[o] = 0
    BY <2>1 DEF OneCase, GoesAlong, Undisputed
  <2> DEFINE st == IF job[w].op = "report" THEN "open" ELSE "escalated_admin_review"
  <2>3. cases' = [cases EXCEPT ![o][1] = [NoCase EXCEPT !.status = st]]
    <3>1. filed[o] + 1 = 1
      BY <2>2
    <3>2. cases' = [cases EXCEPT ![o][filed[o] + 1] = [NoCase EXCEPT !.status = st]]
      BY <1>4 DEF ReportFunctionalIssue
    <3> QED BY <3>1, <3>2
  <2>4. PICK l \in {1} : latest' = [latest EXCEPT ![o] = l]
    BY <1>4, <2>1, <2>2 DEF ReportFunctionalIssue
  <2>5. filed' = [filed EXCEPT ![o] = 1] /\ status'[o] = "disputed_functional"
    BY <1>4, <2>2, <1>e DEF ReportFunctionalIssue
  <2>6. filed'[o] = 1 /\ latest'[o] = 1
    BY <2>4, <2>5 DEF TypeOK
  <2>7. 1 \in CaseId
    BY ConstantsAssumption DEF CaseId
  <2>8. /\ cases'[o][1] = [NoCase EXCEPT !.status = st]
        /\ \A j \in CaseId : j # 1 => cases'[o][j] = cases[o][j]
    BY <2>3, <2>7 DEF TypeOK
  <2>9. \A j \in CaseId : cases[o][j] = NoCase
    BY <2>2 DEF OneCase, CaseId
  <2>10. GoesAlong(status'[o], cases'[o][1])
    BY <2>5, <2>8 DEF GoesAlong, CaseIn, NoCase, Undisputed, Settled, Released, Refunded,
                      BUYER_RECONFIRMATION_RETRY_LIMIT
  <2> QED BY <2>6, <2>8, <2>9, <2>10 DEF OneCase
<1>5. CASE SellerRefund(w) \/ SellerShip(w)
  <2>1. status[o] = "return_received"
    BY <1>5 DEF SellerRefund, SellerShip, Serving, Looked, ReadIn
  <2>2. /\ filed[o] = 1 /\ latest[o] = 1
        /\ GoesAlong("return_received", c)
    BY <2>1, TheCase DEF NeedsCase, OpenCase
  <2>3. /\ latest' = latest /\ filed' = filed
        /\ \/ status'[o] = "refunded_buyer" /\ SetCase(o, 1, "resolved_refund", c.evidence)
           \/ /\ status'[o] = "awaiting_buyer_reconfirmation"
              /\ SetCase(o, 1, "awaiting_buyer_reconfirmation", c.evidence)
    BY <1>5, <1>e, <2>2 DEF SellerRefund, SellerShip, RuleCase
  <2>4. \A ds : \A st \in {"refunded_buyer", "awaiting_buyer_reconfirmation"} :
           \/ st = "refunded_buyer" /\ ds = "resolved_refund"
           \/ ds = st /\ st = "awaiting_buyer_reconfirmation"
           => GoesAlong(st, [status |-> ds, evidence |-> c.evidence])
    BY <2>2 DEF GoesAlong, CaseIn, Undisputed, Settled, Released, Refunded, Resolved,
                OpenDispute
  <2> QED BY <2>2, <2>3, <2>4, RowWritten
<1>6. CASE ReconfirmAccept(w) \/ ReconfirmReject(w) \/ EscalateDispute(w)
  <2>1. status[o] \in OpenCase /\ job[w].op \in LatestOps
    BY <1>6 DEF ReconfirmAccept, ReconfirmReject, EscalateDispute, Serving, Looked, ReadIn,
                OpenCase, LatestOps
  <2>2. filed[o] = 1 /\ latest[o] = 1 /\ GoesAlong(status[o], c) /\ c.evidence.rejections \in Nat
        /\ c \in Case
    BY <2>1, TheCase DEF NeedsCase
  <2>3. job[w].case = 1 /\ job[w].seen = c
    BY <2>1, <2>2 DEF Looked
  <2>4. latest' = latest /\ filed' = filed
    BY <1>6 DEF ReconfirmAccept, ReconfirmReject, EscalateDispute
  <2>5. \A st, ev : WriteBack(w, st, ev) => SetCase(o, 1, st, ev)
    BY <1>1, <2>3, WriteBackEffect
  <2>6. CASE ReconfirmAccept(w)
    <3>1. status'[o] = "resolved_release" /\ SetCase(o, 1, "resolved_release", c.evidence)
      BY <2>3, <2>5, <2>6, <1>e DEF ReconfirmAccept
    <3>2. GoesAlong("resolved_release", [status |-> "resolved_release", evidence |-> c.evidence])
      BY DEF GoesAlong, CaseIn, Undisputed, Settled, Released, Refunded, Resolved, OpenDispute
    <3> QED BY <2>2, <2>4, <3>1, <3>2, RowWritten
  <2>7. CASE ReconfirmReject(w)
    <3> DEFINE next == IF c.evidence.rejections < BUYER_RECONFIRMATION_RETRY_LIMIT
                       THEN "return_received" ELSE "escalated_admin_review"
               ev == [c.evidence EXCEPT !.rejections = @ + 1]
    <3>1. status'[o] = next /\ SetCase(o, 1, next, ev)
      BY <2>3, <2>5, <2>7, <1>e DEF ReconfirmReject
    <3>2. ev.rejections = c.evidence.rejections + 1
      BY <2>2 DEF Case, Evidence
    <3>3. GoesAlong(next, [status |-> next, evidence |-> ev])
      <4>1. CASE c.evidence.rejections < BUYER_RECONFIRMATION_RETRY_LIMIT
        <5>1. ~(ev.rejections > BUYER_RECONFIRMATION_RETRY_LIMIT) /\ next = "return_received"
          BY <2>2, <3>2, <4>1 DEF BUYER_RECONFIRMATION_RETRY_LIMIT
        <5> HIDE DEF next, ev
        <5> QED BY <5>1 DEF GoesAlong, CaseIn, Undisputed, Settled, Released, Refunded
      <4>2. CASE ~(c.evidence.rejections < BUYER_RECONFIRMATION_RETRY_LIMIT)
        <5>1. next = "escalated_admin_review"
          BY <4>2
        <5> HIDE DEF next, ev
        <5> QED BY <5>1 DEF GoesAlong, CaseIn, Undisputed, Settled, Released, Refunded
      <4> QED BY <4>1, <4>2
    <3> HIDE DEF next, ev
    <3> QED BY <2>2, <2>4, <3>1, <3>3, RowWritten
  <2>8. CASE EscalateDispute(w)
    <3>1. /\ status'[o] = "escalated_admin_review"
          /\ SetCase(o, 1, "escalated_admin_review", c.evidence)
      BY <2>3, <2>5, <2>8, <1>e DEF EscalateDispute
    <3>2. GoesAlong("escalated_admin_review",
                    [status |-> "escalated_admin_review", evidence |-> c.evidence])
      BY DEF GoesAlong, CaseIn, Undisputed, Settled, Released, Refunded, Resolved
    <3> QED BY <2>2, <2>4, <3>1, <3>2, RowWritten
  <2> QED BY <1>6, <2>6, <2>7, <2>8
<1>7. ASSUME NEW op \in AdminOps, NEW st \in Resolved, NEW ps, AdminDecide(w, op, st, ps)
      PROVE  OneCase(o)'
  <2>1. status[o] = "escalated_admin_review" /\ job[w].op \in AdminOps
    BY <1>7 DEF AdminDecide, Serving, Looked, ReadIn, AdminOps
  <2>2. filed[o] = 1 /\ latest[o] = 1 /\ job[w].case = 1
    BY <2>1, TheCase DEF NeedsCase, Looked
  <2>3. /\ status'[o] = st /\ latest' = latest /\ filed' = filed
        /\ WriteBack(w, st, c.evidence)
    BY <1>7, <1>e, <2>2 DEF AdminDecide
  <2>4. SetCase(o, 1, st, c.evidence)
    BY <1>1, <2>2, <2>3, WriteBackEffect
  <2>5. GoesAlong(st, [status |-> st, evidence |-> c.evidence])
    BY DEF GoesAlong, CaseIn, Undisputed, Settled, Released, Refunded, Resolved, OpenDispute
  <2> QED BY <2>2, <2>3, <2>4, <2>5, RowWritten
<1>8. ASSUME NEW op \in ConfirmOps, NEW ev, ConfirmResolved(w, op, ev)
      PROVE  OneCase(o)'
  <2>1. status[o] \in Resolved /\ job[w].op \in LatestOps
    BY <1>8 DEF ConfirmResolved, Serving, Looked, ReadIn, ConfirmOps, LatestOps
  <2>2. filed[o] = 1 /\ latest[o] = 1 /\ GoesAlong(status[o], c) /\ job[w].case = 1
    BY <2>1, TheCase DEF NeedsCase, Resolved, Looked
  <2>3. status' = status /\ latest' = latest /\ filed' = filed
    BY <1>8 DEF ConfirmResolved
  <2>4. PICK e : SetCase(o, 1, c.status, e)
    BY <1>8, <2>2 DEF ConfirmResolved
  <2>5. GoesAlong(status[o], [status |-> c.status, evidence |-> e])
    BY <2>1, <2>2 DEF GoesAlong
  <2> QED BY <2>2, <2>3, <2>4, <2>5, RowWritten
<1>9. AdminRefund(w) \/ AdminRelease(w) \/ AdminSplit(w) => OneCase(o)'
  BY <1>7 DEF AdminRefund, AdminRelease, AdminSplit, AdminOps, Resolved
<1>10. ConfirmResolvedBuyer(w) \/ ConfirmResolvedSeller(w) => OneCase(o)'
  BY <1>8 DEF ConfirmResolvedBuyer, ConfirmResolvedSeller, ConfirmOps
<1> QED BY <1>2, <1>3, <1>4, <1>5, <1>6, <1>9, <1>10 DEF Finish


\* A sweep's rule closes the dispute of the order it settles or escalates.
LEMMA SweepOneCase ==
    ASSUME TypeOK, NEW s \in Sweepers, SweepCommit(s), NEW o \in Orders, Sweeps(s, o),
           OneCase(o), status[o] = due[s][o].from
    PROVE  OneCase(o)'
<1> DEFINE st == status[o]
           c  == cases[o][1]
<1>1. /\ status'[o] = Ruling[st].to /\ latest'[o] = latest[o] /\ filed'[o] = filed[o]
      /\ cases'[o] = RuledCases(s, o)
  BY DEF SweepCommit, RulingFor
<1>2. st \in Timed
  BY DEF TypeOK, Found, Sweeps
<1>3. CASE st \in {"locked", "at_door_pending_inspection", "hold_24h"}
  <2>1. Ruling[st].case = "none" /\ Ruling[st].to \in {"released", "refunded_buyer"}
    BY <1>3 DEF Ruling, NoDispatchTimeout, AtDoorTimeout, HoldAutoRelease
  <2>2. cases'[o] = cases[o]
    BY <1>1, <2>1 DEF RuledCases, RulingFor, TypeOK
  <2> QED BY <1>1, <1>3, <2>1, <2>2, UndisputedKept DEF Undisputed
<1>4. CASE st \in {"disputed_functional", "return_in_transit"}
  <2> DEFINE rc == Ruling[st].case
  <2>1. \/ /\ st = "disputed_functional" /\ rc = "canceled"
           /\ Ruling[st].to = "released"
        \/ /\ st = "return_in_transit" /\ rc = "escalated_admin_review"
           /\ Ruling[st].to = "escalated_admin_review"
    BY <1>4 DEF Ruling, SentBackTimeout, ReceiptTimeout
  <2>2. /\ filed[o] = 1 /\ latest[o] = 1 /\ 1 \in CaseId /\ c \in Case
        /\ GoesAlong(st, c)
    BY <1>4, TheCase DEF NeedsCase, OpenCase
  <2>3. c.status \in {"open", "escalated_admin_review"}
    BY <1>4, <2>2 DEF GoesAlong, CaseIn
  <2>4. /\ \A j \in CaseId : j # 1 => cases'[o][j] = cases[o][j]
        /\ cases'[o][1] = IF rc # "none" /\ c.status \in OpenDispute
                          THEN [c EXCEPT !.status = rc] ELSE c
    BY <1>1, <2>2 DEF RuledCases, RulingFor
  <2>5. cases'[o][1] = IF c.status = "open" THEN [c EXCEPT !.status = rc] ELSE c
    BY <2>1, <2>3, <2>4 DEF OpenDispute
  <2>6. /\ cases'[o][1].evidence = c.evidence
        /\ cases'[o][1].status \in {rc, "escalated_admin_review"}
        /\ st = "return_in_transit" => cases'[o][1].status = "escalated_admin_review"
    BY <2>1, <2>2, <2>3, <2>5 DEF Case
  <2>7. ~(c.evidence.rejections > BUYER_RECONFIRMATION_RETRY_LIMIT)
    BY <1>4, <2>2 DEF GoesAlong, Resolved
  <2>8. GoesAlong(status'[o], cases'[o][1])
    BY <1>1, <2>1, <2>6, <2>7 DEF GoesAlong, CaseIn, Undisputed, Settled, Released, Refunded,
                                  OpenDispute
  <2> QED BY <1>1, <2>2, <2>4, <2>8, RowKept
<1> QED BY <1>2, <1>3, <1>4 DEF Timed

-----------------------------------------------------------------------------
\* The sessions a step leaves open are on orders whose case it leaves alone.
LEMMA CasesKept ==
    ASSUME CasesInv, \A o \in Orders : OneCase(o)',
           \A w \in Workers, o \in Orders :
              Holds(w, o)' => Holds(w, o) /\ job'[w] = job[w] /\ SameCase(o),
           \A s \in Sweepers, o \in Orders :
              Sweeps(s, o)' => Sweeps(s, o) /\ due'[s][o] = due[s][o] /\ status'[o] = status[o]
    PROVE  CasesInv'
<1>1. ASSUME NEW w \in Workers, NEW o \in Orders, Holds(w, o)' PROVE Looked(job[w], o)'
  <2>1. PICK r : r = job[w]
    OBVIOUS
  <2>2. Looked(r, o) /\ SameCase(o) /\ job'[w] = r
    BY <1>1, <2>1 DEF CasesInv
  <2>3. Looked(r, o)'
    BY <2>2, SameCaseKept
  <2> QED BY <2>2, <2>3 DEF Looked
<1>2. \A s \in Sweepers, o \in Orders : Sweeps(s, o)' => status'[o] = due'[s][o].from
  BY DEF CasesInv
<1> QED BY <1>1, <1>2 DEF CasesInv

LEMMA CasesStep ==
    ASSUME Overlap = FALSE, SerialInv, CasesInv, [Next]_vars
    PROVE  CasesInv'
<1>t. TypeOK /\ Exclusive /\ Fresh
  BY DEF SerialInv
<1>o. \A o \in Orders : OneCase(o)
  BY DEF CasesInv
<1>k. \A o \in Orders : SameCase(o) => OneCase(o)'
  BY <1>o, SameCaseKept
<1>1. ASSUME NEW w \in Workers, NEW o \in Orders, Begin(w, o) PROVE CasesInv'
  <2>1. PICK op \in Ops, i \in 0..MaxCases :
              /\ Start(w, o, op, i)
              /\ status[o] \in ReadIn[op]
              /\ op \in LatestOps => i = latest[o] /\ latest[o] # 0
              /\ op \in AdminOps => /\ i \in CaseId
                                    /\ cases[o][i].status = "escalated_admin_review"
    BY <1>t, <1>1, BeginLooks
  <2>2. UNCHANGED <<status, filed, latest, cases, due>>
    BY <2>1 DEF Start
  <2>r. PICK r : r = [op |-> op, order |-> o, case |-> i,
                      seen |-> IF i = 0 THEN NoCase ELSE cases[o][i],
                      filed |-> IF op \in {"report", "report_other"} THEN filed[o] ELSE 0,
                      otp |-> op = "otp_withhold" /\ otp[o]]
    OBVIOUS
  <2>3. /\ job' = [job EXCEPT ![w] = r]
        /\ r.op = op /\ r.case = i /\ r.order = o
        /\ r.seen = IF i = 0 THEN NoCase ELSE cases[o][i]
        /\ op \in {"report", "report_other"} => r.filed = filed[o]
    BY <2>1, <2>r DEF Start
  <2>4. Looked(r, o)
    BY <2>1, <2>3 DEF Looked
  <2>5. ASSUME NEW v \in Workers, NEW p \in Orders, Holds(v, p)' PROVE Looked(job[v], p)'
    <3>1. PICK q : q = job'[v]
      OBVIOUS
    <3>2. \/ v = w /\ p = o /\ q = r
          \/ v # w /\ q = job[v] /\ Holds(v, p)
      BY <1>t, <2>3, <2>5, <3>1 DEF Holds, TypeOK
    <3>3. Looked(q, p)
      BY <2>4, <3>2 DEF CasesInv
    <3>4. Looked(q, p)'
      BY <2>2, <3>3, SameCaseKept DEF SameCase
    <3> QED BY <3>1, <3>4 DEF Looked
  <2>6. \A p \in Orders : OneCase(p)'
    BY <1>k, <2>2 DEF SameCase
  <2>7. \A s \in Sweepers, p \in Orders : Sweeps(s, p)' => status'[p] = due'[s][p].from
    BY <2>2 DEF CasesInv, Sweeps
  <2> QED BY <2>5, <2>6, <2>7 DEF CasesInv
<1>2. ASSUME NEW w \in Workers, Finish(w) PROVE CasesInv'
  <2>1. PICK o \in Orders : job[w] # Idle /\ o = job[w].order
    BY <1>t, <1>2, FinishEffect, ServingType
  <2>2. job' = [job EXCEPT ![w] = Idle] /\ due' = due
    BY <1>t, <1>2, FinishEffect
  <2>3. \A p \in Orders : p # o => SameCase(p)
    BY <1>t, <1>2, <2>1, FinishElsewhere
  <2>4. Holds(w, o)
    BY <2>1 DEF Holds
  <2>5. OneCase(o)'
    BY <1>t, <1>o, <1>2, <2>1, <2>4, FinishOneCase DEF CasesInv
  <2>6. \A p \in Orders : OneCase(p)'
    BY <1>k, <2>3, <2>5
  <2>7. \A v \in Workers, p \in Orders :
           Holds(v, p)' => Holds(v, p) /\ job'[v] = job[v] /\ SameCase(p)
    <3>1. \A v \in Workers, p \in Orders :
             Holds(v, p)' => v # w /\ Holds(v, p) /\ job'[v] = job[v]
      BY <1>t, <2>2, HoldsAfter
    <3> QED BY <1>t, <2>3, <2>4, <3>1 DEF Exclusive
  <2>8. \A s \in Sweepers, p \in Orders : Sweeps(s, p)' => Sweeps(s, p) /\ p # o
    BY <1>t, <2>2, <2>4 DEF Exclusive, Sweeps
  <2>9. \A s \in Sweepers, p \in Orders : Sweeps(s, p)' =>
           Sweeps(s, p) /\ due'[s][p] = due[s][p] /\ status'[p] = status[p]
    BY <2>2, <2>3, <2>8 DEF SameCase
  <2> QED BY <2>6, <2>7, <2>9, CasesKept
<1>3. ASSUME NEW w \in Workers, Abort(w) PROVE CasesInv'
  <2>1. job' = [job EXCEPT ![w] = Idle] /\ UNCHANGED <<status, filed, latest, cases, due>>
    BY <1>3 DEF Abort
  <2>2. \A o \in Orders : SameCase(o)
    BY <2>1 DEF SameCase
  <2>3. \A v \in Workers, o \in Orders : Holds(v, o)' => Holds(v, o) /\ job'[v] = job[v]
    BY <1>t, <2>1, HoldsAfter
  <2>4. \A s \in Sweepers, o \in Orders : Sweeps(s, o)' =>
           Sweeps(s, o) /\ due'[s][o] = due[s][o] /\ status'[o] = status[o]
    BY <2>1 DEF Sweeps
  <2> QED BY <1>k, <2>2, <2>3, <2>4, CasesKept
<1>4. ASSUME NEW o \in Orders, CustodyFunding(o) PROVE CasesInv'
  <2>1. o \in Econfirm /\ UNCHANGED <<filed, latest, cases, job, due>>
    BY <1>4 DEF CustodyFunding
  <2>2. \A p \in Orders : p # o => SameCase(p)
    BY <1>t, <1>4 DEF CustodyFunding, Enter, TypeOK, SameCase
  <2>3. CASE status[o] # "awaiting_payment"
    <3>1. UNCHANGED status
      BY <1>4, <2>3 DEF CustodyFunding
    <3>2. \A p \in Orders : SameCase(p)
      BY <2>1, <3>1 DEF SameCase
    <3> QED BY <1>k, <2>1, <3>1, <3>2, CasesKept DEF Holds, Sweeps
  <2>4. CASE status[o] = "awaiting_payment"
    <3>1. status'[o] = "locked"
      BY <1>t, <1>4, <2>4 DEF CustodyFunding, Enter, TypeOK
    <3>2. OneCase(o)'
      BY <1>o, <2>1, <2>4, <3>1, UndisputedKept DEF Undisputed
    <3>3. \A w \in Workers : ~Holds(w, o)
      BY <1>t, <2>1, <2>4 DEF Fresh, ReadFresh
    <3>4. \A s \in Sweepers : ~Sweeps(s, o)
      BY <1>t, <2>4 DEF Fresh, Timed
    <3>5. \A p \in Orders : OneCase(p)'
      BY <1>k, <2>2, <3>2
    <3>6. \A w \in Workers, p \in Orders :
             Holds(w, p)' => Holds(w, p) /\ job'[w] = job[w] /\ SameCase(p)
      BY <2>1, <2>2, <3>3 DEF Holds
    <3>7. \A s \in Sweepers, p \in Orders : Sweeps(s, p)' =>
             Sweeps(s, p) /\ due'[s][p] = due[s][p] /\ status'[p] = status[p]
      BY <2>1, <2>2, <3>4 DEF Sweeps, SameCase
    <3> QED BY <3>5, <3>6, <3>7, CasesKept
  <2> QED BY <2>3, <2>4
<1>5. ASSUME (\E o \in Orders : WindowElapses(o)) \/ UNCHANGED vars PROVE CasesInv'
  <2>1. UNCHANGED <<status, filed, latest, cases, job, due>>
    BY <1>5 DEF WindowElapses, vars
  <2>2. \A o \in Orders : SameCase(o)
    BY <2>1 DEF SameCase
  <2> QED BY <1>k, <2>1, <2>2, CasesKept DEF Holds, Sweeps
<1>6. ASSUME NEW s \in Sweepers, SweepLoad(s) PROVE CasesInv'
  <2>1. UNCHANGED <<status, filed, latest, cases, job>>
    BY <1>6 DEF SweepLoad
  <2>2. \A o \in Orders : SameCase(o)
    BY <2>1 DEF SameCase
  <2>3. \A t \in Sweepers, o \in Orders :
           Sweeps(t, o)' => status'[o] = due'[t][o].from
    <3>1. \A t \in Sweepers, o \in Orders :
             \/ due'[t][o] = due[t][o]
             \/ due'[t][o] = NotDue
             \/ due'[t][o] = [from |-> status[o], otp |-> otp[o]]
      BY <1>t, <1>6 DEF SweepLoad, TypeOK
    <3>2. \A t \in Sweepers, o \in Orders : Sweeps(t, o) => status[o] = due[t][o].from
      BY DEF CasesInv
    <3>3. ASSUME NEW t \in Sweepers, NEW o \in Orders, due'[t][o].from # "none"
          PROVE  status[o] = due'[t][o].from
      <4>1. CASE due'[t][o] = due[t][o]
        BY <3>2, <3>3, <4>1 DEF Sweeps
      <4>2. CASE due'[t][o] = [from |-> status[o], otp |-> otp[o]]
        BY <4>2
      <4>3. due'[t][o] # NotDue
        BY <3>3 DEF NotDue
      <4> QED BY <3>1, <4>1, <4>2, <4>3
    <3> QED BY <2>1, <3>3 DEF Sweeps
  <2>4. \A w \in Workers, o \in Orders : Holds(w, o)' => Looked(job[w], o)'
    BY <2>1 DEF CasesInv, Holds, Looked
  <2> QED BY <1>k, <2>2, <2>3, <2>4 DEF CasesInv
<1>7. ASSUME NEW s \in Sweepers, SweepCommit(s) PROVE CasesInv'
  <2>1. UNCHANGED <<filed, latest, job>> /\ due' = [due EXCEPT ![s] = NothingDue]
    BY <1>7 DEF SweepCommit
  <2>2. \A o \in Orders : ~Sweeps(s, o) => SameCase(o)
    BY <1>7 DEF SweepCommit, SameCase
  <2>3. ASSUME NEW o \in Orders, Sweeps(s, o) PROVE OneCase(o)'
    BY <1>t, <1>o, <1>7, <2>3, SweepOneCase DEF CasesInv
  <2>4. \A o \in Orders : OneCase(o)'
    BY <1>k, <2>2, <2>3
  <2>5. \A w \in Workers, o \in Orders :
           Holds(w, o)' => Holds(w, o) /\ job'[w] = job[w] /\ SameCase(o)
    BY <1>t, <2>1, <2>2 DEF Exclusive, Holds
  <2>6. \A t \in Sweepers, o \in Orders :
           Sweeps(t, o)' => t # s /\ Sweeps(t, o) /\ ~Sweeps(s, o)
    BY <1>t, <2>1, SweepsAfter DEF Exclusive
  <2>7. \A t \in Sweepers, o \in Orders : Sweeps(t, o)' =>
           Sweeps(t, o) /\ due'[t][o] = due[t][o] /\ status'[o] = status[o]
    BY <1>t, <2>1, <2>2, <2>6 DEF SameCase, TypeOK
  <2> QED BY <2>4, <2>5, <2>7, CasesKept
<1>8. ASSUME NEW s \in Sweepers, SweepAbort(s) PROVE CasesInv'
  <2>1. UNCHANGED <<status, filed, latest, cases, job>> /\ due' = [due EXCEPT ![s] = NothingDue]
    BY <1>8 DEF SweepAbort
  <2>2. \A o \in Orders : SameCase(o)
    BY <2>1 DEF SameCase
  <2>3. \A t \in Sweepers, o \in Orders : Sweeps(t, o)' =>
           Sweeps(t, o) /\ due'[t][o] = due[t][o] /\ status'[o] = status[o]
    BY <1>t, <2>1, SweepsAfter DEF TypeOK
  <2> QED BY <1>k, <2>1, <2>2, <2>3, CasesKept DEF Holds
<1> QED BY <1>1, <1>2, <1>3, <1>4, <1>5, <1>6, <1>7, <1>8 DEF Next

LEMMA CasesHold == Overlap = FALSE => (Spec => [](SerialInv /\ CasesInv))
<1> SUFFICES ASSUME Overlap = FALSE PROVE Spec => [](SerialInv /\ CasesInv)
  OBVIOUS
<1>1. Init => SerialInv /\ CasesInv
  BY SerialInit, CasesInit
<1>2. SerialInv /\ CasesInv /\ [Next]_vars => (SerialInv /\ CasesInv)'
  BY SerialStep, CasesStep
<1> QED BY <1>1, <1>2, PTL DEF Spec

\* When sessions take turns, no order is left the way return_case_repair.py looks
\* for: decided or under review with a dispute that is still open.
THEOREM NoCaseStranded ==
    ASSUME Overlap = FALSE
    PROVE  Spec => []NoStrandedReturnCase
<1>1. SerialInv /\ CasesInv => NoStrandedReturnCase
  <2> SUFFICES ASSUME CasesInv, NEW o \in Orders,
                      status[o] \in Settled \cup {"escalated_admin_review"}, latest[o] # 0
               PROVE  LatestCase(o).status \notin OpenDispute
    BY DEF NoStrandedReturnCase
  <2>1. latest[o] = 1 /\ GoesAlong(status[o], cases[o][1])
    BY DEF CasesInv, OneCase
  <2> QED BY <2>1 DEF GoesAlong, CaseIn, LatestCase, OpenDispute
<1> QED BY <1>1, CasesHold, PTL

\* When sessions take turns, an order under review has an escalated latest
\* dispute, which an admin can decide, and a case the buyer rejected twice is
\* with the admin or decided.
THEOREM CasesDecidable ==
    ASSUME Overlap = FALSE
    PROVE  Spec => []EscalationDecidable
<1>1. SerialInv /\ CasesInv => EscalationDecidable
  <2> SUFFICES ASSUME CasesInv, NEW o \in Orders
               PROVE  /\ status[o] = "escalated_admin_review" =>
                           latest[o] # 0 /\ LatestCase(o).status = "escalated_admin_review"
                      /\ \A i \in CaseId :
                           cases[o][i].evidence.rejections > BUYER_RECONFIRMATION_RETRY_LIMIT =>
                             status[o] \in {"escalated_admin_review", "resolved_refund",
                                           "resolved_release", "resolved_split"}
    BY DEF EscalationDecidable
  <2>1. OneCase(o)
    BY DEF CasesInv
  <2>2. status[o] = "escalated_admin_review" =>
           latest[o] # 0 /\ LatestCase(o).status = "escalated_admin_review"
    BY <2>1 DEF OneCase, NeedsCase, GoesAlong, CaseIn, LatestCase
  <2>3. ASSUME NEW i \in CaseId,
               cases[o][i].evidence.rejections > BUYER_RECONFIRMATION_RETRY_LIMIT
        PROVE  status[o] \in {"escalated_admin_review"} \cup Resolved
    <3>1. ~(NoCase.evidence.rejections > BUYER_RECONFIRMATION_RETRY_LIMIT)
      BY DEF NoCase, BUYER_RECONFIRMATION_RETRY_LIMIT
    <3>2. i = filed[o] /\ filed[o] = 1
      BY <2>1, <2>3, <3>1 DEF OneCase, CaseId
    <3> QED BY <2>1, <2>3, <3>2 DEF OneCase, GoesAlong
  <2> QED BY <2>2, <2>3 DEF Resolved
<1> QED BY <1>1, CasesHold, PTL
=============================================================================
