-------------------------- MODULE CollectionWebhooks --------------------------
(***************************************************************************)
(* The callbacks of the LOOP and Pesapal collection rails                  *)
(* (src/app/services/custody/loop_webhook.py and pesapal_webhook.py).  A   *)
(* callback is a trigger: the payment is confirmed by asking the provider, *)
(* and provider_events remembers which callbacks were answered.            *)
(*                                                                         *)
(* The handlers are coroutines without an await after the body is read, so *)
(* one worker process serves one callback at a time; several processes     *)
(* overlap between the steps below.  A step ends at the inquiry and at the *)
(* commit, which are the only points where others can be seen.             *)
(***************************************************************************)
EXTENDS Naturals

CONSTANTS
    Messages,      \* the callbacks there may be, see MessageFields
    Refs,          \* provider references of collections
    Events,        \* external event ids
    NoRef,         \* a field that is absent
    Workers,       \* processes serving callbacks
    Interruptions  \* may a worker die before its commit?

Rails     == {"loop", "pesapal"}
Signs     == {"missing", "forged", "undated", "good"}

\* What the code reads of a callback: the reference and the event id, each at
\* the top of the body or nested in it, and how it is signed.  "id" stands for
\* the rest of the body and the signature's text.
MessageFields(m) ==
    /\ m.rail \in Rails /\ m.sign \in Signs
    /\ {m.direct, m.nested} \subseteq Refs \cup {NoRef}
    /\ m.event \in Events \cup {NoRef}

ASSUME WebhookAssumption ==
    /\ NoRef \notin Refs \cup Events
    /\ \A m \in Messages : MessageFields(m)
    /\ Interruptions \in BOOLEAN

VARIABLES
    payment,   \* what the provider knows of each collection
    told,      \* what the sender of each callback last heard, see Answers
    old,       \* callbacks signed more than the permitted skew ago
    event,     \* the rows of provider_events, by key
    confirmed, \* the number of audit rows funding_confirmed, by key
    work       \* what each worker is in the middle of

vars == <<payment, told, old, event, confirmed, work>>

-----------------------------------------------------------------------------
RefOf(m) == IF m.direct # NoRef THEN m.direct ELSE m.nested

\* The deduplication key: the reference, or else the event id, or else a hash
\* of the body.  The index ux_provider_events_provider_dedupe_key is unique.
KeyOf(m) ==
    IF RefOf(m) # NoRef THEN <<m.rail, "collection", RefOf(m)>>
    ELSE IF m.event # NoRef THEN <<m.rail, "event", m.event>>
    ELSE <<m.rail, "body", m.id>>

RejectedKey(m) == <<m.rail, "rejected", m.id>>

Keys     == {KeyOf(m) : m \in Messages} \cup {RejectedKey(m) : m \in Messages}
Outcomes == {"SUCCEEDED", "FAILED_DEFINITE", "UNKNOWN"}
Records  == Outcomes \cup {"ignored", "inquiry_failed", "rejected"}

\* sent, or answered with an error; accepted: 200; refused: 401.
Answers == {"sent", "accepted", "refused"}

\* A worker holds the callback it serves, the key it will record it under and
\* what it will record.
Idle == [at |-> "idle"]
Work(m, step, key, result) == [at |-> step, msg |-> m, key |-> key, result |-> result]
AtWork == {Work(m, "inquire", KeyOf(m), "none") : m \in Messages}
          \cup {Work(m, "commit", KeyOf(m), r) : m \in Messages, r \in Records \ {"rejected"}}
          \cup {Work(m, "commit", RejectedKey(m), "rejected") : m \in Messages}

TypeOK ==
    /\ payment \in [Rails \X Refs -> {"pending", "paid", "failed"}]
    /\ told \in [Messages -> Answers]
    /\ old \subseteq Messages
    /\ event \in [Keys -> Records \cup {"absent"}]
    /\ confirmed \in [Keys -> Nat]
    /\ work \in [Workers -> {Idle} \cup AtWork]

Init ==
    /\ payment = [c \in Rails \X Refs |-> "pending"]
    /\ told = [m \in Messages |-> "sent"]
    /\ old = {}
    /\ event = [k \in Keys |-> "absent"]
    /\ confirmed = [k \in Keys |-> 0]
    /\ work = [w \in Workers |-> Idle]

Begin(w, m, step, key, result) ==
    /\ work' = [work EXCEPT ![w] = Work(m, step, key, result)]
    /\ UNCHANGED told

Tell(w, m, answer) ==
    /\ told' = [told EXCEPT ![m] = answer]
    /\ work' = [work EXCEPT ![w] = Idle]

-----------------------------------------------------------------------------
(***************************************************************************)
(* Receiving.  A callback whose key is recorded is a duplicate, answered   *)
(* with success; one without a reference is recorded without an inquiry.   *)
(***************************************************************************)
Look(w, m) ==
    IF event[KeyOf(m)] # "absent" THEN Tell(w, m, "accepted")
    ELSE IF RefOf(m) = NoRef THEN Begin(w, m, "commit", KeyOf(m), "ignored")
    ELSE Begin(w, m, "inquire", KeyOf(m), "none")

\* A signature is checked before the age of its timestamp.
SignatureValid(m) == m.sign = "good" /\ m \notin old

\* Should a rejection take the callback's own key, a forged callback could
\* keep the genuine one from being looked up.
RejectUnderItsKey(w, m) ==
    IF event[KeyOf(m)] # "absent" THEN Tell(w, m, "refused")
    ELSE Begin(w, m, "commit", KeyOf(m), "rejected")

\* A rejected callback is recorded in a key space of its own.
Reject(w, m) ==
    IF event[RejectedKey(m)] # "absent" THEN Tell(w, m, "refused")
    ELSE Begin(w, m, "commit", RejectedKey(m), "rejected")

ReceiveLoop(w, m) ==
    /\ m.rail = "loop" /\ work[w] = Idle
    /\ IF SignatureValid(m) THEN Look(w, m) ELSE Reject(w, m)
    /\ UNCHANGED <<payment, old, event, confirmed>>

\* Pesapal does not sign its callbacks.
ReceivePesapal(w, m) ==
    /\ m.rail = "pesapal" /\ work[w] = Idle
    /\ Look(w, m)
    /\ UNCHANGED <<payment, old, event, confirmed>>

(***************************************************************************)
(* The inquiry.  The provider answers what it knows, or something the rail *)
(* does not understand.                                                    *)
(***************************************************************************)
\* A collection that is still pending, read as one that succeeded.
LoopAnswersHasty(ref) ==
    CASE payment[<<"loop", ref>>] = "failed" -> {"FAILED_DEFINITE", "UNKNOWN"}
      [] OTHER -> {"SUCCEEDED", "UNKNOWN"}

LoopAnswers(ref) ==
    CASE payment[<<"loop", ref>>] = "paid"    -> {"SUCCEEDED", "UNKNOWN"}
      [] payment[<<"loop", ref>>] = "failed"  -> {"FAILED_DEFINITE", "UNKNOWN"}
      [] payment[<<"loop", ref>>] = "pending" -> {"UNKNOWN"}

PesapalAnswers(ref) ==
    CASE payment[<<"pesapal", ref>>] = "paid"    -> {"SUCCEEDED", "UNKNOWN"}
      [] payment[<<"pesapal", ref>>] = "failed"  -> {"FAILED_DEFINITE", "UNKNOWN"}
      [] payment[<<"pesapal", ref>>] = "pending" -> {"UNKNOWN"}

Answered(w, rail, results) ==
    /\ work[w].at = "inquire" /\ work[w].msg.rail = rail
    /\ \E r \in results :
         Begin(w, work[w].msg, "commit", work[w].key, r)
    /\ UNCHANGED <<payment, old, event, confirmed>>

\* LOOP: whatever the inquiry raises is recorded as its failure.
InquireLoop(w) ==
    /\ work[w].at = "inquire"
    /\ Answered(w, "loop", LoopAnswers(RefOf(work[w].msg)) \cup {"inquiry_failed"})

\* Pesapal: so are refused tokens and bad answers.
InquirePesapal(w) ==
    /\ work[w].at = "inquire"
    /\ Answered(w, "pesapal", PesapalAnswers(RefOf(work[w].msg)) \cup {"inquiry_failed"})

\* A failed request, had it been answered with success all the same.
InquiryTimesOutAccepted(w) ==
    /\ work[w].at = "inquire" /\ work[w].msg.rail = "pesapal"
    /\ Tell(w, work[w].msg, "accepted")
    /\ UNCHANGED <<payment, old, event, confirmed>>

\* A read that times out is none of the errors the Pesapal handler catches: the
\* request fails, and nothing is recorded.
InquiryTimesOut(w) ==
    /\ work[w].at = "inquire" /\ work[w].msg.rail = "pesapal"
    /\ work' = [work EXCEPT ![w] = Idle]
    /\ UNCHANGED <<payment, told, old, event, confirmed>>

\* Without the unique index the check made on receipt is not enough.
CommitUnindexed(w) ==
    /\ work[w].at = "commit"
    /\ event' = [event EXCEPT ![work[w].key] = work[w].result]
    /\ confirmed' = [confirmed EXCEPT ![work[w].key] =
                        @ + (IF work[w].result = "SUCCEEDED" THEN 1 ELSE 0)]
    /\ Tell(w, work[w].msg, IF work[w].result = "rejected" THEN "refused" ELSE "accepted")
    /\ UNCHANGED <<payment, old>>

(***************************************************************************)
(* The commit: the event, and the audit row of a confirmed payment.  When  *)
(* another worker recorded the key meanwhile, the unique index fails the   *)
(* transaction and the request, whose sender hears an error.               *)
(***************************************************************************)
Commit(w) ==
    /\ work[w].at = "commit"
    /\ IF event[work[w].key] # "absent"
       THEN work' = [work EXCEPT ![w] = Idle] /\ UNCHANGED <<told, event, confirmed>>
       ELSE /\ event' = [event EXCEPT ![work[w].key] = work[w].result]
            /\ confirmed' = [confirmed EXCEPT ![work[w].key] =
                                @ + (IF work[w].result = "SUCCEEDED" THEN 1 ELSE 0)]
            /\ Tell(w, work[w].msg,
                    IF work[w].result = "rejected" THEN "refused" ELSE "accepted")
    /\ UNCHANGED <<payment, old>>

(***************************************************************************)
(* What happens around the handlers.  A callback may be delivered any      *)
(* number of times, in any order, before and after the payment is decided. *)
(***************************************************************************)
PaymentDecides(c) ==
    /\ payment[c] = "pending"
    /\ \E r \in {"paid", "failed"} : payment' = [payment EXCEPT ![c] = r]
    /\ UNCHANGED <<told, old, event, confirmed, work>>

Ages(m) ==
    /\ m.rail = "loop" /\ m.sign = "good"
    /\ old' = old \cup {m}
    /\ UNCHANGED <<payment, told, event, confirmed, work>>

Dies(w) ==
    /\ Interruptions /\ work[w] # Idle
    /\ work' = [work EXCEPT ![w] = Idle]
    /\ UNCHANGED <<payment, told, old, event, confirmed>>

Next ==
    \/ \E w \in Workers :
         \/ \E m \in Messages : ReceiveLoop(w, m) \/ ReceivePesapal(w, m)
         \/ InquireLoop(w) \/ InquirePesapal(w) \/ InquiryTimesOut(w)
         \/ Commit(w) \/ Dies(w)
    \/ \E m \in Messages : Ages(m)
    \/ \E c \in Rails \X Refs : PaymentDecides(c)

Spec == Init /\ [][Next]_vars

(***************************************************************************)
(* The providers deliver a callback again until it is accepted, forgers    *)
(* need not, and not every inquiry and every commit is cut short.          *)
(***************************************************************************)
Redelivery ==
    \A m \in {n \in Messages : n.rail = "loop" => n.sign = "good"} :
      SF_vars(\E w \in Workers : told[m] = "sent" /\ (ReceiveLoop(w, m) \/ ReceivePesapal(w, m)))

Progress ==
    /\ SF_vars(\E w \in Workers : InquireLoop(w) \/ InquirePesapal(w))
    /\ SF_vars(\E w \in Workers : Commit(w))

FairSpec == Spec /\ Redelivery /\ Progress

-----------------------------------------------------------------------------
(***************************************************************************)
(* Properties                                                              *)
(***************************************************************************)
\* A collection is confirmed in the audit trail only if the provider was paid,
\* whatever the callback said.
ConfirmedWasPaid ==
    \A m \in Messages :
      confirmed[KeyOf(m)] > 0 =>
        RefOf(m) # NoRef /\ payment[<<m.rail, RefOf(m)>>] = "paid"

\* Callbacks of one collection confirm it once, and only as its event records,
\* however many workers serve them at the same time.
ConfirmedOnce ==
    \A k \in Keys : confirmed[k] = IF event[k] = "SUCCEEDED" THEN 1 ELSE 0

\* A callback answered with success, which will not come again, or another one
\* of its collection was looked up: no forged one took its key.
AcceptedIsLookedUp ==
    \A m \in Messages : told[m] = "accepted" => event[KeyOf(m)] \notin {"absent", "rejected"}

\* A callback is looked up in the end, unless it is LOOP's and its signature is
\* bad or became too old first.
DeliveredIsLookedUp ==
    \A m \in Messages :
      told[m] = "sent" ~>
        \/ event[KeyOf(m)] \notin {"absent", "rejected"}
        \/ m.rail = "loop" /\ ~SignatureValid(m)
=============================================================================
