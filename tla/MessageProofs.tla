----------------------------- MODULE MessageProofs -----------------------------
(***************************************************************************)
(* What comes in from providers and what goes out to the parties.  The     *)
(* collection webhooks confirm what was paid, once, and answer success     *)
(* only for what was looked up: for any callbacks and any number of        *)
(* workers.  A notice's status tells what became of its texts: for any     *)
(* sessions, threads, transitions and faults.                              *)
(***************************************************************************)
EXTENDS CollectionWebhooks, Notices, FiniteSetTheorems, TLAPS

\* What a worker is about to commit was true when the provider answered, and a
\* payment, once made, stays so.
ResultsAreTrue ==
    \A w \in Workers :
      work[w] # Idle /\ work[w].result = "SUCCEEDED" =>
        /\ RefOf(work[w].msg) # NoRef
        /\ payment[<<work[w].msg.rail, RefOf(work[w].msg)>>] = "paid"

EventsAreTrue ==
    \A m \in Messages :
      event[KeyOf(m)] = "SUCCEEDED" =>
        RefOf(m) # NoRef /\ payment[<<m.rail, RefOf(m)>>] = "paid"

\* The key space of rejected callbacks is disjoint from the others.
NeverRejected == \A m \in Messages : event[KeyOf(m)] # "rejected"

\* Only a callback with a reference is asked about.
Asked == \A w \in Workers : work[w].at = "inquire" => RefOf(work[w].msg) # NoRef

Inv == /\ TypeOK /\ Asked /\ ConfirmedOnce /\ ResultsAreTrue /\ EventsAreTrue
       /\ NeverRejected /\ AcceptedIsLookedUp

\* Two callbacks that share a key name the same collection.
LEMMA SameKeySameRef ==
    ASSUME NEW m \in Messages, NEW g \in Messages, KeyOf(m) = KeyOf(g), RefOf(m) # NoRef
    PROVE  RefOf(g) = RefOf(m) /\ g.rail = m.rail
BY DEF KeyOf

\* A reference that is not absent is one of Refs.
LEMMA RefType ==
    ASSUME NEW m \in Messages, RefOf(m) # NoRef
    PROVE  RefOf(m) \in Refs /\ <<m.rail, RefOf(m)>> \in Rails \X Refs
<1>1. MessageFields(m)
  BY WebhookAssumption
<1> QED BY <1>1 DEF MessageFields, RefOf

\* No callback is looked up under the key of a rejection.
LEMMA KeysAreApart ==
    ASSUME NEW m \in Messages, NEW g \in Messages
    PROVE  KeyOf(m) # RejectedKey(g)
BY DEF KeyOf, RejectedKey

LEMMA InitInv == ASSUME Init PROVE Inv
BY DEF Init, Inv, TypeOK, Asked, ConfirmedOnce, ResultsAreTrue, EventsAreTrue, NeverRejected,
       AcceptedIsLookedUp, Keys, Records, Outcomes, Answers, Idle

-----------------------------------------------------------------------------
(***************************************************************************)
(* One lemma per step.                                                     *)
(***************************************************************************)
\* What the work of a worker refers to.
LEMMA WorkType ==
    ASSUME TypeOK, NEW w \in Workers, work[w] # Idle
    PROVE  /\ work[w] \in AtWork
           /\ work[w].msg \in Messages /\ work[w].key \in Keys
           /\ work[w].at = "inquire" => work[w].key = KeyOf(work[w].msg)
           /\ work[w].at = "commit" =>
                /\ work[w].result \in Records
                /\ work[w].key = IF work[w].result = "rejected" THEN RejectedKey(work[w].msg)
                                 ELSE KeyOf(work[w].msg)
BY DEF TypeOK, AtWork, Work, Keys, Records, Outcomes

\* Steps that only change what one worker is in the middle of.
LEMMA WorkChanges ==
    ASSUME Inv, NEW w \in Workers, NEW v \in {Idle} \cup AtWork,
           work' = [work EXCEPT ![w] = v],
           UNCHANGED <<payment, told, old, event, confirmed>>,
           v # Idle /\ v.result = "SUCCEEDED" =>
             RefOf(v.msg) # NoRef /\ payment[<<v.msg.rail, RefOf(v.msg)>>] = "paid",
           v.at = "inquire" => RefOf(v.msg) # NoRef
    PROVE  Inv'
<1>1. TypeOK'
  BY DEF Inv, TypeOK
<1>2. ResultsAreTrue'
  BY DEF Inv, TypeOK, ResultsAreTrue
<1>3. Asked'
  BY DEF Inv, TypeOK, Asked
<1> QED BY <1>1, <1>2, <1>3 DEF Inv, ConfirmedOnce, EventsAreTrue, NeverRejected, AcceptedIsLookedUp

\* An answer about a recorded callback.
LEMMA ToldChanges ==
    ASSUME Inv, NEW w \in Workers, NEW m \in Messages, NEW answer \in Answers,
           Tell(w, m, answer), UNCHANGED <<payment, old, event, confirmed>>,
           answer = "accepted" => event[KeyOf(m)] # "absent"
    PROVE  Inv'
<1>1. TypeOK'
  BY DEF Inv, TypeOK, Tell
<1>2. ResultsAreTrue'
  BY DEF Inv, TypeOK, ResultsAreTrue, Tell
<1>3. AcceptedIsLookedUp'
  BY DEF Inv, TypeOK, NeverRejected, AcceptedIsLookedUp, Tell
<1>4. Asked'
  BY DEF Inv, TypeOK, Asked, Tell, Idle
<1> QED BY <1>1, <1>2, <1>3, <1>4 DEF Inv, ConfirmedOnce, EventsAreTrue, NeverRejected

LEMMA LookInv ==
    ASSUME Inv, NEW w \in Workers, NEW m \in Messages, Look(w, m),
           UNCHANGED <<payment, old, event, confirmed>>
    PROVE  Inv'
<1>1. CASE event[KeyOf(m)] # "absent"
  BY <1>1, ToldChanges DEF Look, Answers
<1>2. CASE event[KeyOf(m)] = "absent" /\ RefOf(m) = NoRef
  <2> DEFINE v == Work(m, "commit", KeyOf(m), "ignored")
  <2>1. v \in {Idle} \cup AtWork /\ v.result # "SUCCEEDED" /\ v.at = "commit"
    BY DEF AtWork, Work, Records, Outcomes
  <2> QED BY <1>2, <2>1, WorkChanges DEF Look, Begin
<1>3. CASE event[KeyOf(m)] = "absent" /\ RefOf(m) # NoRef
  <2> DEFINE v == Work(m, "inquire", KeyOf(m), "none")
  <2>1. v \in {Idle} \cup AtWork /\ v.result # "SUCCEEDED" /\ v.msg = m
    BY DEF AtWork, Work
  <2> QED BY <1>3, <2>1, WorkChanges DEF Look, Begin
<1> QED BY <1>1, <1>2, <1>3

LEMMA ReceiveInv ==
    ASSUME Inv, NEW w \in Workers, NEW m \in Messages,
           ReceiveLoop(w, m) \/ ReceivePesapal(w, m)
    PROVE  Inv'
<1>1. CASE Look(w, m)
  BY <1>1, LookInv DEF ReceiveLoop, ReceivePesapal
<1>2. CASE Reject(w, m)
  <2>1. CASE event[RejectedKey(m)] # "absent"
    BY <1>2, <2>1, ToldChanges DEF Reject, ReceiveLoop, ReceivePesapal, Answers
  <2>2. CASE event[RejectedKey(m)] = "absent"
    <3> DEFINE v == Work(m, "commit", RejectedKey(m), "rejected")
    <3>1. v \in {Idle} \cup AtWork /\ v.result # "SUCCEEDED" /\ v.at = "commit"
      BY DEF AtWork, Work
    <3> QED BY <1>2, <2>2, <3>1, WorkChanges DEF Reject, Begin, ReceiveLoop, ReceivePesapal
  <2> QED BY <2>1, <2>2
<1> QED BY <1>1, <1>2 DEF ReceiveLoop, ReceivePesapal

LEMMA AnsweredInv ==
    ASSUME Inv, NEW w \in Workers, work[w].at = "inquire", work[w] # Idle,
           NEW rail, NEW results \in SUBSET (Records \ {"rejected"}),
           Answered(w, rail, results),
           "SUCCEEDED" \in results =>
             /\ RefOf(work[w].msg) # NoRef
             /\ payment[<<work[w].msg.rail, RefOf(work[w].msg)>>] = "paid"
    PROVE  Inv'
<1>1. /\ work[w].msg \in Messages /\ work[w].key = KeyOf(work[w].msg)
  BY WorkType DEF Inv
<1>2. PICK r \in results : Begin(w, work[w].msg, "commit", work[w].key, r)
  BY DEF Answered
<1> DEFINE v == Work(work[w].msg, "commit", KeyOf(work[w].msg), r)
<1>3. v \in {Idle} \cup AtWork
  BY <1>1, <1>2 DEF AtWork
<1>4. v.msg = work[w].msg /\ v.result = r /\ v.at = "commit"
  BY DEF Work
<1>5. work' = [work EXCEPT ![w] = v]
  BY <1>1, <1>2 DEF Begin
<1>6. v.result = "SUCCEEDED" =>
        RefOf(v.msg) # NoRef /\ payment[<<v.msg.rail, RefOf(v.msg)>>] = "paid"
  BY <1>2, <1>4
<1>7. UNCHANGED <<payment, told, old, event, confirmed>> /\ v.at # "inquire"
  BY <1>2, <1>4 DEF Answered, Begin
<1> HIDE DEF v
<1> QED BY <1>3, <1>5, <1>6, <1>7, WorkChanges

LEMMA InquireLoopInv == ASSUME Inv, NEW w \in Workers, InquireLoop(w) PROVE Inv'
<1> DEFINE m == work[w].msg
           results == LoopAnswers(RefOf(m)) \cup {"inquiry_failed"}
<1>1. work[w].at = "inquire" /\ work[w] # Idle /\ Answered(w, "loop", results)
  BY DEF InquireLoop, Idle
<1>2. m \in Messages /\ m.rail = "loop" /\ RefOf(m) # NoRef
  BY <1>1, WorkType DEF Inv, Answered, Asked
<1>3. m.rail = "loop" /\ RefOf(m) \in Refs
  BY <1>1, <1>2, RefType DEF Answered
<1>4. payment[<<"loop", RefOf(m)>>] \in {"pending", "paid", "failed"}
  BY <1>3 DEF Inv, TypeOK, Rails
<1>5. results \in SUBSET (Records \ {"rejected"})
  BY <1>4 DEF LoopAnswers, Records, Outcomes
<1>6. "SUCCEEDED" \in results => payment[<<"loop", RefOf(m)>>] = "paid"
  BY <1>4 DEF LoopAnswers
<1> QED BY <1>1, <1>2, <1>3, <1>5, <1>6, AnsweredInv

LEMMA InquirePesapalInv == ASSUME Inv, NEW w \in Workers, InquirePesapal(w) PROVE Inv'
<1> DEFINE m == work[w].msg
           results == PesapalAnswers(RefOf(m)) \cup {"inquiry_failed"}
<1>1. work[w].at = "inquire" /\ work[w] # Idle /\ Answered(w, "pesapal", results)
  BY DEF InquirePesapal, Idle
<1>2. m \in Messages /\ m.rail = "pesapal" /\ RefOf(m) # NoRef
  BY <1>1, WorkType DEF Inv, Answered, Asked
<1>3. m.rail = "pesapal" /\ RefOf(m) \in Refs
  BY <1>1, <1>2, RefType DEF Answered
<1>4. payment[<<"pesapal", RefOf(m)>>] \in {"pending", "paid", "failed"}
  BY <1>3 DEF Inv, TypeOK, Rails
<1>5. results \in SUBSET (Records \ {"rejected"})
  BY <1>4 DEF PesapalAnswers, Records, Outcomes
<1>6. "SUCCEEDED" \in results => payment[<<"pesapal", RefOf(m)>>] = "paid"
  BY <1>4 DEF PesapalAnswers
<1> QED BY <1>1, <1>2, <1>3, <1>5, <1>6, AnsweredInv

\* The commit: the unique index keeps a key's event, and its audit row, single.
LEMMA CommitInv == ASSUME Inv, NEW w \in Workers, Commit(w) PROVE Inv'
<1> DEFINE m == work[w].msg
           k == work[w].key
           r == work[w].result
<1>1. work[w].at = "commit" /\ work[w] # Idle
  BY DEF Commit, Idle
<1>2. /\ m \in Messages /\ k \in Keys /\ r \in Records
      /\ k = IF r = "rejected" THEN RejectedKey(m) ELSE KeyOf(m)
  BY <1>1, WorkType DEF Inv
<1>3. CASE event[k] # "absent"
  <2>1. work' = [work EXCEPT ![w] = Idle] /\ UNCHANGED <<payment, told, old, event, confirmed>>
    BY <1>3 DEF Commit
  <2>2. Idle.at # "inquire"
    BY DEF Idle
  <2> QED BY <2>1, <2>2, WorkChanges
<1>4. CASE event[k] = "absent"
  <2>1. /\ event' = [event EXCEPT ![k] = r]
        /\ confirmed' = [confirmed EXCEPT ![k] = @ + (IF r = "SUCCEEDED" THEN 1 ELSE 0)]
        /\ told' = [told EXCEPT ![m] = IF r = "rejected" THEN "refused" ELSE "accepted"]
        /\ work' = [work EXCEPT ![w] = Idle]
        /\ UNCHANGED <<payment, old>>
    BY <1>4 DEF Commit, Tell
  <2>2. event \in [Keys -> Records \cup {"absent"}] /\ confirmed \in [Keys -> Nat]
    BY DEF Inv, TypeOK
  <2>3. TypeOK'
    BY <1>2, <2>1, <2>2 DEF Inv, TypeOK, Answers
  <2>4. ConfirmedOnce'
    BY <1>2, <1>4, <2>1, <2>2 DEF Inv, ConfirmedOnce, Records, Outcomes
  <2>5. ResultsAreTrue'
    BY <2>1 DEF Inv, TypeOK, ResultsAreTrue
  <2>6. EventsAreTrue'
    <3> SUFFICES ASSUME NEW g \in Messages, event'[KeyOf(g)] = "SUCCEEDED"
                 PROVE  RefOf(g) # NoRef /\ payment'[<<g.rail, RefOf(g)>>] = "paid"
      BY DEF EventsAreTrue
    <3>0. KeyOf(g) \in Keys
      BY DEF Keys
    <3>1. CASE KeyOf(g) = k
      <4>1. r = "SUCCEEDED" /\ k = KeyOf(m)
        BY <1>2, <2>1, <2>2, <3>1
      <4>2. RefOf(m) # NoRef /\ payment[<<m.rail, RefOf(m)>>] = "paid"
        BY <1>1, <4>1 DEF Inv, ResultsAreTrue
      <4> QED BY <1>2, <2>1, <3>1, <4>1, <4>2, SameKeySameRef
    <3>2. CASE KeyOf(g) # k
      BY <2>1, <2>2, <3>0, <3>2 DEF Inv, EventsAreTrue
    <3> QED BY <3>1, <3>2
  <2>7. NeverRejected'
    <3> SUFFICES ASSUME NEW g \in Messages PROVE event'[KeyOf(g)] # "rejected"
      BY DEF NeverRejected
    <3>1. KeyOf(g) \in Keys /\ KeyOf(g) # RejectedKey(m)
      BY <1>2, KeysAreApart DEF Keys
    <3> QED BY <1>2, <2>1, <2>2, <3>1 DEF Inv, NeverRejected
  <2>8. AcceptedIsLookedUp'
    <3> SUFFICES ASSUME NEW g \in Messages, told'[g] = "accepted"
                 PROVE  event'[KeyOf(g)] # "absent"
      BY <2>7 DEF AcceptedIsLookedUp, NeverRejected
    <3>1. KeyOf(g) \in Keys
      BY DEF Keys
    <3>2. CASE g = m
      BY <1>2, <2>1, <2>2, <3>1, <3>2 DEF Inv, TypeOK, Records, Outcomes
    <3>3. CASE g # m
      <4>1. told[g] = "accepted"
        BY <2>1, <3>3 DEF Inv, TypeOK
      <4>2. event[KeyOf(g)] # "absent"
        BY <4>1 DEF Inv, AcceptedIsLookedUp
      <4> QED BY <1>2, <2>1, <2>2, <3>1, <4>2 DEF Records, Outcomes
    <3> QED BY <3>2, <3>3
  <2>9. Asked'
    BY <2>1 DEF Inv, TypeOK, Asked, Idle
  <2> QED BY <2>9, <2>3, <2>4, <2>5, <2>6, <2>7, <2>8 DEF Inv
<1> QED BY <1>3, <1>4

LEMMA PaymentInv == ASSUME Inv, NEW c \in Rails \X Refs, PaymentDecides(c) PROVE Inv'
<1>1. \A d \in DOMAIN payment : payment[d] = "paid" => payment'[d] = "paid"
  BY DEF PaymentDecides, Inv, TypeOK
<1>2. TypeOK'
  BY DEF PaymentDecides, Inv, TypeOK
<1>3. ResultsAreTrue'
  <2> SUFFICES ASSUME NEW w \in Workers, work[w] # Idle, work[w].result = "SUCCEEDED"
               PROVE  /\ RefOf(work[w].msg) # NoRef
                      /\ payment'[<<work[w].msg.rail, RefOf(work[w].msg)>>] = "paid"
    BY DEF ResultsAreTrue, PaymentDecides
  <2>1. work[w].msg \in Messages /\ RefOf(work[w].msg) # NoRef
        /\ payment[<<work[w].msg.rail, RefOf(work[w].msg)>>] = "paid"
    BY WorkType DEF Inv, ResultsAreTrue
  <2>2. <<work[w].msg.rail, RefOf(work[w].msg)>> \in DOMAIN payment
    BY <2>1, RefType DEF Inv, TypeOK
  <2> QED BY <1>1, <2>1, <2>2
<1>4. EventsAreTrue'
  <2> SUFFICES ASSUME NEW m \in Messages, event[KeyOf(m)] = "SUCCEEDED"
               PROVE  RefOf(m) # NoRef /\ payment'[<<m.rail, RefOf(m)>>] = "paid"
    BY DEF EventsAreTrue, PaymentDecides
  <2>1. RefOf(m) # NoRef /\ payment[<<m.rail, RefOf(m)>>] = "paid"
    BY DEF Inv, EventsAreTrue
  <2>2. <<m.rail, RefOf(m)>> \in DOMAIN payment
    BY <2>1, RefType DEF Inv, TypeOK
  <2> QED BY <1>1, <2>1, <2>2
<1> QED BY <1>2, <1>3, <1>4
        DEF Inv, Asked, ConfirmedOnce, NeverRejected, AcceptedIsLookedUp, PaymentDecides

LEMMA NextInv == ASSUME Inv, [Next]_vars PROVE Inv'
<1>1. ASSUME NEW w \in Workers, NEW m \in Messages, ReceiveLoop(w, m) \/ ReceivePesapal(w, m)
      PROVE  Inv'
  BY <1>1, ReceiveInv
<1>2. ASSUME NEW w \in Workers, InquireLoop(w) \/ InquirePesapal(w) PROVE Inv'
  BY <1>2, InquireLoopInv, InquirePesapalInv
<1>3. ASSUME NEW w \in Workers, InquiryTimesOut(w) \/ Dies(w) PROVE Inv'
  <2>1. work' = [work EXCEPT ![w] = Idle] /\ UNCHANGED <<payment, told, old, event, confirmed>>
    BY <1>3 DEF InquiryTimesOut, Dies
  <2>2. Idle.at # "inquire"
    BY DEF Idle
  <2> QED BY <2>1, <2>2, WorkChanges
<1>4. ASSUME NEW w \in Workers, Commit(w) PROVE Inv'
  BY <1>4, CommitInv
<1>5. ASSUME NEW m \in Messages, Ages(m) PROVE Inv'
  BY <1>5 DEF Ages, Inv, TypeOK, Asked, ConfirmedOnce, ResultsAreTrue, EventsAreTrue, NeverRejected,
              AcceptedIsLookedUp
<1>6. ASSUME NEW c \in Rails \X Refs, PaymentDecides(c) PROVE Inv'
  BY <1>6, PaymentInv
<1>7. CASE UNCHANGED vars
  BY <1>7 DEF vars, Inv, TypeOK, Asked, ConfirmedOnce, ResultsAreTrue, EventsAreTrue, NeverRejected,
              AcceptedIsLookedUp
<1> QED BY <1>1, <1>2, <1>3, <1>4, <1>5, <1>6, <1>7 DEF Next

-----------------------------------------------------------------------------
LEMMA Invariance == Spec => []Inv
BY InitInv, NextInv, PTL DEF Spec

\* The columns and the workers keep their types.
THEOREM WebhookTypes == Spec => []TypeOK
<1>1. Inv => TypeOK
  BY DEF Inv
<1> QED BY <1>1, Invariance, PTL

\* Overlapping and repeated callbacks of one collection confirm it exactly once,
\* and only when its event says that it succeeded.
THEOREM CollectionConfirmedOnce == Spec => []ConfirmedOnce
<1>1. Inv => ConfirmedOnce
  BY DEF Inv
<1> QED BY <1>1, Invariance, PTL

\* What the audit trail calls confirmed was paid at the provider.
THEOREM ConfirmationWasPaid == Spec => []ConfirmedWasPaid
<1>1. ASSUME Inv PROVE ConfirmedWasPaid
  <2> SUFFICES ASSUME NEW m \in Messages, confirmed[KeyOf(m)] > 0
               PROVE  RefOf(m) # NoRef /\ payment[<<m.rail, RefOf(m)>>] = "paid"
    BY DEF ConfirmedWasPaid
  <2>1. KeyOf(m) \in Keys
    BY DEF Keys
  <2>2. event[KeyOf(m)] = "SUCCEEDED"
    BY <1>1, <2>1 DEF Inv, ConfirmedOnce
  <2> QED BY <1>1, <2>2 DEF Inv, EventsAreTrue
<1> QED BY <1>1, Invariance, PTL

\* A callback answered with success was looked up, or one of its collection was,
\* whatever forged callbacks arrived.
THEOREM AcceptedWasLookedUp == Spec => []AcceptedIsLookedUp
<1>1. Inv => AcceptedIsLookedUp
  BY DEF Inv
<1> QED BY <1>1, Invariance, PTL

-----------------------------------------------------------------------------
(***************************************************************************)
(* The notices.                                                            *)
(***************************************************************************)
\* What a session has noted are rows it has written.
HandsKept == \A s \in Sessions :
    IsFiniteSet(hand[s].added) /\ hand[s].pending \subseteq 1..Len(hand[s].written)

\* A thread has each row in one way, and none without a job.
PartsApart(w) ==
    /\ texting[w].todo \cap (texting[w].sent \cup texting[w].failed) = {}
    /\ texting[w].sent \cap texting[w].failed = {}
    /\ texting[w].row \notin texting[w].todo \cup texting[w].sent \cup texting[w].failed
    /\ ~texting[w].busy => Held(w) = {}

\* A row waits in one job at most, or one thread has it in hand.
Apart ==
    /\ \A i \in DOMAIN jobs : \A j \in DOMAIN jobs : i # j => jobs[i] \cap jobs[j] = {}
    /\ \A i \in DOMAIN jobs : \A w \in Threads : jobs[i] \cap Held(w) = {}
    /\ \A w \in Threads : \A v \in Threads : w # v => Held(w) \cap Held(v) = {}
    /\ \A w \in Threads : PartsApart(w)

Untexted(n) == n \in DOMAIN notices /\ notices[n].status = "not_attempted"

\* What the texts of a row that is waiting or in hand amount to.
Underneath ==
    /\ \A i \in DOMAIN jobs : \A n \in jobs[i] : Untexted(n) /\ texts[n].arrived = 0
    /\ \A w \in Threads :
        /\ \A n \in Held(w) : Untexted(n)
        /\ \A n \in texting[w].todo : texts[n].arrived = 0
        /\ texting[w].row # 0 => texts[texting[w].row].arrived = texts[texting[w].row].unheard
        /\ \A n \in texting[w].sent : texts[n].arrived = texts[n].unheard + 1
        /\ \A n \in texting[w].failed : texts[n].arrived = texts[n].unheard

\* Of the texts of a row that arrived, the answers of all but one at most were lost.
Heard == \A n \in DOMAIN notices :
    /\ texts[n].unheard <= texts[n].arrived /\ texts[n].arrived <= texts[n].unheard + 1
    /\ notices[n].status = "sent" => texts[n].arrived = texts[n].unheard + 1
    /\ notices[n].status = "failed" => texts[n].arrived = texts[n].unheard
    /\ notices[n].status = "not_attempted" /\ texts[n].arrived > 0 =>
         n \in dropped \cup UNION {Held(w) : w \in Threads}

NoticeInv == NoticesTypeOK /\ HandsKept /\ Apart /\ Underneath /\ Heard
-----------------------------------------------------------------------------
\* Every transition tells finitely many rows.
LEMMA FewRows ==
    ASSUME NEW rows \in Happening
    PROVE  IsFiniteSet(rows) /\ rows \subseteq Rows
<1>1. rows \in Transitions
  BY HappeningAssumption
<1>2. \A a, b : IsFiniteSet({a, b}) /\ IsFiniteSet({a})
  <2> TAKE a, b
  <2>1. IsFiniteSet({a})
    BY FS_Singleton
  <2>2. IsFiniteSet({a} \cup {b})
    BY <2>1, FS_AddElement
  <2>3. {a} \cup {b} = {a, b}
    OBVIOUS
  <2> QED BY <2>1, <2>2, <2>3
<1>3. \A e : Both(e) = {Row("buyer", e, FALSE), Row("seller", e, FALSE)}
  BY DEF Both
<1>4. \A e : IsFiniteSet(Both(e))
  BY <1>2, <1>3
<1>5. IsFiniteSet(Arrival) /\ IsFiniteSet(PayoutAlert)
  BY <1>2 DEF Arrival, PayoutAlert
<1>6. IsFiniteSet(rows)
  BY <1>1, <1>4, <1>5
     DEF Transitions, Created, Locked, Dispatched, OtpGiven, OtpWithheld, TimedOut, AutoCancelled,
         ReceiptTimedOut, DisputeOpened, BuyerSentBack, SellerReceived, SellerResolution,
         BuyerReconfirmation, MutualConfirmation, PartyEscalated, AdminDecision
<1> QED BY <1>1, <1>6 DEF Rows

\* A finite set is written out in full.
LEMMA WrittenOut ==
    ASSUME NEW S, IsFiniteSet(S)
    PROVE  SetToSeq(S) \in Seq(S) /\ Len(SetToSeq(S)) = Cardinality(S) /\ Cardinality(S) \in Nat
<1>1. Cardinality(S) \in Nat /\ ExistsBijection(1..Cardinality(S), S)
  BY FS_CardinalityType
<1>2. \E f \in [1..Cardinality(S) -> S] : IsInjective(f)
  BY <1>1 DEF ExistsBijection, Bijection, Injection, IsInjective
<1>3. SetToSeq(S) \in [1..Cardinality(S) -> S]
  BY <1>2 DEF SetToSeq
<1> QED BY <1>1, <1>3

\* A flush writes what was added after what was written, and notes it.
LEMMA FlushedHand ==
    ASSUME NEW h \in Hand, IsFiniteSet(h.added), h.pending \subseteq 1..Len(h.written)
    PROVE  /\ Flushed(h) \in Hand /\ Flushed(h).added = {}
           /\ Flushed(h).pending \subseteq 1..Len(Flushed(h).written)
<1> DEFINE q == SetToSeq(h.added)
           n == Cardinality(h.added)
<1>1. q \in Seq(h.added) /\ Len(q) = n /\ n \in Nat
  BY WrittenOut
<1>2. h.written \in Seq(Rows) /\ h.added \subseteq Rows /\ h.pending \subseteq Nat
  BY DEF Hand
<1>3. q \in Seq(Rows)
  BY <1>1, <1>2
<1> HIDE DEF q, n
<1>4. h.written \o q \in Seq(Rows) /\ Len(h.written \o q) = Len(h.written) + n /\ Len(h.written) \in Nat
  BY <1>1, <1>2, <1>3
<1>5. Collect(h) = h.pending \cup {Len(h.written) + i : i \in 1..n}
  BY DEF Collect, n
<1>6. Collect(h) \subseteq 1..(Len(h.written) + n) /\ Collect(h) \subseteq Nat
  BY <1>1, <1>2, <1>4, <1>5
<1>7. Flushed(h) = [h EXCEPT !.added = {}, !.written = h.written \o q, !.pending = Collect(h)]
  BY DEF Flushed, q
<1>8. /\ Flushed(h).added = {} /\ Flushed(h).written = h.written \o q
      /\ Flushed(h).pending = Collect(h) /\ Flushed(h) \in Hand
  BY <1>4, <1>6, <1>7 DEF Hand
<1> QED BY <1>4, <1>6, <1>8
-----------------------------------------------------------------------------
\* What a step leaves alone when it touches sessions only.
LEMMA OnlyHands ==
    ASSUME NoticeInv, UNCHANGED <<notices, jobs, texting, texts, dropped>>
    PROVE  Apart' /\ Underneath' /\ Heard'
BY DEF NoticeInv, Apart, PartsApart, Underneath, Heard, Held, Untexted

LEMMA SetHand ==
    ASSUME NoticeInv, NEW s \in Sessions, NEW h \in Hand,
           IsFiniteSet(h.added), h.pending \subseteq 1..Len(h.written),
           hand' = [hand EXCEPT ![s] = h]
    PROVE  hand' \in [Sessions -> Hand] /\ HandsKept'
BY DEF NoticeInv, NoticesTypeOK, HandsKept

LEMMA NoHandType ==
    NoHand \in Hand /\ IsFiniteSet(NoHand.added) /\ NoHand.pending \subseteq 1..Len(NoHand.written)
BY FS_EmptySet DEF NoHand, Hand

LEMMA AddKeeps ==
    ASSUME NoticeInv, NEW s \in Sessions, NEW rows \in Happening, Add(s, rows)
    PROVE  NoticeInv'
<1> DEFINE h == [hand[s] EXCEPT !.busy = TRUE, !.added = hand[s].added \cup rows]
<1>1. IsFiniteSet(rows) /\ rows \subseteq Rows
  BY FewRows
<1>2. hand[s] \in Hand /\ IsFiniteSet(hand[s].added) /\ hand[s].pending \subseteq 1..Len(hand[s].written)
  BY DEF NoticeInv, NoticesTypeOK, HandsKept
<1>3. IsFiniteSet(hand[s].added \cup rows)
  BY <1>1, <1>2, FS_Union
<1>4. h \in Hand /\ IsFiniteSet(h.added) /\ h.pending \subseteq 1..Len(h.written)
  BY <1>1, <1>2, <1>3 DEF Hand
<1>5. hand' = [hand EXCEPT ![s] = h]
  BY DEF Add, NoticeInv, NoticesTypeOK
<1> HIDE DEF h
<1>6. hand' \in [Sessions -> Hand] /\ HandsKept'
  BY <1>4, <1>5, SetHand
<1>7. UNCHANGED <<gateway, notices, jobs, texting, muted, texts, dropped, skipped, faults>>
  BY DEF Add
<1> QED BY <1>6, <1>7, OnlyHands DEF NoticeInv, NoticesTypeOK

LEMMA FlushKeeps ==
    ASSUME NoticeInv, NEW s \in Sessions, Flush(s)
    PROVE  NoticeInv'
<1>1. hand[s] \in Hand /\ IsFiniteSet(hand[s].added) /\ hand[s].pending \subseteq 1..Len(hand[s].written)
  BY DEF NoticeInv, NoticesTypeOK, HandsKept
<1> DEFINE h == Flushed(hand[s])
<1>2. h \in Hand /\ h.added = {} /\ h.pending \subseteq 1..Len(h.written)
  BY <1>1, FlushedHand
<1>3. hand' = [hand EXCEPT ![s] = h] /\ UNCHANGED <<gateway, notices, jobs, texting, muted, texts, dropped, skipped, faults>>
  BY DEF Flush
<1> HIDE DEF h
<1>4. hand' \in [Sessions -> Hand] /\ HandsKept'
  BY <1>2, <1>3, SetHand, FS_EmptySet
<1> QED BY <1>3, <1>4, OnlyHands DEF NoticeInv, NoticesTypeOK

LEMMA RollbackKeeps ==
    ASSUME NoticeInv, NEW s \in Sessions, Rollback(s)
    PROVE  NoticeInv'
<1>1. hand' = [hand EXCEPT ![s] = NoHand]
      /\ UNCHANGED <<gateway, notices, jobs, texting, muted, texts, dropped, skipped, faults>>
  BY DEF Rollback
<1>2. hand' \in [Sessions -> Hand] /\ HandsKept'
  BY <1>1, SetHand, NoHandType
<1> QED BY <1>1, <1>2, OnlyHands DEF NoticeInv, NoticesTypeOK
-----------------------------------------------------------------------------
\* What a sequence is once another was appended.
LEMMA Appended ==
    ASSUME NEW S, NEW a \in Seq(S), NEW b \in Seq(S), NEW c, c = a \o b
    PROVE  /\ c \in Seq(S) /\ Len(c) = Len(a) + Len(b)
           /\ \A n \in 1..Len(a) : c[n] = a[n]
           /\ \A n \in (Len(a)+1)..(Len(a)+Len(b)) : n - Len(a) \in 1..Len(b) /\ c[n] = b[n - Len(a)]
OBVIOUS

\* The rows of a commit are new: no job, thread or fault knows of them.
LEMMA CommitKeeps ==
    ASSUME NoticeInv, NEW s \in Sessions, CommitRows(s)
    PROVE  NoticeInv'
<1> DEFINE h == Flushed(hand[s])
           m == Len(notices)
           more == [i \in DOMAIN h.written |-> [row |-> h.written[i], status |-> "not_attempted"]]
           none == [i \in DOMAIN h.written |-> [arrived |-> 0, unheard |-> 0]]
           job == {m + i : i \in h.pending}
<1>1. hand[s] \in Hand /\ IsFiniteSet(hand[s].added) /\ hand[s].pending \subseteq 1..Len(hand[s].written)
  BY DEF NoticeInv, NoticesTypeOK, HandsKept
<1>2. h \in Hand /\ h.pending \subseteq 1..Len(h.written)
  BY <1>1, FlushedHand
<1>3. /\ notices' = notices \o more /\ texts' = texts \o none
      /\ jobs' = IF h.pending = {} THEN jobs ELSE Append(jobs, job)
      /\ hand' = [hand EXCEPT ![s] = NoHand]
      /\ UNCHANGED <<gateway, texting, muted, dropped, skipped, faults>>
  BY DEF CommitRows
<1> DEFINE k == Len(h.written)
<1>4. h.written \in Seq(Rows) /\ k \in Nat /\ DOMAIN h.written = 1..k
  BY <1>2 DEF Hand
<1> HIDE DEF h
<1>5. more \in Seq(Notice) /\ Len(more) = k /\ \A i \in 1..k : more[i].status = "not_attempted"
  BY <1>4 DEF Notice, Statuses, Rows
<1>6. none \in Seq(Text) /\ Len(none) = k /\ \A i \in 1..k : none[i] = [arrived |-> 0, unheard |-> 0]
  BY <1>4 DEF Text
<1>7. job \subseteq m+1 .. m+k /\ job \subseteq Nat /\ m \in Nat
  BY <1>2, <1>4 DEF NoticeInv, NoticesTypeOK
<1>k. k = Len(more) /\ k = Len(none) /\ k \in Nat
  BY <1>4, <1>5, <1>6
<1>m. m = Len(notices) /\ m \in Nat
  BY <1>7
<1> HIDE DEF more, none, job, k, m
<1>8. /\ notices \in Seq(Notice) /\ texts \in Seq(Text) /\ Len(texts) = m /\ DOMAIN notices = 1..m
  BY <1>m DEF NoticeInv, NoticesTypeOK
<1>9. /\ notices' \in Seq(Notice) /\ Len(notices') = m + k /\ DOMAIN notices' = 1..(m + k)
      /\ \A n \in 1..m : notices'[n] = notices[n]
      /\ \A n \in (m+1)..(m+k) : notices'[n].status = "not_attempted"
  <2>1. /\ notices' \in Seq(Notice) /\ Len(notices') = m + k
        /\ \A n \in 1..m : notices'[n] = notices[n]
        /\ \A n \in (m+1)..(m+k) : n - m \in 1..k /\ notices'[n] = more[n - m]
    <3>1. notices' = notices \o more /\ notices \in Seq(Notice) /\ more \in Seq(Notice)
      BY <1>3, <1>5, <1>8
    <3>2. /\ notices' \in Seq(Notice) /\ Len(notices') = Len(notices) + Len(more)
          /\ \A n \in 1..Len(notices) : notices'[n] = notices[n]
          /\ \A n \in (Len(notices)+1)..(Len(notices)+Len(more)) :
               n - Len(notices) \in 1..Len(more) /\ notices'[n] = more[n - Len(notices)]
      BY <3>1, Appended
    <3> QED BY <3>2, <1>k, <1>m
  <2>2. DOMAIN notices' = 1..(m + k)
    BY <2>1
  <2> QED BY <1>5, <2>1, <2>2
<1>10. /\ texts' \in Seq(Text) /\ Len(texts') = m + k
       /\ \A n \in 1..m : texts'[n] = texts[n]
       /\ \A n \in (m+1)..(m+k) : texts'[n].arrived = 0 /\ texts'[n].unheard = 0
  <2>1. /\ texts' \in Seq(Text) /\ Len(texts') = m + k
        /\ \A n \in 1..m : texts'[n] = texts[n]
        /\ \A n \in (m+1)..(m+k) : n - m \in 1..k /\ texts'[n] = none[n - m]
    <3>1. texts' = texts \o none /\ texts \in Seq(Text) /\ none \in Seq(Text)
      BY <1>3, <1>6, <1>8
    <3>2. /\ texts' \in Seq(Text) /\ Len(texts') = Len(texts) + Len(none)
          /\ \A n \in 1..Len(texts) : texts'[n] = texts[n]
          /\ \A n \in (Len(texts)+1)..(Len(texts)+Len(none)) :
               n - Len(texts) \in 1..Len(none) /\ texts'[n] = none[n - Len(texts)]
      BY <3>1, Appended
    <3> QED BY <3>2, <1>8, <1>k
  <2> QED BY <1>6, <2>1
<1>11. hand' \in [Sessions -> Hand] /\ HandsKept'
  BY <1>3, SetHand, NoHandType
<1>12. jobs \in Seq(SUBSET Nat)
  BY DEF NoticeInv, NoticesTypeOK
<1>13. /\ jobs' \in Seq(SUBSET Nat)
       /\ \A i \in DOMAIN jobs' : \/ i \in DOMAIN jobs /\ jobs'[i] = jobs[i]
                                  \/ i = Len(jobs) + 1 /\ jobs'[i] = job
  <2>1. CASE h.pending = {}
    BY <1>3, <1>12, <2>1
  <2>2. CASE h.pending # {}
    <3>1. jobs' = Append(jobs, job) /\ job \in SUBSET Nat
      BY <1>3, <1>7, <2>2
    <3> QED BY <1>12, <3>1
  <2> QED BY <2>1, <2>2
<1>14. NoticesTypeOK'
  BY <1>3, <1>9, <1>10, <1>11, <1>13 DEF NoticeInv, NoticesTypeOK
<1>15. \A w \in Threads : Held(w)' = Held(w) /\ Held(w) \subseteq 1..m
  BY <1>3, <1>8 DEF NoticeInv, Underneath, Untexted, Held
<1>16. \A i \in DOMAIN jobs : jobs[i] \subseteq 1..m
  BY <1>8 DEF NoticeInv, Underneath, Untexted
<1>17. job \cap 1..m = {}
  BY <1>7
<1>18. Apart'
  <2>1. \A i \in DOMAIN jobs' : \A j \in DOMAIN jobs' : i # j => jobs'[i] \cap jobs'[j] = {}
    BY <1>12, <1>13, <1>16, <1>17 DEF NoticeInv, Apart
  <2>2. \A i \in DOMAIN jobs' : \A w \in Threads : jobs'[i] \cap Held(w)' = {}
    BY <1>13, <1>15, <1>17 DEF NoticeInv, Apart
  <2> QED BY <1>3, <1>15, <2>1, <2>2 DEF NoticeInv, Apart, PartsApart
<1>19. \A n \in 1..m : Untexted(n)' <=> Untexted(n)
  <2> TAKE n \in 1..m
  <2>1. n \in DOMAIN notices /\ n \in DOMAIN notices' /\ notices'[n] = notices[n]
    BY <1>k, <1>m, <1>8, <1>9
  <2> QED BY <2>1 DEF Untexted
<1>20. \A n \in job : Untexted(n)' /\ texts'[n].arrived = 0
  <2> TAKE n \in job
  <2>1. n \in (m+1)..(m+k) /\ n \in 1..(m+k)
    BY <1>7, <1>k
  <2>2. n \in DOMAIN notices' /\ notices'[n].status = "not_attempted" /\ texts'[n].arrived = 0
    BY <1>9, <1>10, <2>1
  <2> QED BY <2>2 DEF Untexted
<1>21. Underneath'
  <2>1. \A i \in DOMAIN jobs' : \A n \in jobs'[i] : Untexted(n)' /\ texts'[n].arrived = 0
    BY <1>10, <1>13, <1>16, <1>19, <1>20 DEF NoticeInv, Underneath
  <2>2. \A w \in Threads : \A n \in Held(w) : n \in 1..m /\ Untexted(n)' /\ texts'[n] = texts[n]
    BY <1>10, <1>15, <1>19 DEF NoticeInv, Underneath
  <2>3. \A w \in Threads : /\ texting[w].todo \subseteq Held(w) /\ texting[w].sent \subseteq Held(w)
                           /\ texting[w].failed \subseteq Held(w)
                           /\ texting[w].row # 0 => texting[w].row \in Held(w)
    BY DEF Held
  <2>4. \A w \in Threads : /\ \A n \in Held(w)' : Untexted(n)'
                           /\ \A n \in texting[w].todo : texts'[n].arrived = 0
                           /\ texting[w].row # 0 =>
                                texts'[texting[w].row].arrived = texts'[texting[w].row].unheard
                           /\ \A n \in texting[w].sent : texts'[n].arrived = texts'[n].unheard + 1
                           /\ \A n \in texting[w].failed : texts'[n].arrived = texts'[n].unheard
    BY <1>15, <2>2, <2>3 DEF NoticeInv, Underneath
  <2> QED BY <1>3, <2>1, <2>4 DEF Underneath
<1>22. Heard'
  <2> SUFFICES ASSUME NEW n \in 1..(m + k)
               PROVE  /\ texts'[n].unheard <= texts'[n].arrived
                      /\ texts'[n].arrived <= texts'[n].unheard + 1
                      /\ notices'[n].status = "sent" => texts'[n].arrived = texts'[n].unheard + 1
                      /\ notices'[n].status = "failed" => texts'[n].arrived = texts'[n].unheard
                      /\ notices'[n].status = "not_attempted" /\ texts'[n].arrived > 0 =>
                           n \in dropped' \cup UNION {Held(w)' : w \in Threads}
    BY <1>9 DEF Heard
  <2>1. CASE n \in 1..m
    BY <1>3, <1>8, <1>9, <1>10, <1>15, <2>1 DEF NoticeInv, Heard
  <2>2. CASE n \in (m+1)..(m+k)
    BY <1>9, <1>10, <2>2
  <2> QED BY <1>k, <1>m, <2>1, <2>2
<1> QED BY <1>11, <1>14, <1>18, <1>21, <1>22 DEF NoticeInv
-----------------------------------------------------------------------------
\* The parts of what a thread holds.
LEMMA InHeld ==
    ASSUME NEW w \in Threads
    PROVE  /\ texting[w].todo \subseteq Held(w) /\ texting[w].sent \subseteq Held(w)
           /\ texting[w].failed \subseteq Held(w)
           /\ texting[w].row # 0 => texting[w].row \in Held(w)
           /\ \A n \in Held(w) : \/ n \in texting[w].todo \/ n \in texting[w].sent
                                 \/ n \in texting[w].failed \/ (n = texting[w].row /\ n # 0)
BY DEF Held

\* The threads other than w go on as they were.
OtherThreads(w) == \A v \in Threads : v # w => texting'[v] = texting[v]

LEMMA OthersHold ==
    ASSUME NEW w \in Threads, OtherThreads(w), NEW v \in Threads, v # w
    PROVE  Held(v)' = Held(v)
BY DEF OtherThreads, Held

\* A thread that ends its work holds nothing.
LEMMA HoldsNothing ==
    ASSUME NEW w \in Threads, texting'[w] = NoWork
    PROVE  Held(w)' = {}
BY DEF Held, NoWork

LEMMA NoWorkType == NoWork \in Texting
BY DEF NoWork, Texting

LEMMA FailJobKeeps ==
    ASSUME NoticeInv, NEW w \in Threads, FailJob(w)
    PROVE  NoticeInv'
<1>1. /\ texting' = [texting EXCEPT ![w] = NoWork] /\ dropped' = dropped \cup Held(w)
      /\ faults < MaxFaults /\ faults' = faults + 1
      /\ UNCHANGED <<gateway, notices, hand, jobs, muted, texts, skipped>>
  BY DEF FailJob
<1>2. texting \in [Threads -> Texting]
  BY DEF NoticeInv, NoticesTypeOK
<1>3. texting'[w] = NoWork /\ OtherThreads(w) /\ texting' \in [Threads -> Texting]
  BY <1>1, <1>2, NoWorkType DEF OtherThreads
<1>4. Held(w)' = {} /\ \A v \in Threads : v # w => Held(v)' = Held(v)
  BY <1>3, HoldsNothing, OthersHold
<1>5. NoticesTypeOK' /\ HandsKept'
  <2>1. Held(w) \in SUBSET Nat
    BY <1>2 DEF Held, Texting
  <2>2. faults' \in 0..MaxFaults
    BY <1>1, NoticesAssumption DEF NoticeInv, NoticesTypeOK
  <2> QED BY <1>1, <1>3, <2>1, <2>2 DEF NoticeInv, NoticesTypeOK, HandsKept
<1>6. Apart'
  BY <1>1, <1>3, <1>4 DEF NoticeInv, Apart, PartsApart, OtherThreads, NoWork
<1>7. Underneath'
  BY <1>1, <1>3, <1>4 DEF NoticeInv, Underneath, Untexted, OtherThreads, NoWork
<1>8. Heard'
  BY <1>1, <1>4 DEF NoticeInv, Heard
<1> QED BY <1>5, <1>6, <1>7, <1>8 DEF NoticeInv

LEMMA CrashKeeps ==
    ASSUME NoticeInv, Crash
    PROVE  NoticeInv'
<1>1. /\ texting' = [w \in Threads |-> NoWork] /\ hand' = [s \in Sessions |-> NoHand] /\ jobs' = <<>>
      /\ \A w \in Threads : Held(w) \subseteq dropped'
      /\ dropped \subseteq dropped'
      /\ faults < MaxFaults /\ faults' = faults + 1
      /\ UNCHANGED <<gateway, notices, muted, texts, skipped>>
  BY DEF Crash
<1>2. \A w \in Threads : texting'[w] = NoWork /\ Held(w)' = {}
  BY <1>1, HoldsNothing
<1>3. NoticesTypeOK' /\ HandsKept'
  <2>1. UNION ToSet(jobs) \in SUBSET Nat
    BY DEF NoticeInv, NoticesTypeOK, ToSet
  <2>2. \A w \in Threads : Held(w) \in SUBSET Nat
    BY DEF NoticeInv, NoticesTypeOK, Held, Texting
  <2>3. dropped' \in SUBSET Nat
    <3> DEFINE inHand == UNION {Held(w) : w \in Threads}
               queued == UNION ToSet(jobs)
    <3>1. dropped' = dropped \cup inHand \cup queued
      BY DEF Crash
    <3>2. inHand \in SUBSET Nat /\ queued \in SUBSET Nat
      BY <2>1, <2>2
    <3>3. dropped \in SUBSET Nat
      BY DEF NoticeInv, NoticesTypeOK
    <3> HIDE DEF inHand, queued
    <3> QED BY <3>1, <3>2, <3>3
  <2>4. faults' \in 0..MaxFaults
    BY <1>1, NoticesAssumption DEF NoticeInv, NoticesTypeOK
  <2> QED BY <1>1, <2>3, <2>4, NoWorkType, NoHandType DEF NoticeInv, NoticesTypeOK, HandsKept
<1>4. Apart' /\ Underneath'
  BY <1>1, <1>2 DEF NoticeInv, Apart, PartsApart, Underneath, NoWork
<1>5. Heard'
  BY <1>1 DEF NoticeInv, Heard
<1> QED BY <1>3, <1>4, <1>5 DEF NoticeInv

LEMMA PreferencesKeep ==
    ASSUME NoticeInv, NEW off \in Mutes, SetPreferences(off)
    PROVE  NoticeInv'
BY OnlyHands DEF SetPreferences, NoticeInv, NoticesTypeOK, HandsKept

LEMMA FinishKeeps ==
    ASSUME NoticeInv, NEW w \in Threads, Finish(w)
    PROVE  NoticeInv'
<1>1. /\ texting' = [texting EXCEPT ![w] = NoWork] /\ notices' = Told(w)
      /\ texting[w].todo = {} /\ texting[w].row = 0
      /\ UNCHANGED <<gateway, hand, jobs, muted, texts, dropped, skipped, faults>>
  BY DEF Finish
<1>2. texting \in [Threads -> Texting] /\ notices \in Seq(Notice)
  BY DEF NoticeInv, NoticesTypeOK
<1>3. texting'[w] = NoWork /\ OtherThreads(w) /\ texting' \in [Threads -> Texting]
  BY <1>1, <1>2, NoWorkType DEF OtherThreads
<1>4. Held(w)' = {} /\ \A v \in Threads : v # w => Held(v)' = Held(v)
  BY <1>3, HoldsNothing, OthersHold
<1>5. /\ notices' \in Seq(Notice) /\ Len(notices') = Len(notices) /\ DOMAIN notices' = DOMAIN notices
      /\ \A n \in DOMAIN notices :
           notices'[n].status = IF n \in texting[w].sent THEN "sent"
                                ELSE IF n \in texting[w].failed THEN "failed" ELSE notices[n].status
  <2> DEFINE st(n) == IF n \in texting[w].sent THEN "sent"
                      ELSE IF n \in texting[w].failed THEN "failed" ELSE notices[n].status
             row(n) == [notices[n] EXCEPT !.status = st(n)]
  <2>1. notices' = [n \in DOMAIN notices |-> row(n)]
    BY <1>1 DEF Told
  <2>2. \A n \in DOMAIN notices : notices[n] \in Notice /\ st(n) \in Statuses
    <3> TAKE n \in DOMAIN notices
    <3>1. notices[n] \in Notice
      BY <1>2
    <3>2. notices[n].status \in Statuses
      BY <3>1 DEF Notice
    <3> QED BY <3>1, <3>2 DEF Statuses
  <2> HIDE DEF st
  <2>3. \A n \in DOMAIN notices : row(n) \in Notice /\ row(n).status = st(n)
    BY <2>2 DEF Notice
  <2> HIDE DEF row
  <2>4. DOMAIN notices = 1..Len(notices) /\ Len(notices) \in Nat
    BY <1>2
  <2>5. notices' \in Seq(Notice) /\ Len(notices') = Len(notices) /\ DOMAIN notices' = DOMAIN notices
    BY <2>1, <2>3, <2>4
  <2> QED BY <2>1, <2>3, <2>5 DEF st
<1>6. NoticesTypeOK' /\ HandsKept'
  BY <1>1, <1>3, <1>5 DEF NoticeInv, NoticesTypeOK, HandsKept
<1>7. Apart'
  BY <1>1, <1>3, <1>4 DEF NoticeInv, Apart, PartsApart, OtherThreads, NoWork
<1>8. \A n : n \notin Held(w) /\ Untexted(n) => Untexted(n)'
  BY <1>5, InHeld DEF Untexted
<1>9. Underneath'
  <2>1. \A i \in DOMAIN jobs : \A n \in jobs[i] : Untexted(n)' /\ texts[n].arrived = 0
    BY <1>8 DEF NoticeInv, Apart, Underneath
  <2>2. \A v \in Threads : v # w => \A n \in Held(v) : Untexted(n)'
    BY <1>8 DEF NoticeInv, Apart, Underneath
  <2> QED BY <1>1, <1>3, <1>4, <2>1, <2>2 DEF NoticeInv, Underneath, OtherThreads, NoWork
<1>10. Heard'
  <2> SUFFICES ASSUME NEW n \in DOMAIN notices
               PROVE  /\ texts[n].unheard <= texts[n].arrived /\ texts[n].arrived <= texts[n].unheard + 1
                      /\ notices'[n].status = "sent" => texts[n].arrived = texts[n].unheard + 1
                      /\ notices'[n].status = "failed" => texts[n].arrived = texts[n].unheard
                      /\ notices'[n].status = "not_attempted" /\ texts[n].arrived > 0 =>
                           n \in dropped \cup UNION {Held(v)' : v \in Threads}
    BY <1>1, <1>5 DEF Heard
  <2>1. CASE n \in Held(w)
    BY <1>1, <1>5, <2>1, InHeld DEF NoticeInv, Heard, Underneath
  <2>2. CASE n \notin Held(w)
    <3>1. notices'[n].status = notices[n].status
      BY <1>5, <2>2, InHeld
    <3>2. ASSUME n \in UNION {Held(v) : v \in Threads} PROVE n \in UNION {Held(v)' : v \in Threads}
      BY <1>4, <2>2, <3>2
    <3> QED BY <3>1, <3>2 DEF NoticeInv, Heard
  <2> QED BY <2>1, <2>2
<1> QED BY <1>6, <1>7, <1>9, <1>10 DEF NoticeInv

-----------------------------------------------------------------------------
\* Whose texts a thread may go on with: rows of Nat, its own.
LEMMA HeldType ==
    ASSUME NoticeInv, NEW w \in Threads
    PROVE  /\ texting[w] \in Texting /\ texting[w].todo \subseteq DOMAIN notices
           /\ Held(w) \subseteq DOMAIN notices /\ DOMAIN notices = DOMAIN texts
           /\ DOMAIN notices = 1..Len(notices) /\ Len(notices) \in Nat
<1>1. Held(w) \subseteq DOMAIN notices /\ texting[w] \in Texting
  BY DEF NoticeInv, NoticesTypeOK, Underneath, Untexted
<1>2. DOMAIN notices = 1..Len(notices) /\ Len(notices) \in Nat /\ DOMAIN texts = 1..Len(texts)
      /\ Len(texts) = Len(notices)
  BY DEF NoticeInv, NoticesTypeOK
<1> QED BY <1>1, <1>2, InHeld

\* A job taken is held by the thread that took it, or its rows are skipped.
LEMMA TakeKeeps ==
    ASSUME NoticeInv, NEW w \in Threads, Take(w)
    PROVE  NoticeInv'
<1>1. /\ jobs # <<>> /\ jobs' = Tail(jobs) /\ Held(w) = {}
      /\ UNCHANGED <<gateway, notices, hand, muted, texts, dropped, faults>>
  BY DEF Take, NoticeInv, Apart, PartsApart
<1>2. jobs \in Seq(SUBSET Nat) /\ texting \in [Threads -> Texting]
  BY DEF NoticeInv, NoticesTypeOK
<1>3. /\ jobs' \in Seq(SUBSET Nat) /\ 1 \in DOMAIN jobs /\ Head(jobs) = jobs[1]
      /\ \A i \in DOMAIN jobs' : i + 1 \in DOMAIN jobs /\ i + 1 # 1 /\ jobs'[i] = jobs[i + 1]
  BY <1>1, <1>2
<1>4. \A i \in DOMAIN jobs' : \A j \in DOMAIN jobs' : i # j => jobs'[i] \cap jobs'[j] = {}
  <2> TAKE i \in DOMAIN jobs'
  <2> TAKE j \in DOMAIN jobs'
  <2> HAVE i # j
  <2>1. i + 1 \in DOMAIN jobs /\ j + 1 \in DOMAIN jobs /\ i + 1 # j + 1
    BY <1>2, <1>3
  <2> QED BY <1>3, <2>1 DEF NoticeInv, Apart
<1>5. \A i \in DOMAIN jobs' : /\ jobs'[i] \cap jobs[1] = {}
                             /\ \A n \in jobs'[i] : Untexted(n) /\ texts[n].arrived = 0
                             /\ \A v \in Threads : jobs'[i] \cap Held(v) = {}
  BY <1>3 DEF NoticeInv, Apart, Underneath
<1>6. CASE ~gateway
  <2>1. texting' = texting /\ skipped' = skipped \cup jobs[1]
    BY <1>3, <1>6 DEF Take
  <2>2. \A v \in Threads : Held(v)' = Held(v)
    BY <2>1 DEF Held
  <2>3. NoticesTypeOK' /\ HandsKept'
    <3>1. skipped' \in SUBSET Nat
      <4>1. jobs[1] \in SUBSET Nat
        BY <1>2, <1>3
      <4>2. skipped \in SUBSET Nat
        BY DEF NoticeInv, NoticesTypeOK
      <4> QED BY <2>1, <4>1, <4>2
    <3> QED BY <1>1, <1>3, <2>1, <3>1 DEF NoticeInv, NoticesTypeOK, HandsKept
  <2>4. Apart'
    BY <1>4, <1>5, <2>1, <2>2 DEF NoticeInv, Apart, PartsApart
  <2>5. Underneath'
    BY <1>1, <1>5, <2>1, <2>2 DEF NoticeInv, Underneath, Untexted
  <2>6. Heard'
    BY <1>1, <2>2 DEF NoticeInv, Heard
  <2> QED BY <2>3, <2>4, <2>5, <2>6 DEF NoticeInv
<1>7. CASE gateway
  <2> DEFINE todo == Untried(Head(jobs))
             job  == [NoWork EXCEPT !.busy = TRUE, !.todo = todo]
  <2>1. texting' = [texting EXCEPT ![w] = job] /\ skipped' = skipped
    BY <1>7 DEF Take
  <2>2. todo \subseteq jobs[1] /\ todo \subseteq Nat
    BY <1>2, <1>3 DEF Untried
  <2> HIDE DEF todo
  <2>3. /\ job \in Texting /\ job.todo = todo /\ job.row = 0 /\ job.sent = {}
        /\ job.failed = {} /\ job.busy
    BY <2>2 DEF NoWork, Texting
  <2> HIDE DEF job
  <2>4. texting'[w] = job /\ OtherThreads(w) /\ texting' \in [Threads -> Texting]
    BY <1>2, <2>1, <2>3 DEF OtherThreads
  <2>5. Held(w)' = todo /\ \A v \in Threads : v # w => Held(v)' = Held(v)
    BY <2>3, <2>4, OthersHold DEF Held
  <2>6. /\ \A n \in todo : Untexted(n) /\ texts[n].arrived = 0
        /\ 0 \notin todo /\ \A v \in Threads : todo \cap Held(v) = {}
    <3>1. \A n \in todo : Untexted(n) /\ texts[n].arrived = 0
      BY <1>3, <2>2 DEF NoticeInv, Underneath
    <3>2. \A v \in Threads : todo \cap Held(v) = {}
      BY <1>3, <2>2 DEF NoticeInv, Apart
    <3>3. 0 \notin DOMAIN notices
      BY DEF NoticeInv, NoticesTypeOK
    <3> QED BY <3>1, <3>2, <3>3 DEF Untexted
  <2>7. NoticesTypeOK' /\ HandsKept'
    BY <1>1, <1>3, <2>1, <2>4 DEF NoticeInv, NoticesTypeOK, HandsKept
  <2>8. Apart'
    <3>1. \A i \in DOMAIN jobs' : \A v \in Threads : jobs'[i] \cap Held(v)' = {}
      BY <1>5, <2>2, <2>5
    <3>2. \A v \in Threads : \A u \in Threads : v # u => Held(v)' \cap Held(u)' = {}
      BY <2>5, <2>6 DEF NoticeInv, Apart
    <3>3. \A v \in Threads : PartsApart(v)'
      <4> TAKE v \in Threads
      <4>1. CASE v = w
        BY <2>3, <2>4, <2>6, <4>1 DEF PartsApart
      <4>2. CASE v # w
        BY <2>4, <2>5, <4>2 DEF OtherThreads, NoticeInv, Apart, PartsApart
      <4> QED BY <4>1, <4>2
    <3> QED BY <1>4, <3>1, <3>2, <3>3 DEF Apart
  <2>9. Underneath'
    BY <1>1, <1>5, <2>3, <2>4, <2>5, <2>6 DEF NoticeInv, Underneath, Untexted, OtherThreads
  <2>10. Heard'
    <3>1. \A n \in UNION {Held(v) : v \in Threads} : n \in UNION {Held(v)' : v \in Threads}
      BY <1>1, <2>5
    <3> QED BY <1>1, <3>1 DEF NoticeInv, Heard
  <2> QED BY <2>7, <2>8, <2>9, <2>10 DEF NoticeInv
<1>8. gateway \in BOOLEAN
  BY NoticesAssumption DEF NoticeInv, NoticesTypeOK
<1> QED BY <1>6, <1>7, <1>8

-----------------------------------------------------------------------------
\* A step of one thread that adds nothing to what it holds, and leaves the jobs,
\* keeps the rows apart if it keeps its own parts apart.
LEMMA StillApart ==
    ASSUME NoticeInv, NEW w \in Threads, OtherThreads(w), jobs' = jobs, Held(w)' \subseteq Held(w),
           PartsApart(w)'
    PROVE  Apart'
<1>1. \A v \in Threads : v # w => Held(v)' = Held(v)
  BY OthersHold
<1>2. \A i \in DOMAIN jobs' : \A v \in Threads : jobs'[i] \cap Held(v)' = {}
  BY <1>1 DEF NoticeInv, Apart
<1>3. \A v \in Threads : \A u \in Threads : v # u => Held(v)' \cap Held(u)' = {}
  BY <1>1 DEF NoticeInv, Apart
<1>4. \A v \in Threads : PartsApart(v)'
  <2> TAKE v \in Threads
  <2>1. CASE v = w
    BY <2>1
  <2>2. CASE v # w
    BY <1>1, <2>2 DEF OtherThreads, NoticeInv, Apart, PartsApart
  <2> QED BY <2>1, <2>2
<1> QED BY <1>2, <1>3, <1>4 DEF NoticeInv, Apart

LEMMA PickKeeps ==
    ASSUME NoticeInv, NEW w \in Threads, NEW n \in DOMAIN notices, Pick(w, n)
    PROVE  NoticeInv'
<1> DEFINE was == texting[w]
           job == texting'[w]
           wanted == Wanted(notices[n].row, Off(w))
           seller == notices[n].row.to = "seller"
<1>1. /\ was.row = 0 /\ n \in was.todo
      /\ UNCHANGED <<gateway, notices, hand, jobs, muted, texts, dropped, faults>>
  BY DEF Pick
<1>2. was \in Texting /\ Held(w) \subseteq DOMAIN notices /\ texting \in [Threads -> Texting]
      /\ n \in Nat /\ n # 0 /\ muted \in Mutes
  BY HeldType DEF NoticeInv, NoticesTypeOK
<1>3. Off(w) \in Mutes \cup {{}}
  BY <1>2 DEF Off, Texting
<1>4. /\ texting' = [texting EXCEPT ![w] = job] /\ OtherThreads(w)
      /\ job = [was EXCEPT !.todo = was.todo \ {n}, !.row = IF wanted THEN n ELSE 0, !.tries = 0,
                           !.read = was.read \/ seller, !.off = IF seller THEN Off(w) ELSE was.off]
  <2>1. texting' = [texting EXCEPT ![w].todo = texting[w].todo \ {n}, ![w].row = IF wanted THEN n ELSE 0,
                             ![w].tries = 0, ![w].read = texting[w].read \/ seller,
                             ![w].off = IF seller THEN Off(w) ELSE texting[w].off]
    BY DEF Pick
  <2> HIDE DEF wanted, seller
  <2> QED BY <1>2, <2>1 DEF OtherThreads
<1>5. /\ job.todo = was.todo \ {n} /\ job.row = (IF wanted THEN n ELSE 0)
      /\ job.sent = was.sent /\ job.failed = was.failed /\ job.busy = was.busy
      /\ job \in Texting
  <2> HIDE DEF wanted
  <2>1. (was.read \/ seller) \in BOOLEAN
    OBVIOUS
  <2> HIDE DEF seller, was, job
  <2> QED BY <1>2, <1>3, <1>4, <2>1 DEF Texting
<1> HIDE DEF wanted, seller
<1>6. texting' \in [Threads -> Texting]
  BY <1>2, <1>4, <1>5
<1>7. /\ Held(w)' \subseteq Held(w) /\ Held(w) \subseteq Held(w)' \cup {n}
      /\ \A v \in Threads : v # w => Held(v)' = Held(v)
  BY <1>1, <1>2, <1>4, <1>5, OthersHold DEF Held
<1>8. /\ Untexted(n) /\ texts[n].arrived = 0 /\ texts[n].unheard = 0
  <2>1. Untexted(n) /\ texts[n].arrived = 0
    BY <1>1, InHeld DEF NoticeInv, Underneath
  <2>2. texts[n] \in Text /\ texts[n].unheard <= texts[n].arrived
    BY HeldType DEF NoticeInv, NoticesTypeOK, Heard
  <2> QED BY <2>1, <2>2 DEF Text
<1>9. NoticesTypeOK' /\ HandsKept'
  <2>1. skipped' \in SUBSET Nat
    BY <1>2 DEF Pick, NoticeInv, NoticesTypeOK
  <2> QED BY <1>1, <1>6, <2>1 DEF NoticeInv, NoticesTypeOK, HandsKept
<1>10. Apart'
  <2>1. job.row \notin job.todo \cup job.sent \cup job.failed
    BY <1>1, <1>2, <1>5, HeldType DEF NoticeInv, Apart, PartsApart
  <2>2. PartsApart(w)'
    BY <1>1, <1>5, <1>7, <2>1 DEF NoticeInv, Apart, PartsApart
  <2> QED BY <1>1, <1>4, <1>7, <2>2, StillApart
<1>11. Underneath'
  <2>1. \A v \in Threads :
        /\ \A k \in Held(v)' : Untexted(k)
        /\ \A k \in texting'[v].todo : texts[k].arrived = 0
        /\ texting'[v].row # 0 => texts[texting'[v].row].arrived = texts[texting'[v].row].unheard
        /\ \A k \in texting'[v].sent : texts[k].arrived = texts[k].unheard + 1
        /\ \A k \in texting'[v].failed : texts[k].arrived = texts[k].unheard
    <3> TAKE v \in Threads
    <3>1. CASE v = w
      <4>1. \A k \in Held(v)' : Untexted(k)
        BY <1>7, <3>1 DEF NoticeInv, Underneath
      <4>2. job.row # 0 => texts[job.row].arrived = texts[job.row].unheard
        BY <1>5, <1>8
      <4> QED BY <1>5, <3>1, <4>1, <4>2 DEF NoticeInv, Underneath
    <3>2. CASE v # w
      BY <1>4, <1>7, <3>2 DEF NoticeInv, Underneath, OtherThreads
    <3> QED BY <3>1, <3>2
  <2> QED BY <1>1, <2>1 DEF NoticeInv, Underneath, Untexted
<1>12. Heard'
  <2>1. \A k \in UNION {Held(v) : v \in Threads} : k # n => k \in UNION {Held(v)' : v \in Threads}
    BY <1>7
  <2> QED BY <1>1, <1>8, <2>1 DEF NoticeInv, Heard
<1> QED BY <1>9, <1>10, <1>11, <1>12 DEF NoticeInv

\* A request to the gateway leaves the row in hand, and its texts in step with
\* where the thread has it.
LEMMA AttemptKeeps ==
    ASSUME NoticeInv, NEW w \in Threads, NEW outcome \in SmsOutcomes, Attempt(w, outcome)
    PROVE  NoticeInv'
<1> DEFINE was == texting[w]
           job == texting'[w]
           n   == was.row
           came == texts[n].arrived + (IF Arrives(outcome) THEN 1 ELSE 0)
           lost == texts[n].unheard + (IF outcome = "unheard" THEN 1 ELSE 0)
           over == Settles(w, outcome)
<1>1. n # 0 /\ UNCHANGED <<gateway, notices, hand, jobs, muted, dropped, skipped, faults>>
  BY DEF Attempt
<1>2. /\ was \in Texting /\ texting \in [Threads -> Texting] /\ Held(w) \subseteq DOMAIN notices
      /\ DOMAIN notices = DOMAIN texts /\ texts \in Seq(Text) /\ DOMAIN notices = 1..Len(notices)
      /\ Len(texts) = Len(notices) /\ Len(notices) \in Nat
  BY HeldType DEF NoticeInv, NoticesTypeOK
<1>3. n \in Held(w) /\ n \in DOMAIN texts /\ n \in Nat /\ texts[n] \in Text
  BY <1>1, <1>2, InHeld
<1>4. /\ Untexted(n) /\ texts[n].arrived = texts[n].unheard
      /\ texts[n].arrived \in Nat /\ texts[n].unheard \in Nat
  BY <1>1, <1>3 DEF NoticeInv, Underneath, Text
<1>5. texts' = [texts EXCEPT ![n] = [texts[n] EXCEPT !.arrived = came, !.unheard = lost]]
  <2>1. texts' = [texts EXCEPT ![n].arrived = IF Arrives(outcome) THEN texts[n].arrived + 1
                                              ELSE texts[n].arrived,
                               ![n].unheard = IF outcome = "unheard" THEN texts[n].unheard + 1
                                              ELSE texts[n].unheard]
    BY DEF Attempt
  <2>2. /\ came = IF Arrives(outcome) THEN texts[n].arrived + 1 ELSE texts[n].arrived
        /\ lost = IF outcome = "unheard" THEN texts[n].unheard + 1 ELSE texts[n].unheard
    BY <1>4
  <2>3. texts \in [DOMAIN texts -> Text]
    BY <1>2
  <2> HIDE DEF came, lost, n
  <2>4. texts' = [texts EXCEPT ![n].arrived = came, ![n].unheard = lost]
    BY <2>1, <2>2
  <2> QED BY <1>3, <2>3, <2>4
<1>6. /\ came \in Nat /\ lost \in Nat /\ lost <= came /\ came <= lost + 1
      /\ outcome = "accepted" => came = lost + 1
      /\ outcome # "accepted" => came = lost
  BY <1>4 DEF Arrives
<1> HIDE DEF came, lost
<1>7. /\ texts' \in Seq(Text) /\ Len(texts') = Len(texts)
      /\ texts'[n].arrived = came /\ texts'[n].unheard = lost
      /\ \A k \in DOMAIN texts : k # n => texts'[k] = texts[k]
  <2> HIDE DEF n
  <2> DEFINE text == [texts[n] EXCEPT !.arrived = came, !.unheard = lost]
  <2>1. text \in Text /\ text.arrived = came /\ text.unheard = lost
    BY <1>3, <1>6 DEF Text
  <2> HIDE DEF text
  <2>2. texts' = [texts EXCEPT ![n] = text]
    BY <1>5 DEF text
  <2> QED BY <1>2, <1>3, <2>1, <2>2
<1>8. /\ texting' = [texting EXCEPT ![w] = job] /\ OtherThreads(w)
      /\ job = [was EXCEPT !.tries = IF over THEN 0 ELSE was.tries + 1,
                           !.row = IF over THEN 0 ELSE n,
                           !.sent = IF outcome = "accepted" THEN was.sent \cup {n} ELSE was.sent,
                           !.failed = IF over /\ outcome # "accepted" THEN was.failed \cup {n}
                                      ELSE was.failed]
  <2>1. texting' = [texting EXCEPT ![w].tries = IF over THEN 0 ELSE texting[w].tries + 1,
                             ![w].row = IF over THEN 0 ELSE texting[w].row,
                             ![w].sent = IF outcome = "accepted" THEN texting[w].sent \cup {texting[w].row}
                                         ELSE texting[w].sent,
                             ![w].failed = IF over /\ outcome # "accepted"
                                           THEN texting[w].failed \cup {texting[w].row} ELSE texting[w].failed]
    BY DEF Attempt
  <2> HIDE DEF over
  <2> QED BY <1>2, <2>1 DEF OtherThreads
<1>9. outcome = "accepted" => over
  BY DEF Settles, Again
<1> HIDE DEF over, job, n
<1>10. /\ job.todo = was.todo /\ job.busy = was.busy
       /\ job.row = (IF over THEN 0 ELSE n)
       /\ job.sent = (IF outcome = "accepted" THEN was.sent \cup {n} ELSE was.sent)
       /\ job.failed = (IF over /\ outcome # "accepted" THEN was.failed \cup {n} ELSE was.failed)
       /\ job \in Texting
  <2>1. was.tries + 1 \in Nat
    BY <1>2 DEF Texting
  <2> QED BY <1>2, <1>3, <1>8, <2>1 DEF Texting
<1>11. /\ n \notin was.todo /\ n \notin was.sent /\ n \notin was.failed /\ PartsApart(w)
  BY DEF n, NoticeInv, Apart, PartsApart
<1>12. Held(w)' = Held(w) /\ \A v \in Threads : v # w => Held(v)' = Held(v)
  <2>1. Held(w) = was.todo \cup was.sent \cup was.failed \cup {n}
    BY <1>1, <1>3 DEF Held, n
  <2>2. Held(w)' = job.todo \cup job.sent \cup job.failed \cup ({job.row} \ {0})
    BY DEF Held, job
  <2>3. Held(w)' = Held(w)
    BY <1>1, <1>9, <1>10, <2>1, <2>2
  <2> QED BY <1>8, <2>3, OthersHold
<1>13. texting' \in [Threads -> Texting]
  BY <1>2, <1>8, <1>10
<1>14. NoticesTypeOK' /\ HandsKept'
  BY <1>1, <1>2, <1>7, <1>13 DEF NoticeInv, NoticesTypeOK, HandsKept
<1>15. Apart'
  <2>1. /\ job.todo \cap (job.sent \cup job.failed) = {}
        /\ job.sent \cap job.failed = {}
        /\ job.row \notin job.todo \cup job.sent \cup job.failed
    <3>1. /\ was.todo \cap (was.sent \cup was.failed) = {}
          /\ was.sent \cap was.failed = {}
      BY <1>11 DEF PartsApart
    <3>2. 0 \notin was.todo \cup was.sent \cup was.failed
      BY <1>2, InHeld
    <3> QED BY <1>1, <1>9, <1>10, <1>11, <3>1, <3>2
  <2>2. PartsApart(w)'
    BY <1>10, <1>11, <1>12, <2>1 DEF PartsApart, job
  <2> QED BY <1>1, <1>8, <1>12, <2>2, StillApart
<1>16. \A v \in Threads : v # w => n \notin Held(v)
  BY <1>3 DEF NoticeInv, Apart
<1>17. \A i \in DOMAIN jobs : n \notin jobs[i]
  BY <1>3 DEF NoticeInv, Apart
<1>18. Underneath'
  <2>1. \A i \in DOMAIN jobs : \A k \in jobs[i] : Untexted(k) /\ texts'[k].arrived = 0
    <3> TAKE i \in DOMAIN jobs
    <3> TAKE k \in jobs[i]
    <3>1. Untexted(k) /\ texts[k].arrived = 0 /\ k # n
      BY <1>17 DEF NoticeInv, Underneath
    <3> QED BY <1>2, <1>7, <3>1 DEF Untexted
  <2>2. \A v \in Threads :
        /\ \A k \in Held(v)' : Untexted(k)
        /\ \A k \in texting'[v].todo : texts'[k].arrived = 0
        /\ texting'[v].row # 0 => texts'[texting'[v].row].arrived = texts'[texting'[v].row].unheard
        /\ \A k \in texting'[v].sent : texts'[k].arrived = texts'[k].unheard + 1
        /\ \A k \in texting'[v].failed : texts'[k].arrived = texts'[k].unheard
    <3> TAKE v \in Threads
    <3>0. \A k \in Held(v) : k # n => texts'[k] = texts[k]
      BY <1>7, HeldType
    <3>1. CASE v = w
      <4>1. \A k \in Held(w)' : Untexted(k)
        BY <1>12 DEF NoticeInv, Underneath
      <4>2. \A k \in was.todo : k # n /\ texts'[k].arrived = 0
        BY <1>11, <3>0, <3>1, InHeld DEF NoticeInv, Underneath
      <4>3. \A k \in was.sent : texts'[k].arrived = texts'[k].unheard + 1
        BY <1>11, <3>0, <3>1, InHeld DEF NoticeInv, Underneath
      <4>4. \A k \in was.failed : texts'[k].arrived = texts'[k].unheard
        BY <1>11, <3>0, <3>1, InHeld DEF NoticeInv, Underneath
      <4>5. job.row # 0 => texts'[job.row].arrived = texts'[job.row].unheard
        BY <1>6, <1>7, <1>9, <1>10
      <4>6. \A k \in job.sent : texts'[k].arrived = texts'[k].unheard + 1
        BY <1>6, <1>7, <1>10, <4>3
      <4>7. \A k \in job.failed : texts'[k].arrived = texts'[k].unheard
        BY <1>6, <1>7, <1>10, <4>4
      <4> QED BY <1>10, <3>1, <4>1, <4>2, <4>5, <4>6, <4>7 DEF job
    <3>2. CASE v # w
      <4>1. texting'[v] = texting[v] /\ Held(v)' = Held(v)
        BY <1>8, <1>12, <3>2 DEF OtherThreads
      <4>2. \A k \in Held(v) : Untexted(k) /\ texts'[k] = texts[k]
        BY <1>16, <3>0, <3>2 DEF NoticeInv, Underneath
      <4> QED BY <4>1, <4>2, InHeld DEF NoticeInv, Underneath
    <3> QED BY <3>1, <3>2
  <2> QED BY <1>1, <2>1, <2>2 DEF Underneath, Untexted
<1>19. Heard'
  <2> SUFFICES ASSUME NEW k \in DOMAIN notices
               PROVE  /\ texts'[k].unheard <= texts'[k].arrived /\ texts'[k].arrived <= texts'[k].unheard + 1
                      /\ notices[k].status = "sent" => texts'[k].arrived = texts'[k].unheard + 1
                      /\ notices[k].status = "failed" => texts'[k].arrived = texts'[k].unheard
                      /\ notices[k].status = "not_attempted" /\ texts'[k].arrived > 0 =>
                           k \in dropped \cup UNION {Held(v)' : v \in Threads}
    BY <1>1 DEF Heard
  <2>1. CASE k = n
    BY <1>3, <1>4, <1>6, <1>7, <1>12, <2>1 DEF Untexted
  <2>2. CASE k # n
    <3>1. texts'[k] = texts[k]
      BY <1>2, <1>7, <2>2
    <3>2. UNION {Held(v)' : v \in Threads} = UNION {Held(v) : v \in Threads}
      BY <1>12
    <3> QED BY <3>1, <3>2 DEF NoticeInv, Heard
  <2> QED BY <2>1, <2>2
<1> QED BY <1>14, <1>15, <1>18, <1>19 DEF NoticeInv
-----------------------------------------------------------------------------
LEMMA NoticesBegin == ASSUME NoticesInit PROVE NoticeInv
<1>1. NoticesTypeOK /\ HandsKept
  BY NoHandType, NoWorkType, NoticesAssumption DEF NoticesInit, NoticesTypeOK, HandsKept, Notice, Text
<1>2. \A w \in Threads : Held(w) = {}
  BY DEF NoticesInit, Held, NoWork
<1>3. Apart /\ Underneath /\ Heard
  BY <1>2 DEF NoticesInit, Apart, PartsApart, Underneath, Heard, NoWork
<1> QED BY <1>1, <1>3 DEF NoticeInv

LEMMA NoticesStep == ASSUME NoticeInv, [NoticesNext]_noticeVars PROVE NoticeInv'
<1> USE DEF NoticeInv
<1>1. ASSUME NEW s \in Sessions, NEW rows \in Happening, Add(s, rows) PROVE NoticeInv'
  BY <1>1, AddKeeps
<1>2. ASSUME NEW s \in Sessions, Flush(s) \/ CommitRows(s) \/ Rollback(s) PROVE NoticeInv'
  BY <1>2, FlushKeeps, CommitKeeps, RollbackKeeps
<1>3. ASSUME NEW w \in Threads, Deliver(w) PROVE NoticeInv'
  BY <1>3, TakeKeeps, PickKeeps, AttemptKeeps, FinishKeeps DEF Deliver
<1>4. ASSUME NEW w \in Threads, FailJob(w) PROVE NoticeInv'
  BY <1>4, FailJobKeeps
<1>5. ASSUME Crash PROVE NoticeInv'
  BY <1>5, CrashKeeps
<1>6. ASSUME NEW off \in Mutes, SetPreferences(off) PROVE NoticeInv'
  BY <1>6, PreferencesKeep
<1>7. ASSUME UNCHANGED noticeVars PROVE NoticeInv'
  BY <1>7, OnlyHands DEF noticeVars, NoticesTypeOK, HandsKept
<1> QED BY <1>1, <1>2, <1>3, <1>4, <1>5, <1>6, <1>7 DEF NoticesNext

\* What the invariant says of a row's texts.
LEMMA InvTells == ASSUME NoticeInv PROVE StatusTellsTexts
<1> SUFFICES ASSUME NEW n \in DOMAIN notices
             PROVE  /\ texts[n].arrived - texts[n].unheard <= 1
                    /\ notices[n].status = "sent" => texts[n].arrived - texts[n].unheard = 1
                    /\ notices[n].status = "failed" => texts[n].arrived - texts[n].unheard = 0
                    /\ notices[n].status = "not_attempted" /\ texts[n].arrived > 0 =>
                         n \in dropped \cup UNION {Held(w) : w \in Threads}
  BY DEF StatusTellsTexts
<1>1. texts[n].arrived \in Nat /\ texts[n].unheard \in Nat
  <2>1. n \in DOMAIN texts /\ texts \in Seq(Text)
    BY DEF NoticeInv, NoticesTypeOK
  <2>2. texts[n] \in Text
    BY <2>1
  <2> QED BY <2>2 DEF Text
<1> QED BY <1>1 DEF NoticeInv, Heard

LEMMA NoticesInvariance == NoticesSpec => []NoticeInv
BY NoticesBegin, NoticesStep, PTL DEF NoticesSpec

\* The rows, the sessions and the threads keep their types.
THEOREM NoticesTypes == NoticesSpec => []NoticesTypeOK
<1>1. NoticeInv => NoticesTypeOK
  BY DEF NoticeInv
<1> QED BY <1>1, NoticesInvariance, PTL

\* Whatever commits, crashes, lost answers and failing jobs there are, a row is
\* sent after one text that was heard of, failed after none, and otherwise was
\* not texted unless a thread has it in hand or a fault dropped it.
THEOREM NoticesTold == NoticesSpec => []StatusTellsTexts
<1>1. NoticeInv => StatusTellsTexts
  BY InvTells
<1> QED BY <1>1, NoticesInvariance, PTL
=============================================================================
