--------------------------- MODULE FundingProofs ---------------------------
(***************************************************************************)
(* Proofs about CustodyFunding, for any orders, buyers and prices: columns *)
(* and sessions keep their types; what counts as funded is in the ledger   *)
(* and, without a forced collection, the ledger holds no more; an order is *)
(* locked only with its money booked; pushes follow custody, and custody   *)
(* is sticky.                                                              *)
(***************************************************************************)
EXTENDS CustodyFunding, SequenceTheorems, TLAPS

\* An order that does not exist has neither an escrow nor money.
Unborn ==
    \A o \in Orders : status[o] = "none" =>
        /\ o \notin Legacy
        /\ ~escrow[o].row /\ escrow[o].funded = 0
        /\ held[o] = 0 /\ keys[o] = {}
        /\ pushes[o] = <<>>

\* Steps of a session that works on one order.
Busy == {"open", "fund", "stk", "record", "callback", "force"}

InHand == \A s \in Sessions : sess[s].at \in Busy => sess[s].order \in Orders

\* The order is created for eConfirm, which was not heard from.
Unopened(o) ==
    /\ custody[o] = "econfirm" /\ status[o] = "awaiting_payment"
    /\ escrow[o].row /\ escrow[o].custody = "econfirm" /\ escrow[o].flag
    /\ pushes[o] = <<>>

\* What a session read of its order stays true: an order in the middle of its
\* opening has no push, the custody that chose the next step is still the
\* order's, and what a forced collection is about to count is in the ledger, or
\* is more than the constraint lets through.
Fits(r) ==
    LET o == r.order IN
    /\ r.at \in Busy => o \in Orders /\ status[o] # "none"
    /\ r.at = "open" => Unopened(o)
    /\ r.at = "fund" => custody[o] = "econfirm" /\ Opened(o)
    /\ r.at \in {"stk", "callback"} => custody[o] = "simulated"
    /\ r.at = "force" =>
          /\ Forced(o)
          /\ IF o \in Legacy THEN r.write > Total ELSE r.write <= held[o]

\* The handler that inserted an order is alone in opening its escrow.
Alone ==
    \A s, t \in Sessions :
        s # t /\ sess[s].at = "open" /\ sess[t].at = "open" => sess[s].order # sess[t].order

\* What the key of a funding movement tells of the order.
KeysTell ==
    \A o \in Orders :
        /\ keys[o] \cap {"callback-funding", "econfirm-funding"} # {} /\ ~Forced(o) =>
              escrow[o].funded = Total
        /\ o \notin Legacy =>
              /\ "repair-funding" \notin keys[o]
              /\ keys[o] = {} => held[o] = 0
              /\ custody[o] = "econfirm" => "callback-funding" \notin keys[o]

LegacyFunded == \A o \in Legacy : escrow[o].funded = Total

Books == /\ KeysTell /\ LegacyFunded
         /\ FundedIsBooked /\ BooksMatchFunding /\ LockedIsFunded
Work  == /\ \A s \in Sessions : Fits(sess[s])
         /\ Alone
Inv   == TypeOK /\ Unborn /\ Books /\ Work /\ PushesFollowCustody
-----------------------------------------------------------------------------
(***************************************************************************)
(* Types.                                                                  *)
(***************************************************************************)
LEMMA AppendType ==
    ASSUME NEW S, NEW q \in Seq(S), NEW x \in S
    PROVE  Append(q, x) \in Seq(S)
OBVIOUS

LEMMA ExceptType ==
    ASSUME NEW S, NEW q \in Seq(S), NEW i, NEW x \in S
    PROVE  [q EXCEPT ![i] = x] \in Seq(S)
<1>1. q \in [1..Len(q) -> S] /\ Len(q) \in Nat
  BY LenProperties
<1>2. [q EXCEPT ![i] = x] \in [1..Len(q) -> S]
  BY <1>1
<1> QED BY <1>1, <1>2, IsASeq

LEMMA IdleType == Idle \in Session
BY DEF Session, Idle, Steps

\* The sessions the actions make.
LEMMA SessionTypes ==
    ASSUME NEW step \in Steps, NEW o \in Orders, NEW n \in Nat, NEW batch \in SUBSET Orders
    PROVE  /\ [Idle EXCEPT !.at = step, !.order = o] \in Session
           /\ [Idle EXCEPT !.at = step, !.order = o, !.prev = n] \in Session
           /\ [Idle EXCEPT !.at = step, !.order = o, !.write = n] \in Session
           /\ [Idle EXCEPT !.at = step, !.batch = batch] \in Session
<1>1. [Idle EXCEPT !.at = step, !.order = o] \in Session
  BY IdleType DEF Session
<1>2. [Idle EXCEPT !.at = step, !.order = o, !.prev = n] \in Session
  BY IdleType DEF Session
<1>3. [Idle EXCEPT !.at = step, !.order = o, !.write = n] \in Session
  BY IdleType DEF Session
<1>4. [Idle EXCEPT !.at = step, !.batch = batch] \in Session
  BY IdleType DEF Session
<1> QED BY <1>1, <1>2, <1>3, <1>4

LEMMA InitType == Init => TypeOK
<1> SUFFICES ASSUME Init PROVE TypeOK
  OBVIOUS
<1>1. NoRow \in Escrow /\ [row |-> TRUE, custody |-> "econfirm", ref |-> TRUE,
                           flag |-> FALSE, funded |-> Total] \in Escrow
  BY FundingAssumption DEF NoRow, Escrow, Providers
<1>2. escrow \in [Orders -> Escrow]
  BY <1>1 DEF Init
<1>3. pushes \in [Orders -> Seq(Push)]
  <2>1. <<[via |-> "econfirm", answer |-> "ok"]>> \in Seq(Push) /\ <<>> \in Seq(Push)
    BY DEF Push, Providers
  <2> QED BY <2>1 DEF Init
<1>4. sess \in [Sessions -> Session]
  BY IdleType DEF Init
<1>5. /\ created \in Seq(Orders)
      /\ prompts \in [Orders -> Seq(Prompt)]
  BY DEF Init
<1> QED BY <1>2, <1>3, <1>4, <1>5 DEF Init, TypeOK, Providers

LEMMA PutType ==
    ASSUME TypeOK, NEW s \in Sessions, NEW r \in Session, sess' = [sess EXCEPT ![s] = r]
    PROVE  sess' \in [Sessions -> Session]
BY DEF TypeOK

LEMMA DoneType ==
    ASSUME TypeOK, NEW s \in Sessions, Done(s)
    PROVE  sess' \in [Sessions -> Session]
BY IdleType, PutType DEF Done

LEMMA AtType ==
    ASSUME TypeOK, NEW s \in Sessions, NEW step \in Steps, NEW o \in Orders, At(s, step, o)
    PROVE  sess' \in [Sessions -> Session]
BY SessionTypes, PutType DEF At

LEMMA RecordType ==
    ASSUME TypeOK, NEW o \in Orders, NEW prev \in Nat, NEW row \in Prompt, Record(o, prev, row)
    PROVE  prompts' \in [Orders -> Seq(Prompt)] /\ cool' \in [Orders -> BOOLEAN]
<1>1. prompts[o] \in Seq(Prompt) /\ "failed" \in Prompt
  BY DEF TypeOK, Prompt
<1>2. Superseded(o, prev) \in Seq(Prompt)
  BY <1>1, ExceptType DEF Superseded
<1>3. Append(Superseded(o, prev), row) \in Seq(Prompt)
  BY <1>2, AppendType
<1> QED BY <1>3 DEF TypeOK, Record

LEMMA ResolvedType ==
    ASSUME TypeOK, NEW o \in Orders, NEW verdict \in Prompt
    PROVE  Resolved(o, verdict) \in [Orders -> Seq(Prompt)]
<1>1. prompts[o] \in Seq(Prompt)
  BY DEF TypeOK
<1>2. [prompts[o] EXCEPT ![Newest(o)] = verdict] \in Seq(Prompt)
  BY <1>1, ExceptType
<1>3. [prompts EXCEPT ![o] = [prompts[o] EXCEPT ![Newest(o)] = verdict]] \in [Orders -> Seq(Prompt)]
  BY <1>2 DEF TypeOK
<1> QED BY <1>3 DEF TypeOK, Resolved

LEMMA RefusedType ==
    ASSUME TypeOK, NEW s \in Sessions, NEW o \in Orders, NEW prev \in Nat, Refused(s, o, prev)
    PROVE  /\ prompts' \in [Orders -> Seq(Prompt)] /\ cool' \in [Orders -> BOOLEAN]
           /\ pushes' \in [Orders -> Seq(Push)] /\ sess' \in [Sessions -> Session]
<1>1. NotSent \in Prompt
  BY DEF NotSent, Prompt
<1> QED BY <1>1, RecordType, DoneType DEF Refused, TypeOK

LEMMA RequestedType ==
    ASSUME TypeOK, NEW s \in Sessions, NEW o \in Orders, NEW via \in Providers,
           NEW prev \in Nat, Requested(s, o, via, prev)
    PROVE  /\ prompts' \in [Orders -> Seq(Prompt)] /\ cool' \in [Orders -> BOOLEAN]
           /\ pushes' \in [Orders -> Seq(Push)] /\ sess' \in [Sessions -> Session]
<1>1. sess' \in [Sessions -> Session]
  BY SessionTypes, PutType DEF Requested, Steps
<1>2. Append(pushes[o], [via |-> via, answer |-> "none"]) \in Seq(Push)
  <2>1. [via |-> via, answer |-> "none"] \in Push
    BY DEF Push
  <2>2. pushes[o] \in Seq(Push)
    BY DEF TypeOK
  <2> QED BY <2>1, <2>2, AppendType
<1>3. \/ pushes' = pushes
      \/ pushes' = [pushes EXCEPT ![o] = Append(pushes[o], [via |-> via, answer |-> "none"])]
  BY DEF Requested
<1>4. pushes' \in [Orders -> Seq(Push)]
  BY <1>2, <1>3 DEF TypeOK
<1> QED BY <1>1, <1>4 DEF TypeOK, Requested

LEMMA EscrowTypes ==
    ASSUME NEW r \in Escrow, NEW f \in 0..Total
    PROVE  /\ [r EXCEPT !.funded = f] \in Escrow
           /\ [r EXCEPT !.row = TRUE, !.funded = f] \in Escrow
<1>1. [r EXCEPT !.funded = f] \in Escrow
  BY DEF Escrow
<1>2. [r EXCEPT !.row = TRUE, !.funded = f] \in Escrow
  BY DEF Escrow
<1> QED BY <1>1, <1>2

LEMMA FundedType ==
    ASSUME TypeOK, NEW o \in Orders
    PROVE  /\ escrow[o] \in Escrow /\ escrow[o].funded \in 0..Total
           /\ Total \in Nat /\ Total > 0 /\ Total \in 0..Total /\ held[o] \in Nat
           /\ Missing(o) \in Nat /\ (Missing(o) = 0 <=> escrow[o].funded = Total)
           /\ held[o] + Missing(o) \in Nat
BY FundingAssumption DEF TypeOK, Escrow, Missing

LEMMA CreateType ==
    ASSUME TypeOK, NEW s \in Buyers, NEW o \in Orders, Create(s, o)
    PROVE  TypeOK'
<1>1. PICK c \in Providers :
        /\ custody' = [custody EXCEPT ![o] = c]
        /\ IF c = "econfirm"
           THEN /\ escrow' = [escrow EXCEPT ![o] = [NoRow EXCEPT !.row = TRUE,
                                                    !.custody = c, !.flag = TRUE]]
                /\ At(s, "open", o)
           ELSE UNCHANGED escrow /\ At(s, "stk", o)
  BY DEF Create, Providers
<1>2. s \in Sessions
  BY DEF Sessions
<1>3. [NoRow EXCEPT !.row = TRUE, !.custody = c, !.flag = TRUE] \in Escrow
  <2>1. NoRow \in Escrow
    BY FundingAssumption DEF NoRow, Escrow, Providers
  <2> QED BY <2>1 DEF Escrow
<1>4. escrow' \in [Orders -> Escrow] /\ custody' \in [Orders -> Providers]
  BY <1>1, <1>3 DEF TypeOK
<1>5. sess' \in [Sessions -> Session]
  BY <1>1, <1>2, AtType DEF Steps
<1>6. created' \in Seq(Orders)
  BY AppendType DEF Create, TypeOK
<1>7. status' \in [Orders -> {"none", "awaiting_payment", "locked"}]
  BY DEF Create, TypeOK
<1> QED BY <1>4, <1>5, <1>6, <1>7 DEF Create, TypeOK

LEMMA OpenType ==
    ASSUME TypeOK, InHand, NEW s \in Buyers, EconfirmOpen(s)
    PROVE  TypeOK'
<1> DEFINE o == sess[s].order
<1>1. s \in Sessions
  BY DEF Sessions
<1>2. o \in Orders
  BY <1>1 DEF InHand, Busy, EconfirmOpen
<1>3. escrow[o] \in Escrow
  BY <1>2, FundedType
<1>4. CASE Refused(s, o, 0) /\ UNCHANGED <<custody, escrow>>
  BY <1>1, <1>2, <1>4, RefusedType DEF EconfirmOpen, TypeOK
<1>5. CASE /\ custody' = [custody EXCEPT ![o] = "simulated"]
           /\ escrow' = [escrow EXCEPT ![o].custody = "simulated"]
           /\ At(s, "stk", o)
           /\ UNCHANGED <<prompts, pushes, cool>>
  <2>1. [escrow[o] EXCEPT !.custody = "simulated"] \in Escrow
    BY <1>3 DEF Escrow, Providers
  <2>2. escrow' \in [Orders -> Escrow] /\ custody' \in [Orders -> Providers]
    BY <1>5, <2>1 DEF TypeOK, Providers
  <2>3. sess' \in [Sessions -> Session]
    BY <1>1, <1>2, <1>5, AtType DEF Steps
  <2> QED BY <1>5, <2>2, <2>3 DEF EconfirmOpen, TypeOK
<1>6. CASE /\ escrow' = [escrow EXCEPT ![o].ref = TRUE, ![o].flag = FALSE]
           /\ At(s, "fund", o)
           /\ UNCHANGED <<custody, prompts, pushes, cool>>
  <2>1. [escrow[o] EXCEPT !.ref = TRUE, !.flag = FALSE] \in Escrow
    BY <1>3 DEF Escrow
  <2>2. escrow' = [escrow EXCEPT ![o] = [escrow[o] EXCEPT !.ref = TRUE, !.flag = FALSE]]
    BY <1>6
  <2>3. escrow' \in [Orders -> Escrow]
    BY <2>1, <2>2 DEF TypeOK
  <2>4. sess' \in [Sessions -> Session]
    BY <1>1, <1>2, <1>6, AtType DEF Steps
  <2> QED BY <1>6, <2>3, <2>4 DEF EconfirmOpen, TypeOK
<1> QED BY <1>4, <1>5, <1>6 DEF EconfirmOpen

LEMMA StkType ==
    ASSUME TypeOK, InHand, NEW s \in Buyers, EconfirmStk(s) \/ GatewayStk(s) \/ RecordPrompt(s)
    PROVE  TypeOK'
<1>1. s \in Sessions /\ sess[s].order \in Orders
  BY DEF Sessions, InHand, Busy, EconfirmStk, GatewayStk, RecordPrompt
<1>2. /\ prompts' \in [Orders -> Seq(Prompt)] /\ cool' \in [Orders -> BOOLEAN]
      /\ pushes' \in [Orders -> Seq(Push)] /\ sess' \in [Sessions -> Session]
  <2>1. CASE \E via \in Providers : Requested(s, sess[s].order, via, 0)
    BY <1>1, <2>1, RequestedType
  <2>2. CASE Refused(s, sess[s].order, 0)
    BY <1>1, <2>2, RefusedType
  <2>3. CASE RecordPrompt(s)
    <3>1. sess[s].prev \in Nat /\ Sent \in Prompt
      BY <1>1 DEF TypeOK, Session, Sent, Prompt
    <3> QED BY <1>1, <2>3, <3>1, RecordType, DoneType DEF RecordPrompt, TypeOK
  <2> QED BY <2>1, <2>2, <2>3 DEF EconfirmStk, GatewayStk, Providers
<1>3. UNCHANGED <<production, created, status, custody, money, late>>
  BY DEF EconfirmStk, GatewayStk, RecordPrompt
<1> QED BY <1>2, <1>3 DEF TypeOK, money

LEMMA ResendType ==
    ASSUME TypeOK, NEW s \in Buyers, NEW o \in Orders, Resend(s, o)
    PROVE  TypeOK'
<1> DEFINE prev == IF Pending(o) THEN Newest(o) ELSE 0
<1>1. s \in Sessions /\ custody[o] \in Providers /\ prev \in Nat
  BY DEF Sessions, TypeOK, Newest
<1>2. Requested(s, o, custody[o], prev) \/ Refused(s, o, prev)
  BY DEF Resend
<1> HIDE DEF prev
<1>3. /\ prompts' \in [Orders -> Seq(Prompt)] /\ cool' \in [Orders -> BOOLEAN]
      /\ pushes' \in [Orders -> Seq(Push)] /\ sess' \in [Sessions -> Session]
  BY <1>1, <1>2, RequestedType, RefusedType
<1> QED BY <1>3 DEF Resend, TypeOK, money

LEMMA CallbackType ==
    ASSUME TypeOK, InHand, NEW s \in Buyers, CallbackCommit(s)
    PROVE  TypeOK'
<1> DEFINE o == sess[s].order
<1>1. s \in Sessions /\ o \in Orders
  BY DEF Sessions, InHand, Busy, CallbackCommit
<1>2. prompts' \in [Orders -> Seq(Prompt)]
  BY <1>1, ResolvedType DEF CallbackCommit, Prompt
<1>3. sess' \in [Sessions -> Session]
  BY <1>1, DoneType DEF CallbackCommit
<1>4. status' \in [Orders -> {"none", "awaiting_payment", "locked"}]
  BY DEF CallbackCommit, TypeOK
<1>5. escrow' \in [Orders -> Escrow] /\ held' \in [Orders -> Nat] /\ keys' \in [Orders -> SUBSET Keys]
  <2>1. CASE Post(o, "callback-funding", Missing(o))
             /\ escrow' = [escrow EXCEPT ![o].row = TRUE, ![o].funded = Total]
    <3>1. [escrow[o] EXCEPT !.row = TRUE, !.funded = Total] \in Escrow
      <4>1. escrow[o] \in Escrow /\ Total \in 0..Total
        BY <1>1, FundedType
      <4> HIDE DEF o
      <4> QED BY ONLY <4>1, EscrowTypes
    <3>2. escrow' = [escrow EXCEPT ![o] = [escrow[o] EXCEPT !.row = TRUE, !.funded = Total]]
      BY <2>1
    <3>3. escrow' \in [Orders -> Escrow]
      BY <3>1, <3>2 DEF TypeOK
    <3>4. held' \in [Orders -> Nat]
      BY <1>1, <2>1, FundedType DEF TypeOK, Post
    <3>5. keys' \in [Orders -> SUBSET Keys]
      BY <2>1 DEF TypeOK, Post, Keys
    <3> QED BY <3>3, <3>4, <3>5
  <2>2. CASE UNCHANGED money
    BY <2>2 DEF TypeOK, money
  <2> QED BY <2>1, <2>2 DEF CallbackCommit
<1> QED BY <1>2, <1>3, <1>4, <1>5 DEF CallbackCommit, TypeOK

LEMMA PollReadType ==
    ASSUME TypeOK, PollRead
    PROVE  TypeOK'
<1> DEFINE candidates == {i \in DOMAIN created : Candidate(created[i])}
           first      == {i \in candidates : Cardinality({j \in candidates : j < i}) < PollBudget}
           batch      == {created[i] : i \in {j \in first : ~late[created[j]]}}
<1>1. batch \in SUBSET Orders
  <2>1. \A i \in first : created[i] \in Orders
    BY DEF TypeOK
  <2> HIDE DEF first
  <2> QED BY <2>1
<1>2. /\ sess' = [sess EXCEPT ![Poller] = [Idle EXCEPT !.at = "poll", !.batch = batch]]
      /\ UNCHANGED <<production, created, status, custody, money, prompts, pushes, cool, late>>
  BY DEF PollRead
<1> HIDE DEF batch
<1>3. [Idle EXCEPT !.at = "poll", !.batch = batch] \in Session /\ Poller \in Sessions
  BY <1>1, IdleType DEF Session, Steps, Sessions
<1>4. sess' \in [Sessions -> Session]
  BY <1>2, <1>3, PutType
<1> QED BY <1>2, <1>4 DEF TypeOK, money

LEMMA PollCommitType ==
    ASSUME TypeOK, PollCommit
    PROVE  TypeOK'
<1>1. PICK told : 
        LET posted == {o \in told : "econfirm-funding" \notin keys[o]}
            locked == {o \in told : status[o] = "awaiting_payment"}
        IN  /\ held' = [o \in Orders |-> IF o \in posted THEN held[o] + Total ELSE held[o]]
            /\ keys' = [o \in Orders |->
                           IF o \in posted THEN keys[o] \cup {"econfirm-funding"} ELSE keys[o]]
            /\ escrow' = [o \in Orders |->
                             IF o \in posted THEN [escrow[o] EXCEPT !.funded = Total] ELSE escrow[o]]
            /\ status' = [o \in Orders |-> IF o \in locked THEN "locked" ELSE status[o]]
            /\ prompts' = [o \in Orders |->
                              IF o \in locked /\ Pending(o)
                              THEN [prompts[o] EXCEPT ![Newest(o)] = "succeeded"]
                              ELSE prompts[o]]
  BY DEF PollCommit
<1>2. \A o \in Orders : [prompts[o] EXCEPT ![Newest(o)] = "succeeded"] \in Seq(Prompt)
  BY ExceptType DEF TypeOK, Prompt
<1>3. prompts' \in [Orders -> Seq(Prompt)]
  BY <1>1, <1>2 DEF TypeOK
<1>4. ASSUME NEW o \in Orders PROVE [escrow[o] EXCEPT !.funded = Total] \in Escrow
  <2>1. escrow[o] \in Escrow /\ Total \in 0..Total
    BY FundedType
  <2> QED BY ONLY <2>1, EscrowTypes
<1>5. escrow' \in [Orders -> Escrow]
  BY <1>1, <1>4 DEF TypeOK
<1>6. held' \in [Orders -> Nat]
  BY <1>1, FundingAssumption DEF TypeOK
<1>7. keys' \in [Orders -> SUBSET Keys]
  BY <1>1 DEF TypeOK, Keys
<1>8. status' \in [Orders -> {"none", "awaiting_payment", "locked"}]
  BY <1>1 DEF TypeOK
<1>9. sess' \in [Sessions -> Session]
  BY DoneType DEF PollCommit, Sessions
<1> QED BY <1>3, <1>5, <1>6, <1>7, <1>8, <1>9 DEF PollCommit, TypeOK

LEMMA ForceType ==
    ASSUME TypeOK, NEW o \in Orders, NEW r \in Refs, NEW amount \in 1..Total,
           ForceCommit(o, r, amount)
    PROVE  TypeOK'
<1>1. amount \in Nat /\ escrow[o].funded + amount \in Nat /\ held[o] + amount \in Nat
  BY FundedType
<1>2. held' \in [Orders -> Nat] /\ keys' \in [Orders -> SUBSET Keys]
  BY <1>1 DEF ForceCommit, Post, TypeOK, Keys
<1>3. Admin \in Sessions /\ "force" \in Steps
  BY DEF Sessions, Steps
<1>4. [Idle EXCEPT !.at = "force", !.order = o, !.write = escrow[o].funded + amount] \in Session
  BY <1>1, <1>3, SessionTypes
<1>5. sess' \in [Sessions -> Session]
  BY <1>3, <1>4, PutType DEF ForceCommit
<1> QED BY <1>2, <1>5 DEF ForceCommit, TypeOK

LEMMA ForceEndType ==
    ASSUME TypeOK, InHand, ForceEnd
    PROVE  TypeOK'
<1> DEFINE o == sess[Admin].order
<1>1. Admin \in Sessions /\ o \in Orders /\ sess[Admin].write \in Nat
  BY DEF Sessions, InHand, Busy, ForceEnd, TypeOK, Session
<1>2. sess' \in [Sessions -> Session]
  BY <1>1, DoneType DEF ForceEnd
<1>3. escrow' \in [Orders -> Escrow]
  <2>1. CASE sess[Admin].write <= Total
    <3>1. [escrow[o] EXCEPT !.funded = sess[Admin].write] \in Escrow
      <4>1. escrow[o] \in Escrow /\ sess[Admin].write \in 0..Total
        BY <1>1, <2>1, FundedType
      <4> HIDE DEF o
      <4> QED BY ONLY <4>1, EscrowTypes
    <3>2. escrow' = [escrow EXCEPT ![o] = [escrow[o] EXCEPT !.funded = sess[Admin].write]]
      BY <2>1 DEF ForceEnd
    <3> QED BY <3>1, <3>2 DEF TypeOK
  <2>2. CASE ~(sess[Admin].write <= Total)
    BY <2>2 DEF ForceEnd, TypeOK
  <2> QED BY <2>1, <2>2
<1> QED BY <1>2, <1>3 DEF ForceEnd, TypeOK

LEMMA OtherType ==
    ASSUME TypeOK, NEW o \in Orders, NEW n \in DOMAIN pushes[o], NEW s \in Sessions,
           \/ CallbackFailed(o, n) \/ BuyerAnswers(o, n) \/ CallbackRead(s, o, n)
    PROVE  TypeOK'
<1>1. CASE CallbackFailed(o, n)
  <2>1. prompts' \in [Orders -> Seq(Prompt)]
    BY <1>1, ResolvedType DEF CallbackFailed, Prompt
  <2> QED BY <1>1, <2>1 DEF CallbackFailed, TypeOK, money
<1>2. CASE BuyerAnswers(o, n)
  <2>1. PICK a \in {"ok", "failed"} : pushes' = [pushes EXCEPT ![o][n].answer = a]
    BY <1>2 DEF BuyerAnswers
  <2>2. pushes[o] \in Seq(Push) /\ pushes[o][n] \in Push
    BY DEF TypeOK
  <2>3. [pushes[o][n] EXCEPT !.answer = a] \in Push
    BY <2>2 DEF Push
  <2>4. [pushes[o] EXCEPT ![n] = [pushes[o][n] EXCEPT !.answer = a]] \in Seq(Push)
    BY <2>2, <2>3, ExceptType
  <2>5. pushes' = [pushes EXCEPT ![o] = [pushes[o] EXCEPT ![n] = [pushes[o][n] EXCEPT !.answer = a]]]
    BY <2>1
  <2>6. pushes' \in [Orders -> Seq(Push)]
    BY <2>4, <2>5 DEF TypeOK
  <2> QED BY <1>2, <2>6 DEF BuyerAnswers, TypeOK, money
<1>3. CASE CallbackRead(s, o, n)
  <2>1. sess' \in [Sessions -> Session]
    BY <1>3, SessionTypes, PutType DEF CallbackRead, Steps
  <2> QED BY <1>3, <2>1 DEF CallbackRead, TypeOK, money
<1> QED BY <1>1, <1>2, <1>3

LEMMA RepairType == ASSUME TypeOK, Repair PROVE TypeOK'
<1>1. held' \in [Orders -> Nat]
  BY FundedType DEF Repair, TypeOK
<1>2. keys' \in [Orders -> SUBSET Keys]
  BY DEF Repair, TypeOK, Keys
<1> QED BY <1>1, <1>2 DEF Repair, TypeOK

LEMMA ClockType ==
    ASSUME TypeOK, NEW o \in Orders, NEW s \in Sessions,
           CooldownPasses(o) \/ WindowPasses(o) \/ Dies(s)
    PROVE  TypeOK'
<1>1. sess' \in [Sessions -> Session]
  BY DoneType DEF CooldownPasses, WindowPasses, Dies, TypeOK
<1> QED BY <1>1 DEF CooldownPasses, WindowPasses, Dies, TypeOK, money

-----------------------------------------------------------------------------
(***************************************************************************)
(* What a session read stays true.                                         *)
(***************************************************************************)
LEMMA WorkInHand == Work => InHand
BY DEF Work, InHand, Fits

\* One session goes on as r, the others' orders are as they read them.
LEMMA WorkMoves ==
    ASSUME TypeOK, Work, NEW s \in Sessions, NEW r, sess' = [sess EXCEPT ![s] = r],
           Fits(r)', \A t \in Sessions \ {s} : \A q : q = sess[t] => Fits(q)',
           r.at = "open" => \A t \in Sessions \ {s} : sess[t].at = "open" => sess[t].order # r.order
    PROVE  Work'
<1>1. \A t \in Sessions : sess'[t] = IF t = s THEN r ELSE sess[t]
  BY DEF TypeOK
<1>2. ASSUME NEW t \in Sessions PROVE Fits(sess[t])'
  <2>1. CASE t = s
    <3>1. sess'[t] = r
      BY <1>1, <2>1
    <3> QED BY <3>1 DEF Fits, Unopened, Opened, Forced
  <2>2. CASE t # s
    <3>1. sess'[t] = sess[t]
      BY <1>1, <2>2
    <3>2. PICK q : q = sess[t]
      OBVIOUS
    <3>3. Fits(q)'
      BY <2>2, <3>2
    <3> QED BY <3>1, <3>2, <3>3 DEF Fits, Unopened, Opened, Forced
  <2> QED BY <2>1, <2>2
<1>3. Alone'
  BY <1>1 DEF Work, Alone
<1> QED BY <1>2, <1>3 DEF Work

\* No order changed: only the session that moved has something to show.
LEMMA WorkStands ==
    ASSUME TypeOK, Work, UNCHANGED <<status, custody, escrow, held, keys, pushes>>,
           NEW s \in Sessions, NEW r, sess' = [sess EXCEPT ![s] = r], r.at # "open", Fits(r)
    PROVE  Work'
<1>1. ASSUME NEW q, Fits(q) PROVE Fits(q)'
  BY <1>1 DEF Fits, Unopened, Opened, Forced
<1>2. \A t \in Sessions \ {s} : \A q : q = sess[t] => Fits(q)'
  BY <1>1 DEF Work
<1>3. Fits(r)'
  BY <1>1
<1> QED BY <1>2, <1>3, WorkMoves

\* Sessions stay where they are, and every order is as they read it.
LEMMA WorkKept ==
    ASSUME Work, UNCHANGED sess, \A t \in Sessions : \A q : q = sess[t] => Fits(q)'
    PROVE  Work'
<1>1. ASSUME NEW t \in Sessions PROVE Fits(sess[t])'
  <2>1. PICK q : q = sess[t]
    OBVIOUS
  <2>2. Fits(q)'
    BY <2>1
  <2> QED BY <2>1, <2>2 DEF Fits, Unopened, Opened, Forced
<1> QED BY <1>1 DEF Work, Alone

LEMMA IdleFits == Fits(Idle)
BY DEF Fits, Idle, Busy

\* The books do not change by themselves.
LEMMA BooksStand ==
    ASSUME Books, UNCHANGED <<production, status, custody, money>>
    PROVE  Books'
BY DEF Books, KeysTell, LegacyFunded, FundedIsBooked, BooksMatchFunding, LockedIsFunded,
       Forced, money

\* Of the escrow the books only look at what was funded.
LEMMA BooksSame ==
    ASSUME Books, UNCHANGED <<production, status, custody, held, keys>>,
           \A o \in Orders : escrow'[o].funded = escrow[o].funded
    PROVE  Books'
BY FundingAssumption DEF Books, KeysTell, LegacyFunded, FundedIsBooked, BooksMatchFunding,
       LockedIsFunded, Forced

\* Nor do the pushes.
LEMMA PushesStand ==
    ASSUME Unborn, PushesFollowCustody, UNCHANGED <<status, custody, money, pushes>>
    PROVE  Unborn' /\ PushesFollowCustody'
BY DEF Unborn, PushesFollowCustody, Opened, money

-----------------------------------------------------------------------------
(***************************************************************************)
(* One lemma per action.                                                   *)
(***************************************************************************)
LEMMA InitInv == Init => Inv
<1> SUFFICES ASSUME Init PROVE Inv
  OBVIOUS
<1>1. TypeOK
  BY InitType
<1>2. Unborn
  BY DEF Init, Unborn, NoRow
<1>3. Books
  <2>1. \A o \in Orders : keys[o] = {} /\ held[o] = 0 /\ "repair-funding" \notin keys[o]
    BY DEF Init
  <2>2. \A o \in Legacy : escrow[o].funded = Total
    BY FundingAssumption DEF Init
  <2>3. \A o \in Orders \ Legacy : escrow[o].funded = 0 /\ status[o] = "none"
    BY DEF Init, NoRow
  <2> QED BY <2>1, <2>2, <2>3 DEF Books, KeysTell, LegacyFunded, FundedIsBooked,
             BooksMatchFunding, LockedIsFunded
<1>4. Work
  BY DEF Init, Work, Alone, Fits, Idle, Busy
<1>5. PushesFollowCustody
  BY DEF Init, PushesFollowCustody, Opened
<1> QED BY <1>1, <1>2, <1>3, <1>4, <1>5 DEF Inv

LEMMA CreateInv ==
    ASSUME Inv, NEW s \in Buyers, NEW o \in Orders, Create(s, o)
    PROVE  Inv'
<1>1. TypeOK /\ TypeOK' /\ s \in Sessions
  BY CreateType DEF Inv, Sessions
<1>2. PICK c \in Providers :
        /\ custody' = [custody EXCEPT ![o] = c]
        /\ IF c = "econfirm"
           THEN /\ escrow' = [escrow EXCEPT ![o] = [NoRow EXCEPT !.row = TRUE,
                                                    !.custody = c, !.flag = TRUE]]
                /\ At(s, "open", o)
           ELSE UNCHANGED escrow /\ At(s, "stk", o)
  BY DEF Create, Providers
<1>3. /\ status' = [status EXCEPT ![o] = "awaiting_payment"] /\ status[o] = "none"
      /\ UNCHANGED <<production, held, keys, pushes>>
  BY DEF Create
<1>4. /\ o \notin Legacy /\ escrow[o].funded = 0 /\ held[o] = 0 /\ keys[o] = {}
      /\ pushes[o] = <<>>
  BY <1>3 DEF Inv, Unborn
<1>5. /\ escrow'[o].funded = 0 /\ custody'[o] = c /\ status'[o] = "awaiting_payment"
      /\ c = "econfirm" => /\ escrow'[o].row /\ escrow'[o].custody = "econfirm"
                           /\ escrow'[o].flag
      /\ \A p \in Orders \ {o} : /\ escrow'[p] = escrow[p] /\ custody'[p] = custody[p]
                                 /\ status'[p] = status[p]
  <2> DEFINE row == [NoRow EXCEPT !.row = TRUE, !.custody = c, !.flag = TRUE]
  <2>1. row.row /\ row.custody = c /\ row.flag /\ row.funded = 0
    BY DEF NoRow
  <2>2. escrow' = escrow \/ (escrow' = [escrow EXCEPT ![o] = row] /\ c = "econfirm")
    BY <1>2
  <2>3. c = "econfirm" => escrow' = [escrow EXCEPT ![o] = row]
    BY <1>2
  <2> HIDE DEF row
  <2> QED BY <1>1, <1>2, <1>3, <1>4, <2>1, <2>2, <2>3 DEF TypeOK
<1>6. Unborn'
  BY <1>3, <1>5 DEF Inv, Unborn
<1>7. Books'
  <2>1. KeysTell' /\ LegacyFunded'
    BY <1>3, <1>4, <1>5, FundingAssumption DEF Inv, Books, KeysTell, LegacyFunded, Forced
  <2>2. FundedIsBooked' /\ BooksMatchFunding'
    BY <1>3, <1>4, <1>5 DEF Inv, Books, FundedIsBooked, BooksMatchFunding, Forced
  <2>3. LockedIsFunded'
    BY <1>3, <1>5 DEF Inv, Books, LockedIsFunded, Forced
  <2> QED BY <2>1, <2>2, <2>3 DEF Books
<1>8. PushesFollowCustody'
  BY <1>3, <1>4, <1>5 DEF Inv, PushesFollowCustody, Opened
<1>9. Work'
  <2>1. PICK r : r = [Idle EXCEPT !.at = IF c = "econfirm" THEN "open" ELSE "stk", !.order = o]
    OBVIOUS
  <2>2. sess' = [sess EXCEPT ![s] = r]
    BY <1>2, <2>1 DEF At
  <2>3. r.at = (IF c = "econfirm" THEN "open" ELSE "stk") /\ r.order = o
    BY <2>1 DEF Idle
  <2>4. Fits(r)'
    BY <1>2, <1>3, <1>4, <1>5, <2>3 DEF Fits, Unopened, Providers
  <2>5. ASSUME NEW t \in Sessions \ {s}, NEW q, q = sess[t] PROVE Fits(q)'
    <3>1. Fits(q)
      BY <2>5 DEF Inv, Work
    <3>2. CASE q.at \in Busy
      <4>1. q.order \in Orders \ {o}
        BY <1>3, <3>1, <3>2 DEF Fits
      <4> QED BY <1>3, <1>5, <3>1, <4>1 DEF Fits, Unopened, Opened, Forced
    <3>3. CASE q.at \notin Busy
      BY <3>3 DEF Fits, Busy
    <3> QED BY <3>2, <3>3
  <2>6. \A t \in Sessions \ {s} : sess[t].at = "open" => sess[t].order # o
    BY <1>3 DEF Inv, Work, Fits, Busy
  <2> QED BY <1>1, <2>2, <2>3, <2>4, <2>5, <2>6, WorkMoves DEF Inv
<1> QED BY <1>1, <1>6, <1>7, <1>8, <1>9 DEF Inv

LEMMA OpenInv ==
    ASSUME Inv, NEW s \in Buyers, EconfirmOpen(s)
    PROVE  Inv'
<1> DEFINE o == sess[s].order
<1>1. TypeOK /\ TypeOK' /\ s \in Sessions /\ sess[s].at = "open"
  BY OpenType, WorkInHand DEF Inv, Sessions, EconfirmOpen
<1>2. o \in Orders /\ Unopened(o)
  BY <1>1 DEF Inv, Work, Fits, Busy
<1>3. UNCHANGED <<production, status, held, keys>>
  BY DEF EconfirmOpen
<1>4. CASE Refused(s, o, 0) /\ UNCHANGED <<custody, escrow>>
  <2>1. UNCHANGED pushes /\ sess' = [sess EXCEPT ![s] = Idle]
    BY <1>4 DEF Refused, Done
  <2>2. Work'
    BY <1>1, <1>3, <1>4, <2>1, WorkStands, IdleFits DEF Inv, Idle
  <2> QED BY <1>1, <1>3, <1>4, <2>1, <2>2, BooksStand, PushesStand DEF Inv, money
<1>5. ASSUME NEW r, sess' = [sess EXCEPT ![s] = r], r.at \in {"stk", "fund"}, r.order = o,
             UNCHANGED pushes,
             \A p \in Orders : /\ escrow'[p].funded = escrow[p].funded
                               /\ escrow'[p].row = escrow[p].row,
             \A p \in Orders \ {o} : custody'[p] = custody[p] /\ escrow'[p] = escrow[p],
             Fits(r)'
      PROVE  Inv'
  <2>1. Unborn'
    BY <1>3, <1>5 DEF Inv, Unborn
  <2>2. Books'
    <3>1. KeysTell' /\ LegacyFunded'
      BY <1>2, <1>3, <1>5, FundingAssumption DEF Inv, Books, KeysTell, LegacyFunded, Forced, Unopened
    <3>2. FundedIsBooked' /\ BooksMatchFunding'
      BY <1>3, <1>5 DEF Inv, Books, FundedIsBooked, BooksMatchFunding, Forced
    <3>3. LockedIsFunded'
      BY <1>2, <1>3, <1>5 DEF Inv, Books, LockedIsFunded, Forced, Unopened
    <3> QED BY <3>1, <3>2, <3>3 DEF Books
  <2>3. PushesFollowCustody'
    BY <1>2, <1>5 DEF Inv, PushesFollowCustody, Opened, Unopened
  <2>4. ASSUME NEW t \in Sessions \ {s}, NEW q, q = sess[t] PROVE Fits(q)'
    <3>1. Fits(q) /\ (q.at = "open" => q.order # o)
      BY <1>1, <2>4 DEF Inv, Work, Alone
    <3>2. CASE q.at \in Busy /\ q.order = o
      BY <1>2, <1>3, <3>1, <3>2 DEF Fits, Unopened, Opened, Forced, Busy
    <3>3. CASE q.at \in Busy /\ q.order # o
      BY <1>3, <1>5, <3>1, <3>3 DEF Fits, Unopened, Opened, Forced
    <3>4. CASE q.at \notin Busy
      BY <3>4 DEF Fits, Busy
    <3> QED BY <3>2, <3>3, <3>4
  <2>5. Work'
    BY <1>1, <1>5, <2>4, WorkMoves DEF Inv
  <2> QED BY <1>1, <2>1, <2>2, <2>3, <2>5 DEF Inv
<1>6. CASE /\ custody' = [custody EXCEPT ![o] = "simulated"]
           /\ escrow' = [escrow EXCEPT ![o].custody = "simulated"]
           /\ At(s, "stk", o)
           /\ UNCHANGED <<prompts, pushes, cool>>
  <2>1. PICK r : r = [Idle EXCEPT !.at = "stk", !.order = o]
    OBVIOUS
  <2>2. sess' = [sess EXCEPT ![s] = r] /\ r.at = "stk" /\ r.order = o
    BY <1>6, <2>1 DEF At, Idle
  <2>3. /\ custody'[o] = "simulated"
        /\ \A p \in Orders : /\ escrow'[p].funded = escrow[p].funded
                             /\ escrow'[p].row = escrow[p].row
        /\ \A p \in Orders \ {o} : custody'[p] = custody[p] /\ escrow'[p] = escrow[p]
    BY <1>1, <1>2, <1>6 DEF TypeOK, Escrow
  <2>4. Fits(r)'
    BY <1>2, <1>3, <2>2, <2>3 DEF Fits, Unopened
  <2> QED BY <1>5, <1>6, <2>2, <2>3, <2>4
<1>7. CASE /\ escrow' = [escrow EXCEPT ![o].ref = TRUE, ![o].flag = FALSE]
           /\ At(s, "fund", o)
           /\ UNCHANGED <<custody, prompts, pushes, cool>>
  <2>1. PICK r : r = [Idle EXCEPT !.at = "fund", !.order = o]
    OBVIOUS
  <2>2. sess' = [sess EXCEPT ![s] = r] /\ r.at = "fund" /\ r.order = o
    BY <1>7, <2>1 DEF At, Idle
  <2>3. escrow' = [escrow EXCEPT ![o] = [escrow[o] EXCEPT !.ref = TRUE, !.flag = FALSE]]
    BY <1>7
  <2>4. /\ escrow'[o].ref /\ ~escrow'[o].flag /\ escrow'[o].custody = escrow[o].custody
        /\ \A p \in Orders : /\ escrow'[p].funded = escrow[p].funded
                             /\ escrow'[p].row = escrow[p].row
        /\ \A p \in Orders \ {o} : escrow'[p] = escrow[p]
    <3> DEFINE row == [escrow[o] EXCEPT !.ref = TRUE, !.flag = FALSE]
    <3>1. escrow[o] \in Escrow /\ escrow \in [Orders -> Escrow] /\ o \in Orders
      BY <1>1, <1>2 DEF TypeOK
    <3> HIDE DEF o
    <3>2. /\ row.ref /\ ~row.flag /\ row.custody = escrow[o].custody
          /\ row.funded = escrow[o].funded /\ row.row = escrow[o].row
      BY <3>1 DEF Escrow
    <3>3. escrow' = [escrow EXCEPT ![o] = row]
      BY <2>3
    <3> HIDE DEF row
    <3> QED BY <3>1, <3>2, <3>3
  <2>5. Fits(r)'
    BY <1>2, <1>3, <1>7, <2>2, <2>4 DEF Fits, Unopened, Opened
  <2> QED BY <1>5, <1>7, <2>2, <2>4, <2>5
<1> QED BY <1>4, <1>6, <1>7 DEF EconfirmOpen

\* A push may be added to an order whose custody it follows.
LEMMA RequestedInv ==
    ASSUME Inv, TypeOK', NEW s \in Sessions, NEW o \in Orders, NEW prev,
           Requested(s, o, custody[o], prev),
           status[o] # "none", custody[o] = "econfirm" => Opened(o),
           UNCHANGED <<production, status, custody, money>>
    PROVE  Inv'
<1> DEFINE push == [via |-> custody[o], answer |-> "none"]
<1>1. TypeOK /\ pushes[o] \in Seq(Push)
  BY DEF Inv, TypeOK
<1>2. pushes' = pushes \/ pushes' = [pushes EXCEPT ![o] = Append(pushes[o], push)]
  BY DEF Requested
<1>3. \A p \in Orders \ {o} : pushes'[p] = pushes[p]
  BY <1>1, <1>2 DEF TypeOK
<1>4. \A n \in DOMAIN pushes'[o] : pushes'[o][n].via = custody[o]
  <2>1. CASE pushes' = pushes
    BY <2>1 DEF Inv, PushesFollowCustody
  <2>2. CASE pushes' = [pushes EXCEPT ![o] = Append(pushes[o], push)]
    <3>1. pushes'[o] = Append(pushes[o], push)
      BY <1>1, <2>2 DEF TypeOK
    <3>2. \A n \in DOMAIN pushes[o] : pushes[o][n].via = custody[o]
      BY DEF Inv, PushesFollowCustody
    <3>3. push.via = custody[o]
      OBVIOUS
    <3> HIDE DEF push
    <3> QED BY <1>1, <3>1, <3>2, <3>3
  <2> QED BY <1>2, <2>1, <2>2
<1>5. Unborn'
  BY <1>3 DEF Inv, Unborn, money
<1>6. PushesFollowCustody'
  BY <1>3, <1>4 DEF Inv, PushesFollowCustody, Opened, money
<1>7. Work'
  <2>1. PICK r : r = [Idle EXCEPT !.at = "record", !.order = o, !.prev = prev]
    OBVIOUS
  <2>2. sess' = [sess EXCEPT ![s] = r] /\ r.at = "record" /\ r.order = o
    BY <2>1 DEF Requested, Idle
  <2>3. Fits(r)'
    BY <2>2 DEF Fits
  <2>4. ASSUME NEW t \in Sessions \ {s}, NEW q, q = sess[t] PROVE Fits(q)'
    <3>1. Fits(q)
      BY <2>4 DEF Inv, Work
    <3>2. q.at = "open" => pushes'[q.order] = pushes[q.order]
      BY <1>3, <3>1 DEF Fits, Unopened, Opened, Busy
    <3> QED BY <3>1, <3>2 DEF Fits, Unopened, Opened, Forced, money
  <2> QED BY <1>1, <2>2, <2>3, <2>4, WorkMoves DEF Inv
<1> QED BY <1>5, <1>6, <1>7, BooksStand DEF Inv

\* A session that returns without a push changes no order the books know of.
LEMMA DoneInv ==
    ASSUME Inv, TypeOK', NEW s \in Sessions, Done(s),
           UNCHANGED <<production, status, custody, money, pushes>>
    PROVE  Inv'
<1>1. Work'
  BY WorkStands, IdleFits DEF Inv, Done, Idle, money
<1> QED BY <1>1, BooksStand, PushesStand DEF Inv

LEMMA StkInv ==
    ASSUME Inv, NEW s \in Buyers, EconfirmStk(s) \/ GatewayStk(s) \/ RecordPrompt(s)
    PROVE  Inv'
<1> DEFINE o == sess[s].order
<1>1. TypeOK' /\ s \in Sessions
  BY StkType, WorkInHand DEF Inv, Sessions
<1>2. UNCHANGED <<production, status, custody, money>>
  BY DEF EconfirmStk, GatewayStk, RecordPrompt
<1>3. Fits(sess[s])
  BY <1>1 DEF Inv, Work
<1>4. CASE Requested(s, o, "econfirm", 0) /\ sess[s].at = "fund"
  <2>1. o \in Orders /\ status[o] # "none" /\ custody[o] = "econfirm" /\ Opened(o)
    BY <1>3, <1>4 DEF Fits, Busy
  <2> HIDE DEF o
  <2> QED BY <1>1, <1>2, <1>4, <2>1, RequestedInv
<1>5. CASE Requested(s, o, "simulated", 0) /\ sess[s].at = "stk"
  <2>1. o \in Orders /\ status[o] # "none" /\ custody[o] = "simulated"
    BY <1>3, <1>5 DEF Fits, Busy
  <2> HIDE DEF o
  <2> QED BY <1>1, <1>2, <1>5, <2>1, RequestedInv
<1>6. CASE Done(s) /\ UNCHANGED pushes
  BY <1>1, <1>2, <1>6, DoneInv
<1> QED BY <1>4, <1>5, <1>6 DEF EconfirmStk, GatewayStk, RecordPrompt, Refused

LEMMA ResendInv ==
    ASSUME Inv, NEW s \in Buyers, NEW o \in Orders, Resend(s, o)
    PROVE  Inv'
<1> DEFINE prev == IF Pending(o) THEN Newest(o) ELSE 0
<1>1. TypeOK' /\ s \in Sessions
  BY ResendType DEF Inv, Sessions
<1>2. /\ Requested(s, o, custody[o], prev) \/ Refused(s, o, prev)
      /\ status[o] # "none" /\ (custody[o] = "econfirm" => Opened(o))
      /\ UNCHANGED <<production, status, custody, money>>
  BY DEF Resend
<1>3. CASE Requested(s, o, custody[o], prev)
  BY <1>1, <1>2, <1>3, RequestedInv
<1>4. CASE Refused(s, o, prev)
  BY <1>1, <1>2, <1>4, DoneInv DEF Refused
<1> QED BY <1>2, <1>3, <1>4

LEMMA AnswerInv ==
    ASSUME Inv, NEW o \in Orders, NEW n \in DOMAIN pushes[o], BuyerAnswers(o, n)
    PROVE  Inv'
<1>1. TypeOK /\ TypeOK' /\ pushes[o] \in Seq(Push)
  BY OtherType DEF Inv, Sessions, TypeOK
<1>2. PICK a \in {"ok", "failed"} : pushes' = [pushes EXCEPT ![o][n].answer = a]
  BY DEF BuyerAnswers
<1>3. UNCHANGED <<production, status, custody, money, sess>>
  BY DEF BuyerAnswers
<1>4. /\ \A p \in Orders : DOMAIN pushes'[p] = DOMAIN pushes[p]
      /\ \A p \in Orders \ {o} : pushes'[p] = pushes[p]
      /\ \A m \in DOMAIN pushes[o] : pushes'[o][m].via = pushes[o][m].via
      /\ pushes[o] # <<>>
  <2> DEFINE answered == [pushes[o][n] EXCEPT !.answer = a]
  <2>1. pushes[o][n] \in Push
    BY <1>1
  <2>2. answered.via = pushes[o][n].via
    BY <2>1 DEF Push
  <2>3. pushes' = [pushes EXCEPT ![o] = [pushes[o] EXCEPT ![n] = answered]]
    BY <1>2
  <2> HIDE DEF answered
  <2>4. pushes'[o] = [pushes[o] EXCEPT ![n] = answered]
    BY <1>1, <2>3 DEF TypeOK
  <2>5. \A p \in Orders \ {o} : pushes'[p] = pushes[p]
    BY <1>1, <2>3 DEF TypeOK
  <2>6. DOMAIN pushes'[o] = DOMAIN pushes[o]
    BY <2>4
  <2>7. \A m \in DOMAIN pushes[o] : pushes'[o][m].via = pushes[o][m].via
    BY <2>2, <2>4
  <2>8. pushes[o] # <<>>
    BY <1>1
  <2> QED BY <2>5, <2>6, <2>7, <2>8
<1>5. Unborn'
  BY <1>3, <1>4 DEF Inv, Unborn, money
<1>6. PushesFollowCustody'
  BY <1>3, <1>4 DEF Inv, PushesFollowCustody, Opened, money
<1>7. ASSUME NEW t \in Sessions, NEW q, q = sess[t] PROVE Fits(q)'
  <2>1. Fits(q)
    BY <1>7 DEF Inv, Work
  <2>2. q.at = "open" => pushes'[q.order] = pushes[q.order]
    BY <1>4, <2>1 DEF Fits, Unopened, Busy
  <2> QED BY <1>3, <2>1, <2>2 DEF Fits, Unopened, Opened, Forced, money
<1>8. Work'
  BY <1>3, <1>7, WorkKept DEF Inv
<1> QED BY <1>1, <1>3, <1>5, <1>6, <1>8, BooksStand DEF Inv

\* Nothing the invariant looks at changes.
LEMMA StillInv ==
    ASSUME Inv, TypeOK', UNCHANGED <<production, status, custody, money, pushes, sess>>
    PROVE  Inv'
<1>1. ASSUME NEW t \in Sessions, NEW q, q = sess[t] PROVE Fits(q)'
  <2>1. Fits(q)
    BY <1>1 DEF Inv, Work
  <2> QED BY <2>1 DEF Fits, Unopened, Opened, Forced, money
<1>2. Work'
  BY <1>1, WorkKept DEF Inv
<1> QED BY <1>2, BooksStand, PushesStand DEF Inv

LEMMA CallbackReadInv ==
    ASSUME Inv, NEW s \in Buyers, NEW o \in Orders, NEW n \in DOMAIN pushes[o],
           CallbackFailed(o, n) \/ CallbackRead(s, o, n)
    PROVE  Inv'
<1>1. TypeOK' /\ s \in Sessions
  BY OtherType DEF Inv, Sessions
<1>2. CASE CallbackFailed(o, n)
  BY <1>1, <1>2, StillInv DEF CallbackFailed
<1>3. CASE CallbackRead(s, o, n)
  <2>1. PICK r : r = [Idle EXCEPT !.at = "callback", !.order = o]
    OBVIOUS
  <2>2. sess' = [sess EXCEPT ![s] = r] /\ r.at = "callback" /\ r.order = o
    BY <1>3, <2>1 DEF CallbackRead, Idle
  <2>3. Fits(r)
    BY <1>3, <2>2 DEF Fits, CallbackRead
  <2>4. UNCHANGED <<status, custody, escrow, held, keys, pushes>>
    BY <1>3 DEF CallbackRead, money
  <2>5. Work'
    BY <1>1, <2>2, <2>3, <2>4, WorkStands DEF Inv
  <2> QED BY <1>1, <1>3, <2>5, BooksStand, PushesStand DEF Inv, CallbackRead
<1> QED BY <1>2, <1>3

LEMMA PollReadInv == ASSUME Inv, PollRead PROVE Inv'
<1>1. TypeOK' /\ Poller \in Sessions
  BY PollReadType DEF Inv, Sessions
<1>2. PICK batch : sess' = [sess EXCEPT ![Poller] = [Idle EXCEPT !.at = "poll", !.batch = batch]]
  BY DEF PollRead
<1>3. PICK r : r = [Idle EXCEPT !.at = "poll", !.batch = batch]
  OBVIOUS
<1>4. sess' = [sess EXCEPT ![Poller] = r] /\ r.at = "poll"
  BY <1>2, <1>3 DEF Idle
<1>5. Fits(r)
  BY <1>4 DEF Fits, Busy
<1>6. Work'
  BY <1>1, <1>4, <1>5, WorkStands DEF Inv, PollRead, money
<1> QED BY <1>1, <1>6, BooksStand, PushesStand DEF Inv, PollRead

\* What the payment callback finds under the order's lock: a prompt went to the
\* gateway, and unless a collection was forced, its key is only there with the
\* money.
LEMMA CallbackInv ==
    ASSUME Inv, NEW s \in Buyers, CallbackCommit(s)
    PROVE  Inv'
<1>1. TypeOK /\ TypeOK' /\ s \in Sessions /\ sess[s].at = "callback"
  BY CallbackType, WorkInHand DEF Inv, Sessions, CallbackCommit
<1>o. PICK o : o = sess[s].order
  OBVIOUS
<1>2. o \in Orders /\ custody[o] = "simulated" /\ status[o] # "none"
  BY <1>1, <1>o DEF Inv, Work, Fits, Busy
<1>3. /\ status' = [status EXCEPT ![o] = "locked"]
      /\ sess' = [sess EXCEPT ![s] = Idle]
      /\ UNCHANGED <<production, custody, pushes>>
  BY <1>o DEF CallbackCommit, Done
<1>4. /\ status'[o] = "locked"
      /\ \A p \in Orders \ {o} : status'[p] = status[p]
  BY <1>1, <1>2, <1>3 DEF TypeOK
<1>5. /\ escrow[o].funded \in 0..Total /\ held[o] \in Nat /\ Total \in Nat
      /\ Missing(o) = Total - escrow[o].funded
  BY <1>1, <1>2, FundedType DEF Missing
<1>6. \/ /\ ~production /\ keys'[o] = keys[o] \cup {"callback-funding"}
         /\ held'[o] = held[o] + Missing(o) /\ escrow'[o].funded = Total
      \/ /\ UNCHANGED <<held, keys, escrow>>
         /\ production \/ escrow[o].funded = Total \/ "callback-funding" \in keys[o]
  <2>1. CASE ~production /\ Posts(o, "callback-funding")
    <3>1. /\ Post(o, "callback-funding", Missing(o))
          /\ escrow' = [escrow EXCEPT ![o].row = TRUE, ![o].funded = Total]
      BY <1>o, <2>1 DEF CallbackCommit
    <3>2. escrow' = [escrow EXCEPT ![o] = [escrow[o] EXCEPT !.row = TRUE, !.funded = Total]]
      BY <3>1
    <3> QED BY <1>1, <1>2, <2>1, <3>1, <3>2 DEF TypeOK, Escrow, Post
  <2>2. CASE ~(~production /\ Posts(o, "callback-funding"))
    <3>1. UNCHANGED money
      BY <1>o, <2>2 DEF CallbackCommit
    <3>2. production \/ ~Posts(o, "callback-funding")
      BY <2>2
    <3> QED BY <1>5, <3>1, <3>2 DEF Posts, money
  <2> QED BY <2>1, <2>2
<1>7. \A p \in Orders \ {o} : held'[p] = held[p] /\ keys'[p] = keys[p] /\ escrow'[p] = escrow[p]
  <2>1. CASE UNCHANGED money
    BY <2>1 DEF money
  <2>2. CASE /\ Post(o, "callback-funding", Missing(o))
             /\ escrow' = [escrow EXCEPT ![o].row = TRUE, ![o].funded = Total]
    BY <1>1, <2>2 DEF TypeOK, Post
  <2> QED BY <1>o, <2>1, <2>2 DEF CallbackCommit
<1>8. /\ escrow'[o].ref = escrow[o].ref /\ escrow'[o].flag = escrow[o].flag
      /\ escrow'[o].custody = escrow[o].custody /\ (escrow[o].row => escrow'[o].row)
  <2>1. \/ escrow' = [escrow EXCEPT ![o] = [escrow[o] EXCEPT !.row = TRUE, !.funded = Total]]
        \/ escrow' = escrow
    <3>1. \/ escrow' = [escrow EXCEPT ![o].row = TRUE, ![o].funded = Total]
          \/ escrow' = escrow
      BY <1>o DEF CallbackCommit, money
    <3> QED BY <3>1
  <2>2. escrow[o] \in Escrow
    BY <1>1, <1>2, FundedType
  <2> DEFINE row == [escrow[o] EXCEPT !.row = TRUE, !.funded = Total]
  <2>3. /\ row.ref = escrow[o].ref /\ row.flag = escrow[o].flag
        /\ row.custody = escrow[o].custody /\ row.row
    BY <2>2 DEF Escrow
  <2>4. escrow' = [escrow EXCEPT ![o] = row] \/ escrow' = escrow
    BY <2>1
  <2>5. o \in Orders /\ escrow \in [Orders -> Escrow]
    BY <1>1, <1>2 DEF TypeOK
  <2> HIDE DEF row
  <2> QED BY <2>3, <2>4, <2>5
<1>10. Forced(o)' <=> Forced(o)
  BY <1>6, FundingAssumption DEF Forced
<1>11. Unborn'
  BY <1>2, <1>3, <1>4, <1>7 DEF Inv, Unborn
<1>12. KeysTell'
  <2>1. ASSUME NEW p \in Orders \ {o} PROVE Forced(p)' <=> Forced(p)
    BY <1>7 DEF Forced
  <2> QED BY <1>2, <1>3, <1>5, <1>6, <1>7, <1>10, <2>1 DEF Inv, Books, KeysTell
<1>13. LegacyFunded'
  BY <1>6, <1>7, FundingAssumption DEF Inv, Books, LegacyFunded
<1>14. FundedIsBooked'
  <2>1. ASSUME NEW p \in Orders, p \in Legacy => "repair-funding" \in keys'[p]
        PROVE  escrow'[p].funded <= held'[p]
    <3>1. CASE p = o
      <4>1. (o \in Legacy => "repair-funding" \in keys[o]) => escrow[o].funded <= held[o]
        BY <1>2 DEF Inv, Books, FundedIsBooked
      <4> QED BY <1>5, <1>6, <2>1, <3>1, <4>1
    <3>2. CASE p # o
      BY <1>7, <2>1, <3>2 DEF Inv, Books, FundedIsBooked
    <3> QED BY <3>1, <3>2
  <2> QED BY <2>1 DEF FundedIsBooked
<1>15. BooksMatchFunding'
  <2>1. ASSUME NEW p \in Orders, p \notin Legacy, ~Forced(p)' PROVE held'[p] = escrow'[p].funded
    <3>1. CASE p = o
      <4>1. held[o] = escrow[o].funded
        BY <1>2, <1>10, <2>1, <3>1 DEF Inv, Books, BooksMatchFunding
      <4> QED BY <1>5, <1>6, <3>1, <4>1
    <3>2. CASE p # o
      BY <1>7, <2>1, <3>2 DEF Inv, Books, BooksMatchFunding, Forced
    <3> QED BY <3>1, <3>2
  <2> QED BY <2>1 DEF BooksMatchFunding
<1>16. LockedIsFunded'
  <2>1. ASSUME NEW p \in Orders, status'[p] = "locked", ~Forced(p)'
        PROVE  escrow'[p].funded = Total \/ (production' /\ custody'[p] = "simulated")
    <3>1. CASE p = o
      <4>1. "callback-funding" \in keys[o] => escrow[o].funded = Total
        BY <1>2, <1>10, <2>1, <3>1 DEF Inv, Books, KeysTell
      <4> QED BY <1>2, <1>3, <1>6, <3>1, <4>1
    <3>2. CASE p # o
      BY <1>3, <1>4, <1>7, <2>1, <3>2 DEF Inv, Books, LockedIsFunded, Forced
    <3> QED BY <3>1, <3>2
  <2> QED BY <2>1 DEF LockedIsFunded
<1>17. PushesFollowCustody'
  BY <1>2, <1>3, <1>7 DEF Inv, PushesFollowCustody, Opened
<1>18. Work'
  <2>1. ASSUME NEW t \in Sessions \ {s}, NEW q, q = sess[t] PROVE Fits(q)'
    <3>1. Fits(q)
      BY <2>1 DEF Inv, Work
    <3>2. CASE q.at \in Busy /\ q.order = o
      <4>1. q.at # "open"
        BY <1>2, <3>1, <3>2 DEF Fits, Unopened
      <4>2. held[o] <= held'[o]
        BY <1>5, <1>6
      <4>3. q.at = "force" => q.order \in Legacy \/ q.write <= held'[o]
        <5>1. q.at = "force" => q.write \in Nat
          BY <1>1, <2>1 DEF TypeOK, Session
        <5>2. held'[o] \in Nat
          BY <1>1, <1>2 DEF TypeOK
        <5> QED BY <1>5, <3>1, <3>2, <4>2, <5>1, <5>2 DEF Fits
      <4> QED BY <1>3, <1>4, <1>8, <1>10, <3>1, <3>2, <4>1, <4>3 DEF Fits, Opened
    <3>3. CASE q.at \in Busy /\ q.order # o
      BY <1>3, <1>4, <1>7, <3>1, <3>3 DEF Fits, Unopened, Opened, Forced
    <3>4. CASE q.at \notin Busy
      BY <3>4 DEF Fits, Busy
    <3> QED BY <3>2, <3>3, <3>4
  <2>2. Fits(Idle)' /\ Idle.at # "open"
    BY DEF Fits, Idle, Busy
  <2> QED BY <1>1, <1>3, <2>1, <2>2, WorkMoves DEF Inv
<1> QED BY <1>1, <1>11, <1>12, <1>13, <1>14, <1>15, <1>16, <1>17, <1>18 DEF Inv, Books

\* eConfirm reports payment only of orders that were prompted through it.
LEMMA PollCommitInv == ASSUME Inv, PollCommit PROVE Inv'
<1>1. TypeOK /\ TypeOK' /\ Poller \in Sessions
  BY PollCommitType DEF Inv, Sessions
<1>2. PICK told \in SUBSET {o \in sess[Poller].batch : Reported(o)} :
        LET posted == {o \in told : "econfirm-funding" \notin keys[o]}
            locked == {o \in told : status[o] = "awaiting_payment"}
        IN  /\ held' = [o \in Orders |-> IF o \in posted THEN held[o] + Total ELSE held[o]]
            /\ keys' = [o \in Orders |->
                           IF o \in posted THEN keys[o] \cup {"econfirm-funding"} ELSE keys[o]]
            /\ escrow' = [o \in Orders |->
                             IF o \in posted THEN [escrow[o] EXCEPT !.funded = Total] ELSE escrow[o]]
            /\ status' = [o \in Orders |-> IF o \in locked THEN "locked" ELSE status[o]]
  BY DEF PollCommit
<1>3. UNCHANGED <<production, custody, pushes>> /\ sess' = [sess EXCEPT ![Poller] = Idle]
  BY DEF PollCommit, Done
<1>4. ASSUME NEW o \in Orders, o \in told
      PROVE  custody[o] = "econfirm" /\ Opened(o) /\ pushes[o] # <<>> /\ status[o] # "none"
  <2>1. PICK n \in DOMAIN pushes[o] : pushes[o][n].via = "econfirm"
    BY <1>4 DEF Reported, Paid
  <2>2. custody[o] = "econfirm" /\ Opened(o) /\ pushes[o] # <<>>
    BY <2>1 DEF Inv, PushesFollowCustody
  <2> QED BY <2>2 DEF Inv, Unborn
<1>5. ASSUME NEW o \in Orders
      PROVE  \/ /\ o \in told /\ "econfirm-funding" \notin keys[o]
                /\ keys'[o] = keys[o] \cup {"econfirm-funding"}
                /\ held'[o] = held[o] + Total /\ escrow'[o].funded = Total
                /\ escrow'[o].row = escrow[o].row /\ escrow'[o].custody = escrow[o].custody
                /\ escrow'[o].ref = escrow[o].ref /\ escrow'[o].flag = escrow[o].flag
             \/ /\ o \in told => "econfirm-funding" \in keys[o]
                /\ keys'[o] = keys[o] /\ held'[o] = held[o] /\ escrow'[o] = escrow[o]
  <2>1. escrow[o] \in Escrow
    BY <1>1, FundedType
  <2> QED BY <1>2, <2>1 DEF Escrow
<1>6. ASSUME NEW o \in Orders
      PROVE  /\ o \notin told => status'[o] = status[o]
             /\ status'[o] = "none" => status[o] = "none"
             /\ status'[o] # status[o] => status'[o] = "locked"
  BY <1>2
<1>7. ASSUME NEW o \in Orders PROVE (Forced(o)' <=> Forced(o)) /\ held[o] <= held'[o]
  <2>1. held[o] \in Nat /\ Total \in Nat
    BY <1>1, FundedType
  <2> QED BY <1>5, <2>1, FundingAssumption DEF Forced
<1>8. Unborn'
  <2>1. ASSUME NEW o \in Orders, status'[o] = "none"
        PROVE  keys'[o] = keys[o] /\ held'[o] = held[o] /\ escrow'[o] = escrow[o]
    BY <1>4, <1>5, <1>6, <2>1
  <2> QED BY <1>3, <1>6, <2>1 DEF Inv, Unborn
<1>9. KeysTell'
  <2>1. ASSUME NEW o \in Orders, keys'[o] \cap {"callback-funding", "econfirm-funding"} # {}, ~Forced(o)'
        PROVE  escrow'[o].funded = Total
    BY <1>5, <1>7, <2>1 DEF Inv, Books, KeysTell
  <2>2. ASSUME NEW o \in Orders, o \notin Legacy
        PROVE  /\ "repair-funding" \notin keys'[o]
               /\ keys'[o] = {} => held'[o] = 0
               /\ custody'[o] = "econfirm" => "callback-funding" \notin keys'[o]
    BY <1>3, <1>5, <2>2 DEF Inv, Books, KeysTell
  <2> QED BY <2>1, <2>2 DEF KeysTell
<1>10. LegacyFunded'
  BY <1>5, FundingAssumption DEF Inv, Books, LegacyFunded
<1>11. FundedIsBooked'
  <2>1. ASSUME NEW o \in Orders, o \in Legacy => "repair-funding" \in keys'[o]
        PROVE  escrow'[o].funded <= held'[o]
    <3>1. held[o] \in Nat /\ Total \in Nat
      BY <1>1, FundedType
    <3> QED BY <1>5, <2>1, <3>1 DEF Inv, Books, FundedIsBooked
  <2> QED BY <2>1 DEF FundedIsBooked
<1>12. BooksMatchFunding'
  <2>1. ASSUME NEW o \in Orders, o \notin Legacy, ~Forced(o)' PROVE held'[o] = escrow'[o].funded
    <3>1. ASSUME o \in told, "econfirm-funding" \notin keys[o] PROVE held[o] = 0
      <4>1. keys[o] \subseteq {"callback-funding", "econfirm-funding", "repair-funding"}
        BY <1>1, <1>7, <2>1 DEF TypeOK, Keys, Forced
      <4>2. keys[o] = {}
        BY <1>4, <2>1, <3>1, <4>1 DEF Inv, Books, KeysTell
      <4> QED BY <2>1, <4>2 DEF Inv, Books, KeysTell
    <3>2. held[o] = escrow[o].funded
      BY <1>7, <2>1 DEF Inv, Books, BooksMatchFunding
    <3>3. Total \in Nat
      BY FundingAssumption
    <3> QED BY <1>5, <3>1, <3>2, <3>3
  <2> QED BY <2>1 DEF BooksMatchFunding
<1>13. LockedIsFunded'
  <2>1. ASSUME NEW o \in Orders, status'[o] = "locked", ~Forced(o)'
        PROVE  escrow'[o].funded = Total \/ (production' /\ custody'[o] = "simulated")
    <3>1. CASE o \in told
      BY <1>5, <1>7, <2>1, <3>1 DEF Inv, Books, KeysTell
    <3>2. CASE o \notin told
      BY <1>3, <1>5, <1>6, <1>7, <2>1, <3>2 DEF Inv, Books, LockedIsFunded
    <3> QED BY <3>1, <3>2
  <2> QED BY <2>1 DEF LockedIsFunded
<1>14. PushesFollowCustody'
  BY <1>3, <1>5 DEF Inv, PushesFollowCustody, Opened
<1>15. Work'
  <2>1. ASSUME NEW t \in Sessions \ {Poller}, NEW q, q = sess[t] PROVE Fits(q)'
    <3>1. Fits(q)
      BY <2>1 DEF Inv, Work
    <3>2. CASE q.at \in Busy
      <4> DEFINE o == q.order
      <4>1. o \in Orders /\ status[o] # "none"
        BY <3>1, <3>2 DEF Fits
      <4>2. q.at = "open" => o \notin told
        BY <1>4, <3>1, <4>1 DEF Fits, Unopened
      <4>3. q.at = "force" => o \in Legacy \/ q.write <= held'[o]
        <5>1. q.write \in Nat /\ held[o] \in Nat /\ held'[o] \in Nat
          BY <1>1, <2>1, <4>1 DEF TypeOK, Session
        <5> QED BY <1>7, <3>1, <4>1, <5>1 DEF Fits
      <4>4. status'[o] # "none" /\ (Forced(o)' <=> Forced(o))
        BY <1>6, <1>7, <4>1
      <4>5. Opened(o) => Opened(o)'
        BY <1>5, <4>1 DEF Opened
      <4>6. q.at = "open" => Unopened(o)'
        BY <1>3, <1>5, <1>6, <3>1, <4>1, <4>2 DEF Fits, Unopened
      <4> QED BY <1>3, <3>1, <4>1, <4>3, <4>4, <4>5, <4>6 DEF Fits, Forced, Opened, Unopened
    <3>3. CASE q.at \notin Busy
      BY <3>3 DEF Fits, Busy
    <3> QED BY <3>2, <3>3
  <2>2. Fits(Idle)' /\ Idle.at # "open"
    BY DEF Fits, Idle, Busy
  <2> QED BY <1>1, <1>3, <2>1, <2>2, WorkMoves DEF Inv
<1> QED BY <1>1, <1>8, <1>9, <1>10, <1>11, <1>12, <1>13, <1>14, <1>15 DEF Inv, Books

\* A forced collection is in the ledger before it is counted.
LEMMA ForceInv ==
    ASSUME Inv, NEW o \in Orders, NEW k \in Refs, NEW amount \in 1..Total,
           ForceCommit(o, k, amount)
    PROVE  Inv'
<1>1. TypeOK /\ TypeOK' /\ Admin \in Sessions
  BY ForceType DEF Inv, Sessions
<1>2. /\ UNCHANGED <<production, status, custody, escrow, pushes>>
      /\ held' = [held EXCEPT ![o] = held[o] + amount]
      /\ keys' = [keys EXCEPT ![o] = keys[o] \cup {k}]
      /\ escrow[o].row
      /\ sess' = [sess EXCEPT ![Admin] =
                     [Idle EXCEPT !.at = "force", !.order = o, !.write = escrow[o].funded + amount]]
  BY DEF ForceCommit, Post
<1>3. /\ escrow[o].funded \in 0..Total /\ held[o] \in Nat /\ Total \in Nat /\ amount \in Nat
      /\ amount > 0 /\ status[o] # "none"
  BY <1>1, <1>2, FundedType DEF Inv, Unborn
<1>4. /\ held'[o] = held[o] + amount /\ keys'[o] = keys[o] \cup {k} /\ Forced(o)'
      /\ \A p \in Orders \ {o} : held'[p] = held[p] /\ keys'[p] = keys[p]
  BY <1>1, <1>2 DEF TypeOK, Forced
<1>5. Unborn'
  BY <1>2, <1>3, <1>4 DEF Inv, Unborn
<1>6. KeysTell' /\ LegacyFunded'
  <2>1. k \notin {"callback-funding", "econfirm-funding", "repair-funding"}
    BY FundingAssumption
  <2>2. LegacyFunded'
    BY <1>2 DEF Inv, Books, LegacyFunded
  <2>3. ASSUME NEW p \in Orders
        PROVE  /\ keys'[p] \cap {"callback-funding", "econfirm-funding"} # {} /\ ~Forced(p)' =>
                     escrow'[p].funded = Total
               /\ p \notin Legacy =>
                     /\ "repair-funding" \notin keys'[p]
                     /\ keys'[p] = {} => held'[p] = 0
                     /\ custody'[p] = "econfirm" => "callback-funding" \notin keys'[p]
    <3>1. CASE p = o
      BY <1>2, <1>4, <2>1, <3>1 DEF Inv, Books, KeysTell, Forced
    <3>2. CASE p # o
      BY <1>2, <1>4, <3>2 DEF Inv, Books, KeysTell, Forced
    <3> QED BY <3>1, <3>2
  <2> QED BY <2>2, <2>3 DEF KeysTell
<1>7. FundedIsBooked'
  <2>1. ASSUME NEW p \in Orders, p \in Legacy => "repair-funding" \in keys'[p]
        PROVE  escrow'[p].funded <= held'[p]
    <3>1. CASE p = o
      <4>1. k # "repair-funding"
        BY FundingAssumption
      <4>2. escrow[o].funded <= held[o]
        BY <1>4, <2>1, <3>1, <4>1 DEF Inv, Books, FundedIsBooked
      <4> QED BY <1>2, <1>3, <1>4, <3>1, <4>2
    <3>2. CASE p # o
      BY <1>2, <1>4, <2>1, <3>2 DEF Inv, Books, FundedIsBooked
    <3> QED BY <3>1, <3>2
  <2> QED BY <2>1 DEF FundedIsBooked
<1>8. BooksMatchFunding' /\ LockedIsFunded'
  BY <1>2, <1>4 DEF Inv, Books, BooksMatchFunding, LockedIsFunded, Forced
<1>9. PushesFollowCustody'
  BY <1>2 DEF Inv, PushesFollowCustody, Opened
<1>10. Work'
  <2>1. PICK r : r = [Idle EXCEPT !.at = "force", !.order = o, !.write = escrow[o].funded + amount]
    OBVIOUS
  <2>2. r.at = "force" /\ r.order = o /\ r.write = escrow[o].funded + amount
    BY <2>1 DEF Idle
  <2>3. Fits(r)'
    <3>1. CASE o \in Legacy
      <4>1. escrow[o].funded = Total
        BY <3>1 DEF Inv, Books, LegacyFunded
      <4> QED BY <1>2, <1>3, <1>4, <2>2, <3>1, <4>1 DEF Fits
    <3>2. CASE o \notin Legacy
      <4>1. escrow[o].funded <= held[o]
        BY <3>2 DEF Inv, Books, FundedIsBooked
      <4> QED BY <1>2, <1>3, <1>4, <2>2, <3>2, <4>1 DEF Fits
    <3> QED BY <3>1, <3>2
  <2>4. ASSUME NEW t \in Sessions \ {Admin}, NEW q, q = sess[t] PROVE Fits(q)'
    <3>1. Fits(q)
      BY <2>4 DEF Inv, Work
    <3>2. q.at = "force" => Forced(q.order)' /\ (q.order \in Legacy \/ q.write <= held'[q.order])
      <4>1. CASE q.at = "force" /\ q.order = o
        <5>1. q.write \in Nat
          BY <1>1, <2>4 DEF TypeOK, Session
        <5> QED BY <1>3, <1>4, <3>1, <4>1, <5>1 DEF Fits
      <4>2. CASE q.at = "force" /\ q.order # o
        BY <1>4, <3>1, <4>2 DEF Fits, Forced, Busy
      <4> QED BY <4>1, <4>2
    <3> QED BY <1>2, <3>1, <3>2 DEF Fits, Unopened, Opened
  <2> QED BY <1>1, <1>2, <2>1, <2>2, <2>3, <2>4, WorkMoves DEF Inv
<1> QED BY <1>1, <1>5, <1>6, <1>7, <1>8, <1>9, <1>10 DEF Inv, Books

LEMMA ForceEndInv == ASSUME Inv, ForceEnd PROVE Inv'
<1>1. TypeOK /\ TypeOK' /\ Admin \in Sessions /\ sess[Admin].at = "force"
  BY ForceEndType, WorkInHand DEF Inv, Sessions, ForceEnd
<1>o. PICK o : o = sess[Admin].order
  OBVIOUS
<1>w. PICK w : w = sess[Admin].write
  OBVIOUS
<1>2. /\ o \in Orders /\ status[o] # "none" /\ Forced(o)
      /\ IF o \in Legacy THEN w > Total ELSE w <= held[o]
  BY <1>1, <1>o, <1>w DEF Inv, Work, Fits, Busy
<1>3. /\ UNCHANGED <<production, status, custody, held, keys, pushes>>
      /\ sess' = [sess EXCEPT ![Admin] = Idle]
      /\ escrow' = IF w <= Total THEN [escrow EXCEPT ![o].funded = w] ELSE escrow
  BY <1>o, <1>w DEF ForceEnd, Done
<1>4. w \in Nat /\ Total \in Nat /\ held[o] \in Nat
  BY <1>1, <1>2, <1>w, FundingAssumption DEF TypeOK, Session
<1>5. /\ escrow'[o].row = escrow[o].row /\ escrow'[o].custody = escrow[o].custody
      /\ escrow'[o].ref = escrow[o].ref /\ escrow'[o].flag = escrow[o].flag
      /\ escrow'[o].funded = escrow[o].funded \/ (o \notin Legacy /\ escrow'[o].funded = w)
      /\ \A p \in Orders \ {o} : escrow'[p] = escrow[p]
  <2>1. CASE w <= Total
    <3>1. escrow' = [escrow EXCEPT ![o] = [escrow[o] EXCEPT !.funded = w]]
      BY <1>3, <2>1
    <3>2. escrow[o] \in Escrow /\ escrow \in [Orders -> Escrow]
      BY <1>1, <1>2 DEF TypeOK
    <3>3. o \notin Legacy
      BY <1>2, <1>4, <2>1
    <3> QED BY <1>2, <3>1, <3>2, <3>3 DEF Escrow
  <2>2. CASE ~(w <= Total)
    BY <1>3, <2>2
  <2> QED BY <2>1, <2>2
<1>6. Unborn'
  BY <1>2, <1>3, <1>5 DEF Inv, Unborn
<1>7. KeysTell'
  BY <1>2, <1>3, <1>5 DEF Inv, Books, KeysTell, Forced
<1>8. LegacyFunded'
  BY <1>2, <1>5, FundingAssumption DEF Inv, Books, LegacyFunded
<1>9. FundedIsBooked'
  BY <1>2, <1>3, <1>5 DEF Inv, Books, FundedIsBooked
<1>10. BooksMatchFunding' /\ LockedIsFunded'
  BY <1>2, <1>3, <1>5 DEF Inv, Books, BooksMatchFunding, LockedIsFunded, Forced
<1>11. PushesFollowCustody'
  BY <1>3, <1>5 DEF Inv, PushesFollowCustody, Opened
<1>12. Work'
  <2>1. ASSUME NEW t \in Sessions \ {Admin}, NEW q, q = sess[t] PROVE Fits(q)'
    <3>1. Fits(q)
      BY <2>1 DEF Inv, Work
    <3>2. CASE q.at \in Busy /\ q.order = o
      BY <1>3, <1>5, <3>1, <3>2 DEF Fits, Unopened, Opened, Forced
    <3>3. CASE q.at \in Busy /\ q.order # o
      BY <1>3, <1>5, <3>1, <3>3 DEF Fits, Unopened, Opened, Forced
    <3>4. CASE q.at \notin Busy
      BY <3>4 DEF Fits, Busy
    <3> QED BY <3>2, <3>3, <3>4
  <2>2. Fits(Idle)' /\ Idle.at # "open"
    BY DEF Fits, Idle, Busy
  <2> QED BY <1>1, <1>3, <2>1, <2>2, WorkMoves DEF Inv
<1> QED BY <1>1, <1>6, <1>7, <1>8, <1>9, <1>10, <1>11, <1>12 DEF Inv, Books

\* Only an order of before issue #222 needs the repair.
LEMMA RepairInv == ASSUME Inv, Repair PROVE Inv'
<1> DEFINE gaps == {o \in Orders : escrow[o].funded > held[o] /\ "repair-funding" \notin keys[o]}
<1>1. TypeOK /\ TypeOK'
  BY RepairType DEF Inv
<1>2. UNCHANGED <<production, status, custody, escrow, pushes, sess>>
  BY DEF Repair
<1>3. ASSUME NEW o \in Orders
      PROVE  \/ /\ o \in Legacy /\ held'[o] = escrow[o].funded /\ held[o] < escrow[o].funded
                /\ keys'[o] = keys[o] \cup {"repair-funding"}
             \/ /\ held'[o] = held[o] /\ keys'[o] = keys[o]
  <2>1. o \in gaps => o \in Legacy
    <3>1. escrow[o].funded \in Nat /\ held[o] \in Nat
      BY <1>1, FundedType
    <3>2. o \notin Legacy => escrow[o].funded <= held[o]
      BY DEF Inv, Books, FundedIsBooked
    <3> QED BY <3>1, <3>2
  <2>2. /\ held'[o] = IF o \in gaps THEN escrow[o].funded ELSE held[o]
        /\ keys'[o] = IF o \in gaps THEN keys[o] \cup {"repair-funding"} ELSE keys[o]
    BY DEF Repair
  <2> QED BY <2>1, <2>2
<1>4. ASSUME NEW o \in Orders
      PROVE  (Forced(o)' <=> Forced(o)) /\ held[o] <= held'[o]
  <2>1. escrow[o].funded \in Nat /\ held[o] \in Nat
    BY <1>1, FundedType
  <2> QED BY <1>3, <2>1, FundingAssumption DEF Forced
<1>5. Unborn'
  BY <1>2, <1>3 DEF Inv, Unborn
<1>6. KeysTell' /\ LegacyFunded'
  <2>1. ASSUME NEW o \in Orders
        PROVE  /\ keys'[o] \cap {"callback-funding", "econfirm-funding"} # {} /\ ~Forced(o)' =>
                     escrow'[o].funded = Total
               /\ o \notin Legacy =>
                     /\ "repair-funding" \notin keys'[o]
                     /\ keys'[o] = {} => held'[o] = 0
                     /\ custody'[o] = "econfirm" => "callback-funding" \notin keys'[o]
    BY <1>2, <1>3, <1>4 DEF Inv, Books, KeysTell
  <2>2. LegacyFunded'
    BY <1>2 DEF Inv, Books, LegacyFunded
  <2> QED BY <2>1, <2>2 DEF KeysTell
<1>7. FundedIsBooked'
  <2>1. ASSUME NEW o \in Orders, o \in Legacy => "repair-funding" \in keys'[o]
        PROVE  escrow'[o].funded <= held'[o]
    <3>1. escrow[o].funded \in Nat
      BY <1>1, FundedType
    <3> QED BY <1>2, <1>3, <2>1, <3>1 DEF Inv, Books, FundedIsBooked
  <2> QED BY <2>1 DEF FundedIsBooked
<1>8. BooksMatchFunding' /\ LockedIsFunded'
  BY <1>2, <1>3, <1>4 DEF Inv, Books, BooksMatchFunding, LockedIsFunded
<1>9. PushesFollowCustody'
  BY <1>2 DEF Inv, PushesFollowCustody, Opened
<1>10. Work'
  <2>1. ASSUME NEW t \in Sessions, NEW q, q = sess[t] PROVE Fits(q)'
    <3>1. Fits(q)
      BY <2>1 DEF Inv, Work
    <3>2. CASE q.at = "force"
      <4>1. q.order \in Orders
        BY <3>1, <3>2 DEF Fits, Busy
      <4>2. q.write \in Nat /\ held[q.order] \in Nat /\ held'[q.order] \in Nat
        BY <1>1, <2>1, <4>1 DEF TypeOK, Session
      <4> QED BY <1>2, <1>4, <3>1, <3>2, <4>1, <4>2 DEF Fits
    <3>3. CASE q.at # "force"
      BY <1>2, <3>1, <3>3 DEF Fits, Unopened, Opened
    <3> QED BY <3>2, <3>3
  <2> QED BY <1>2, <2>1, WorkKept DEF Inv
<1> QED BY <1>1, <1>5, <1>6, <1>7, <1>8, <1>9, <1>10 DEF Inv, Books

LEMMA ClockInv ==
    ASSUME Inv, NEW o \in Orders, NEW s \in Sessions,
           CooldownPasses(o) \/ WindowPasses(o) \/ Dies(s)
    PROVE  Inv'
<1>1. TypeOK'
  BY ClockType DEF Inv
<1>2. CASE CooldownPasses(o) \/ WindowPasses(o)
  BY <1>1, <1>2, StillInv DEF CooldownPasses, WindowPasses
<1>3. CASE Dies(s)
  BY <1>1, <1>3, DoneInv DEF Dies
<1> QED BY <1>2, <1>3

LEMMA NextInv == Inv /\ [Next]_vars => Inv'
<1> SUFFICES ASSUME Inv, [Next]_vars PROVE Inv'
  OBVIOUS
<1>1. ASSUME NEW s \in Buyers, NEW o \in Orders, Create(s, o) \/ Resend(s, o) PROVE Inv'
  BY <1>1, CreateInv, ResendInv
<1>2. ASSUME NEW s \in Buyers,
             \/ EconfirmOpen(s) \/ EconfirmStk(s) \/ GatewayStk(s) \/ RecordPrompt(s)
             \/ CallbackCommit(s)
      PROVE  Inv'
  BY <1>2, OpenInv, StkInv, CallbackInv
<1>3. ASSUME NEW o \in Orders, NEW n \in DOMAIN pushes[o],
             \/ CallbackFailed(o, n) \/ BuyerAnswers(o, n)
             \/ \E s \in Buyers : CallbackRead(s, o, n)
      PROVE  Inv'
  <2>1. CASE BuyerAnswers(o, n)
    BY <2>1, AnswerInv
  <2>2. CASE CallbackFailed(o, n)
    BY <2>2, OtherType, StillInv DEF Inv, Sessions, CallbackFailed
  <2>3. CASE \E s \in Buyers : CallbackRead(s, o, n)
    BY <2>3, CallbackReadInv
  <2> QED BY <1>3, <2>1, <2>2, <2>3
<1>4. CASE PollRead \/ PollCommit
  BY <1>4, PollReadInv, PollCommitInv
<1>5. ASSUME NEW o \in Orders, NEW r \in Refs, NEW amount \in 1..Total, ForceCommit(o, r, amount)
      PROVE  Inv'
  BY <1>5, ForceInv
<1>6. CASE ForceEnd \/ Repair
  BY <1>6, ForceEndInv, RepairInv
<1>7. ASSUME NEW o \in Orders, CooldownPasses(o) \/ WindowPasses(o) PROVE Inv'
  BY <1>7, ClockInv DEF Sessions
<1>8. ASSUME NEW s \in Sessions, Dies(s) PROVE Inv'
  <2>1. TypeOK'
    <3>1. sess' \in [Sessions -> Session]
      BY <1>8, DoneType DEF Inv, Dies
    <3> QED BY <1>8, <3>1 DEF Inv, Dies, TypeOK, money
  <2> QED BY <1>8, <2>1, DoneInv DEF Dies
<1>9. CASE UNCHANGED vars
  <2>1. TypeOK'
    BY <1>9 DEF Inv, TypeOK, vars, money
  <2>2. UNCHANGED <<production, status, custody, money, pushes, sess>>
    BY <1>9 DEF vars, money
  <2> QED BY <2>1, <2>2, StillInv
<1> QED BY <1>1, <1>2, <1>3, <1>4, <1>5, <1>6, <1>7, <1>8, <1>9 DEF Next
-----------------------------------------------------------------------------
(***************************************************************************)
(* Theorems.                                                               *)
(***************************************************************************)
LEMMA Invariance == Spec => []Inv
<1>1. Init => Inv
  BY InitInv
<1>2. Inv /\ [Next]_vars => Inv'
  BY NextInv
<1> QED BY <1>1, <1>2, PTL DEF Spec

\* The columns of orders, escrows, prompts and pushes, and every session, keep
\* their types; funded_amount never exceeds the total.
THEOREM FundingTypes == Spec => []TypeOK
<1>1. Inv => TypeOK
  BY DEF Inv
<1> QED BY <1>1, Invariance, PTL

\* What the payout executor's guard goes by is in the ledger (escrow_service.py
\* 632), but for the orders of before issue #222 until the repair has run.
THEOREM FundedBooked == Spec => []FundedIsBooked
<1>1. Inv => FundedIsBooked
  BY DEF Inv, Books
<1> QED BY <1>1, Invariance, PTL

\* Without a forced collection nothing is booked twice, however callbacks and
\* the poller overlap.
THEOREM NothingBookedTwice == Spec => []BooksMatchFunding
<1>1. Inv => BooksMatchFunding
  BY DEF Inv, Books
<1> QED BY <1>1, Invariance, PTL

\* An order that counts as paid has all its money booked, but for a simulated
\* callback in production.
THEOREM LockedFunded == Spec => []LockedIsFunded
<1>1. Inv => LockedIsFunded
  BY DEF Inv, Books
<1> QED BY <1>1, Invariance, PTL

\* Every push went out through the order's custody, and through eConfirm only
\* with the escrow opened there for certain.
THEOREM PushesFollow == Spec => []PushesFollowCustody
<1>1. Inv => PushesFollowCustody
  BY DEF Inv
<1> QED BY <1>1, Invariance, PTL

\* An order's custody changes only while its opening is under way: before any
\* push, before payment.
LEMMA StickyStep ==
    ASSUME Inv, [Next]_vars, NEW o \in Orders, custody'[o] # custody[o], status[o] # "none"
    PROVE  pushes[o] = <<>> /\ status[o] = "awaiting_payment" /\ escrow[o].flag
<1>1. ASSUME NEW s \in Buyers, NEW p \in Orders, Create(s, p) PROVE FALSE
  <2>1. custody'[o] = custody[o]
    BY <1>1 DEF Create, Inv, TypeOK
  <2> QED BY <2>1
<1>2. ASSUME NEW s \in Buyers, EconfirmOpen(s), o = sess[s].order PROVE Unopened(o)
  BY <1>2 DEF Inv, Work, Fits, Sessions, EconfirmOpen
<1>3. ASSUME NEW s \in Buyers, EconfirmOpen(s), o # sess[s].order PROVE FALSE
  <2>1. custody'[o] = custody[o]
    BY <1>3 DEF EconfirmOpen, Inv, TypeOK
  <2> QED BY <2>1
<1>4. CASE UNCHANGED custody
  BY <1>4
<1>5. \/ \E s \in Buyers, p \in Orders : Create(s, p)
      \/ \E s \in Buyers : EconfirmOpen(s)
      \/ UNCHANGED custody
  BY DEF Next, vars, Resend, EconfirmStk, GatewayStk, RecordPrompt, CallbackCommit,
         CallbackFailed, BuyerAnswers, CallbackRead, PollRead, PollCommit, ForceCommit,
         ForceEnd, Repair, CooldownPasses, WindowPasses, Dies
<1>6. Unopened(o)
  BY <1>1, <1>2, <1>3, <1>4, <1>5
<1> QED BY <1>6 DEF Unopened

\* Custody is sticky: it never moves once a push was sent, the order is paid, or
\* eConfirm has answered.
THEOREM CustodySticks == Spec => StickyCustody
<1>1. Inv /\ [Next]_vars =>
        [\A o \in Orders : custody'[o] # custody[o] /\ status[o] # "none" =>
            pushes[o] = <<>> /\ status[o] = "awaiting_payment" /\ escrow[o].flag]_vars
  BY StickyStep
<1> QED BY <1>1, Invariance, PTL DEF Spec, StickyCustody
=============================================================================
