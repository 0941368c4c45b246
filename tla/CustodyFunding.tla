--------------------------- MODULE CustodyFunding ---------------------------
(***************************************************************************)
(* How an order gets its money: the choice of custody when it is created,  *)
(* the payment prompts, the payment callback, the eConfirm funding poller  *)
(* (src/app/services/custody/econfirm_orchestration.py), the forced        *)
(* collections of the simulated custody, the ledger postings they all make *)
(* and the repair of funding that never reached the ledger.                *)
(*                                                                         *)
(* A step is the work of one session between two commits or provider       *)
(* calls.  Only the success callback reads under a lock: its transition    *)
(* writes an anchor event first, which locks the order's row, and it loads *)
(* the escrow after that.  The poller and the administrator's work are     *)
(* each done by one session.                                               *)
(***************************************************************************)
EXTENDS Naturals, Sequences, FiniteSets

CONSTANTS
    Orders,        \* rows of the table transactions, at most one escrow each
    Legacy,        \* those paid before issue #222, see Init
    Buyers,        \* sessions serving buyers and the payment callback
    Poller,        \* the session of the funding poller
    Admin,         \* the session of forced collections and the repair
    Total,         \* an order's price
    Refs,          \* account references of forced collections
    MaxPushes,     \* bound on the prompts sent for one order
    PollBudget,    \* max_requests of a poller run
    Deployments,   \* what production may be, see below
    EconfirmUsed,  \* the settings and the amount allow eConfirm
    Interruptions  \* may a session die before its next commit?

Sessions == Buyers \cup {Poller, Admin}

ASSUME FundingAssumption ==
    /\ Legacy \subseteq Orders
    /\ Total \in Nat \ {0} /\ MaxPushes \in Nat /\ PollBudget \in Nat
    /\ Poller \notin Buyers /\ Admin \notin Buyers /\ Poller # Admin
    /\ Refs \cap {"callback-funding", "econfirm-funding", "repair-funding"} = {}
    /\ Deployments \subseteq BOOLEAN /\ EconfirmUsed \in BOOLEAN /\ Interruptions \in BOOLEAN

VARIABLES
    production, \* settings.environment is production; set when the process starts
    created,  \* the orders of transactions, oldest first
    status,   \* transactions.status; all that follows payment is "locked"
    custody,  \* transactions.custody_provider
    escrow,   \* the order's row of escrows
    held,     \* the sum of the escrow's ESCROW_HELD debits in the ledger
    keys,     \* the idempotency keys of its funding movements
    prompts,  \* the rows of payment_prompts, oldest first
    pushes,   \* the STK pushes sent to the buyer's phone, and the answers
    cool,     \* the newest prompt is younger than RESEND_COOLDOWN
    late,     \* the escrow is older than the poller's payment timeout
    sess      \* what each session is in the middle of

money == <<escrow, held, keys>>
vars  == <<production, created, status, custody, escrow, held, keys, prompts, pushes, cool, late, sess>>

-----------------------------------------------------------------------------
Providers == {"simulated", "econfirm"}
Keys      == {"callback-funding", "econfirm-funding", "repair-funding"} \cup Refs

\* A prompt row is its status; a push is where it came from and the buyer's answer.
Prompt == {"pending", "succeeded", "failed", "failed_to_initiate"}
Push   == [via: Providers, answer: {"none", "ok", "failed"}]

\* row: the row exists; ref: econfirm_transaction_id is set;
\* flag: econfirm_needs_reconciliation; funded: funded_amount, which a table
\* constraint keeps within the total.
Escrow == [row: BOOLEAN, custody: Providers, ref: BOOLEAN, flag: BOOLEAN, funded: 0..Total]
NoRow  == [row |-> FALSE, custody |-> "simulated", ref |-> FALSE, flag |-> FALSE, funded |-> 0]

Steps   == {"idle", "open", "fund", "stk", "record", "callback", "poll", "force"}
Session == [at: Steps, order: Orders \cup {"none"}, prev: Nat, write: Nat,
            batch: SUBSET Orders]
Idle    == [at |-> "idle", order |-> "none", prev |-> 0, write |-> 0, batch |-> {}]

At(s, step, o) == sess' = [sess EXCEPT ![s] = [Idle EXCEPT !.at = step, !.order = o]]
Done(s)        == sess' = [sess EXCEPT ![s] = Idle]

\* Position of the newest prompt, 0 when there is none.
Newest(o)  == Len(prompts[o])
Pending(o) == Newest(o) > 0 /\ prompts[o][Newest(o)] = "pending"

TypeOK ==
    /\ production \in Deployments
    /\ created \in Seq(Orders)
    /\ status \in [Orders -> {"none", "awaiting_payment", "locked"}]
    /\ custody \in [Orders -> Providers]
    /\ escrow \in [Orders -> Escrow]
    /\ held \in [Orders -> Nat]
    /\ keys \in [Orders -> SUBSET Keys]
    /\ prompts \in [Orders -> Seq(Prompt)]
    /\ pushes \in [Orders -> Seq(Push)]
    /\ cool \in [Orders -> BOOLEAN]
    /\ late \in [Orders -> BOOLEAN]
    /\ sess \in [Sessions -> Session]

\* The poller of before issue #222 set funded_amount and locked the order, but
\* posted nothing; such an order may be in the database.
Init ==
    /\ production \in Deployments
    /\ created = <<>>
    /\ status = [o \in Orders |-> IF o \in Legacy THEN "locked" ELSE "none"]
    /\ custody = [o \in Orders |-> IF o \in Legacy THEN "econfirm" ELSE "simulated"]
    /\ escrow = [o \in Orders |-> IF o \in Legacy
                    THEN [row |-> TRUE, custody |-> "econfirm", ref |-> TRUE,
                          flag |-> FALSE, funded |-> Total]
                    ELSE NoRow]
    /\ held = [o \in Orders |-> 0]
    /\ keys = [o \in Orders |-> {}]
    /\ prompts = [o \in Orders |-> <<>>]
    /\ pushes = [o \in Orders |->
                    IF o \in Legacy
                    THEN <<[via |-> "econfirm", answer |-> "ok"]>> ELSE <<>>]
    /\ cool = [o \in Orders |-> FALSE]
    /\ late = [o \in Orders |-> FALSE]
    /\ sess = [s \in Sessions |-> Idle]

-----------------------------------------------------------------------------
(***************************************************************************)
(* Creating an order.  The first commit inserts it; an order for eConfirm  *)
(* gets its escrow in the same commit, flagged until eConfirm has answered.*)
(***************************************************************************)
Create(s, o) ==
    /\ sess[s].at = "idle" /\ status[o] = "none"
    /\ created' = Append(created, o)
    /\ status' = [status EXCEPT ![o] = "awaiting_payment"]
    /\ \E c \in IF EconfirmUsed THEN Providers ELSE {"simulated"} :
         /\ custody' = [custody EXCEPT ![o] = c]
         /\ IF c = "econfirm"
            THEN /\ escrow' = [escrow EXCEPT ![o] = [NoRow EXCEPT !.row = TRUE,
                                                     !.custody = c, !.flag = TRUE]]
                 /\ At(s, "open", o)
            ELSE UNCHANGED escrow /\ At(s, "stk", o)
    /\ UNCHANGED <<production, held, keys, prompts, pushes, cool, late>>

\* request_econfirm_funding refuses unless the escrow was opened for certain.
Opened(o) == /\ escrow[o].row /\ escrow[o].custody = "econfirm"
             /\ escrow[o].ref /\ ~escrow[o].flag

Superseded(o, prev) ==
    IF prev = 0 THEN prompts[o] ELSE [prompts[o] EXCEPT ![prev] = "failed"]

\* record_payment_prompt.  In a resend the prompt that was read as pending is
\* written as superseded in the same commit, whatever became of it since.
Record(o, prev, row) ==
    /\ prompts' = [prompts EXCEPT ![o] = Append(Superseded(o, prev), row)]
    /\ cool' = [cool EXCEPT ![o] = TRUE]

NotSent == "failed_to_initiate"
Sent    == "pending"

\* What a request for a push leads to: it was refused; it is on the phone; or,
\* with eConfirm, the answer was lost and it may or may not be.
Refused(s, o, prev) ==
    /\ Record(o, prev, NotSent)
    /\ Done(s)
    /\ UNCHANGED pushes

\* Whether the push is on the phone once the request was answered, or not.
Arrivals(via) == IF via = "econfirm" THEN BOOLEAN ELSE {TRUE}

Requested(s, o, via, prev) ==
    /\ \E arrived \in Arrivals(via) :
         pushes' = IF arrived
                   THEN [pushes EXCEPT ![o] = Append(@, [via |-> via, answer |-> "none"])]
                   ELSE pushes
    /\ sess' = [sess EXCEPT ![s] =
                  [Idle EXCEPT !.at = "record", !.order = o, !.prev = prev]]
    /\ UNCHANGED <<prompts, cool>>

\* Wrong: the push is sent although the opening is unclear.
EconfirmOpenHasty(s) ==
    LET o == sess[s].order IN
    /\ sess[s].at = "open"
    /\ At(s, "fund", o)
    /\ UNCHANGED <<production, created, status, custody, money, prompts, pushes, cool, late>>

\* eConfirm's answer to the opening: unclear, so the escrow may exist there and
\* no push is sent; rejected, so the order falls back to simulated custody; opened.
Openings == {"unclear", "rejected", "opened"}

EconfirmOpen(s) ==
    LET o == sess[s].order IN
    /\ sess[s].at = "open"
    /\ \E answer \in Openings :
         \/ /\ answer = "unclear"
            /\ Refused(s, o, 0)
            /\ UNCHANGED <<custody, escrow>>
         \/ /\ answer = "rejected"
            /\ custody' = [custody EXCEPT ![o] = "simulated"]
            /\ escrow' = [escrow EXCEPT ![o].custody = "simulated"]
            /\ At(s, "stk", o)
            /\ UNCHANGED <<prompts, pushes, cool>>
         \/ /\ answer = "opened"
            /\ escrow' = [escrow EXCEPT ![o].ref = TRUE, ![o].flag = FALSE]
            /\ At(s, "fund", o)
            /\ UNCHANGED <<custody, prompts, pushes, cool>>
    /\ UNCHANGED <<production, created, status, held, keys, late>>

\* Wrong: an order whose push eConfirm refused moves to simulated custody.
EconfirmStkFallback(s) ==
    LET o == sess[s].order IN
    /\ sess[s].at = "fund"
    /\ custody' = [custody EXCEPT ![o] = "simulated"]
    /\ escrow' = [escrow EXCEPT ![o].custody = "simulated"]
    /\ At(s, "stk", o)
    /\ UNCHANGED <<production, created, status, held, keys, prompts, pushes, cool, late>>

\* The push of a new order, by the provider it ended up with.
EconfirmStk(s) ==
    /\ sess[s].at = "fund"
    /\ Requested(s, sess[s].order, "econfirm", 0) \/ Refused(s, sess[s].order, 0)
    /\ UNCHANGED <<production, created, status, custody, money, late>>

GatewayStk(s) ==
    /\ sess[s].at = "stk"
    /\ Requested(s, sess[s].order, "simulated", 0) \/ Refused(s, sess[s].order, 0)
    /\ UNCHANGED <<production, created, status, custody, money, late>>

RecordPrompt(s) ==
    LET o == sess[s].order IN
    /\ sess[s].at = "record"
    /\ Record(o, sess[s].prev, Sent)
    /\ Done(s)
    /\ UNCHANGED <<production, created, status, custody, money, pushes, late>>

\* The buyer asks for another push; what is read here is not locked.
Resend(s, o) ==
    LET via == custody[o] IN
    /\ sess[s].at = "idle"
    /\ status[o] = "awaiting_payment" /\ ~cool[o]
    /\ via = "econfirm" => Opened(o)
    /\ Len(pushes[o]) < MaxPushes /\ Len(prompts[o]) < MaxPushes
    /\ LET prev == IF Pending(o) THEN Newest(o) ELSE 0
       IN  Requested(s, o, via, prev) \/ Refused(s, o, prev)
    /\ UNCHANGED <<production, created, status, custody, money, late>>

-----------------------------------------------------------------------------
(***************************************************************************)
(* The callback of the payment gateway.  It names the order, not the push; *)
(* whoever delivers it may be slow and may deliver it again.               *)
(***************************************************************************)
Resolved(o, outcome) ==
    IF Pending(o)
    THEN [prompts EXCEPT ![o][Newest(o)] = outcome]
    ELSE prompts

\* A result code other than 0 is recorded on the newest prompt, if pending.
CallbackFailed(o, n) ==
    /\ pushes[o][n].answer = "failed"
    /\ custody[o] = "simulated" /\ status[o] = "awaiting_payment"
    /\ prompts' = Resolved(o, "failed")
    /\ UNCHANGED <<production, created, status, custody, money, pushes, cool, late, sess>>

\* Wrong: a callback is taken for an eConfirm order too.
CallbackReadAnyCustody(s, o, n) ==
    /\ sess[s].at = "idle"
    /\ pushes[o][n].answer = "ok" /\ status[o] = "awaiting_payment"
    /\ sess' = [sess EXCEPT ![s] = [Idle EXCEPT !.at = "callback", !.order = o]]
    /\ UNCHANGED <<production, created, status, custody, money, prompts, pushes, cool, late>>

\* Result code 0: the guards read the order unlocked.
CallbackRead(s, o, n) ==
    /\ sess[s].at = "idle"
    /\ pushes[o][n].answer = "ok"
    /\ custody[o] = "simulated" /\ status[o] = "awaiting_payment"
    /\ sess' = [sess EXCEPT ![s] = [Idle EXCEPT !.at = "callback", !.order = o]]
    /\ UNCHANGED <<production, created, status, custody, money, prompts, pushes, cool, late>>

\* post_escrow_funding: the movement for what is not funded yet, under a key
\* that is used once, and the counter.
Missing(o)   == Total - escrow[o].funded

\* Wrong: an order without an escrow gets none.
PostsToRow(o, k) == escrow[o].row /\ Missing(o) > 0 /\ k \notin keys[o]

Posts(o, k)  == Missing(o) > 0 /\ k \notin keys[o]

Post(o, k, amount) ==
    /\ held' = [held EXCEPT ![o] = @ + amount]
    /\ keys' = [keys EXCEPT ![o] = @ \cup {k}]

\* The rest of the callback, with the order's row locked: one commit.  Outside
\* production it funds the escrow, which it creates if there is none.
CallbackCommit(s) ==
    LET o == sess[s].order IN
    /\ sess[s].at = "callback"
    /\ status' = [status EXCEPT ![o] = "locked"]
    /\ prompts' = Resolved(o, "succeeded")
    /\ IF ~production /\ Posts(o, "callback-funding")
       THEN /\ Post(o, "callback-funding", Missing(o))
            /\ escrow' = [escrow EXCEPT ![o].row = TRUE, ![o].funded = Total]
       ELSE UNCHANGED money
    /\ Done(s)
    /\ UNCHANGED <<production, created, custody, pushes, cool, late>>

-----------------------------------------------------------------------------
(***************************************************************************)
(* run_econfirm_funding_reconciliation.  It reads the oldest candidates,   *)
(* passes over those beyond the payment window (they use up the budget),   *)
(* asks eConfirm about each and commits everything at the end.             *)
(***************************************************************************)
Candidate(o) == Opened(o) /\ escrow[o].funded = 0

\* eConfirm has the buyer's money.
Paid(o) == \E n \in DOMAIN pushes[o] : pushes[o][n].via = "econfirm" /\ pushes[o][n].answer = "ok"

\* A GET reports the escrow as funded (only the status "funded" is a success).
Reported(o) == Paid(o)

PollRead ==
    LET candidates == {i \in DOMAIN created : Candidate(created[i])}
        first      == {i \in candidates : Cardinality({j \in candidates : j < i}) < PollBudget}
        batch      == {created[i] : i \in {j \in first : ~late[created[j]]}}
    IN  /\ sess[Poller].at = "idle" /\ batch # {}
        /\ sess' = [sess EXCEPT ![Poller] = [Idle EXCEPT !.at = "poll", !.batch = batch]]
        /\ UNCHANGED <<production, created, status, custody, money, prompts, pushes, cool, late>>

\* The orders eConfirm reports as funded; its answers may be lost.  The escrow
\* is the one that was read: all of Total is posted.
PollCommit ==
    /\ sess[Poller].at = "poll"
    /\ \E told \in SUBSET {o \in sess[Poller].batch : Reported(o)} :
         LET posted == {o \in told : "econfirm-funding" \notin keys[o]}
             locked == {o \in told : status[o] = "awaiting_payment"}
         IN  /\ held' = [o \in Orders |-> IF o \in posted THEN held[o] + Total ELSE held[o]]
             /\ keys' = [o \in Orders |->
                            IF o \in posted THEN keys[o] \cup {"econfirm-funding"} ELSE keys[o]]
             /\ escrow' = [o \in Orders |->
                              IF o \in posted THEN [escrow[o] EXCEPT !.funded = Total] ELSE escrow[o]]
             /\ status' = [o \in Orders |-> IF o \in locked THEN "locked" ELSE status[o]]
             /\ prompts' = [o \in Orders |->
                               IF o \in locked /\ Pending(o)
                               THEN [prompts[o] EXCEPT ![Newest(o)] = "succeeded"]
                               ELSE prompts[o]]
    /\ Done(Poller)
    /\ UNCHANGED <<production, created, custody, pushes, cool, late>>

-----------------------------------------------------------------------------
(***************************************************************************)
(* The administrator.  A forced collection works on any escrow.  Its first *)
(* commit posts the amount; funded_amount, as read before, is raised in    *)
(* the second, unless that would exceed the total (a table constraint).    *)
(* A repeated request finds the first one's attempt and does nothing.      *)
(***************************************************************************)
\* Wrong: a replay is counted again.
ForceCommitReplayed(o, r, amount) ==
    /\ sess[Admin].at = "idle"
    /\ ~production /\ escrow[o].row
    /\ IF r \in keys[o] THEN UNCHANGED <<held, keys>> ELSE Post(o, r, amount)
    /\ sess' = [sess EXCEPT ![Admin] =
                   [Idle EXCEPT !.at = "force", !.order = o, !.write = escrow[o].funded + amount]]
    /\ UNCHANGED <<production, created, status, custody, escrow, prompts, pushes, cool, late>>

ForceCommit(o, r, amount) ==
    /\ sess[Admin].at = "idle"
    /\ ~production /\ escrow[o].row /\ r \notin keys[o]
    /\ Post(o, r, amount)
    /\ sess' = [sess EXCEPT ![Admin] =
                   [Idle EXCEPT !.at = "force", !.order = o, !.write = escrow[o].funded + amount]]
    /\ UNCHANGED <<production, created, status, custody, escrow, prompts, pushes, cool, late>>

ForceEnd ==
    LET o == sess[Admin].order IN
    /\ sess[Admin].at = "force"
    /\ escrow' = IF sess[Admin].write <= Total
                 THEN [escrow EXCEPT ![o].funded = sess[Admin].write] ELSE escrow
    /\ Done(Admin)
    /\ UNCHANGED <<production, created, status, custody, held, keys, prompts, pushes, cool, late>>

\* repair_funding_ledger with apply: what is funded but not in the ledger is
\* posted; an escrow with more in the ledger is only listed.
Repair ==
    LET gaps == {o \in Orders : escrow[o].funded > held[o] /\ "repair-funding" \notin keys[o]} IN
    /\ sess[Admin].at = "idle" /\ gaps # {}
    /\ held' = [o \in Orders |-> IF o \in gaps THEN escrow[o].funded ELSE held[o]]
    /\ keys' = [o \in Orders |-> IF o \in gaps THEN keys[o] \cup {"repair-funding"} ELSE keys[o]]
    /\ UNCHANGED <<production, created, status, custody, escrow, prompts, pushes, cool, late, sess>>

-----------------------------------------------------------------------------
(***************************************************************************)
(* The buyer's phone, the clock (where the code looks at it), and sessions  *)
(* that die.                                                               *)
(***************************************************************************)
BuyerAnswers(o, n) ==
    /\ pushes[o][n].answer = "none"
    /\ \E a \in {"ok", "failed"} : pushes' = [pushes EXCEPT ![o][n].answer = a]
    /\ UNCHANGED <<production, created, status, custody, money, prompts, cool, late, sess>>

CooldownPasses(o) ==
    /\ cool[o] /\ status[o] = "awaiting_payment" /\ Len(prompts[o]) < MaxPushes
    /\ cool' = [cool EXCEPT ![o] = FALSE]
    /\ UNCHANGED <<production, created, status, custody, money, prompts, pushes, late, sess>>

WindowPasses(o) ==
    /\ Candidate(o) /\ ~late[o] /\ late' = [late EXCEPT ![o] = TRUE]
    /\ UNCHANGED <<production, created, status, custody, money, prompts, pushes, cool, sess>>

Dies(s) ==
    /\ Interruptions /\ sess[s].at # "idle"
    /\ Done(s)
    /\ UNCHANGED <<production, created, status, custody, money, prompts, pushes, cool, late>>

Next ==
    \/ \E s \in Buyers, o \in Orders : Create(s, o) \/ Resend(s, o)
    \/ \E s \in Buyers : EconfirmOpen(s) \/ EconfirmStk(s) \/ GatewayStk(s) \/ RecordPrompt(s)
                           \/ CallbackCommit(s)
    \/ \E o \in Orders : \E n \in DOMAIN pushes[o] :
          \/ CallbackFailed(o, n) \/ BuyerAnswers(o, n)
          \/ \E s \in Buyers : CallbackRead(s, o, n)
    \/ PollRead \/ PollCommit
    \/ \E o \in Orders, r \in Refs, amount \in 1..Total : ForceCommit(o, r, amount)
    \/ ForceEnd \/ Repair
    \/ \E o \in Orders : CooldownPasses(o) \/ WindowPasses(o)
    \/ \E s \in Sessions : Dies(s)

Spec == Init /\ [][Next]_vars

-----------------------------------------------------------------------------
Forced(o) == keys[o] \cap Refs # {}

\* funded_amount is what the payout executor's guard goes by (escrow_service.py
\* 632): it never says more than the ledger does, except for the orders of
\* before #222 until the repair has run.
FundedIsBooked ==
    \A o \in Orders :
        (o \in Legacy => "repair-funding" \in keys[o]) => escrow[o].funded <= held[o]

\* Nothing is booked twice: without a forced collection the ledger holds what
\* the counter says, however the callbacks and the poller overlap
\* (tests/test_funding_ledger_postings.py says so of every escrow).
BooksMatchFunding ==
    \A o \in Orders :
        o \in Legacy \/ Forced(o) \/ held[o] = escrow[o].funded

\* An order that counts as paid has all its money in the books, except that in
\* production a simulated callback is no confirmation.
LockedIsFunded ==
    \A o \in Orders : status[o] = "locked" /\ ~Forced(o) =>
        \/ escrow[o].funded = Total
        \/ production /\ custody[o] = "simulated"

\* Hard Rule 1: a push goes out through the custody of the order, and through
\* eConfirm only once the escrow exists there for certain; since no order is
\* prompted both ways, no buyer pays one order to two providers.
PushesFollowCustody ==
    \A o \in Orders : \A n \in DOMAIN pushes[o] :
        /\ pushes[o][n].via = custody[o]
        /\ custody[o] = "econfirm" => Opened(o)

\* Custody is sticky: once a push was sent, once the order is paid or funded,
\* it never moves to another provider.
StickyCustody ==
    [][\A o \in Orders :
          custody'[o] # custody[o] /\ status[o] # "none" =>
              pushes[o] = <<>> /\ status[o] = "awaiting_payment" /\ escrow[o].flag]_vars
=============================================================================
