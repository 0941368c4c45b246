--------------------------- MODULE PayoutExecutor ---------------------------
(***************************************************************************)
(* The payout executor and reconciliation of                               *)
(* src/app/services/escrow_service.py, with the ledger postings and the    *)
(* escrow counters they keep and the payout rails they call.               *)
(*                                                                         *)
(* A run claims the oldest UNKNOWN attempts with FOR UPDATE SKIP LOCKED    *)
(* and works through them in one session.  For each it calls the rail,     *)
(* writes the result (taking the attempt's row lock), looks its ledger key *)
(* up and posts.  post_movement commits: from the first posting on, the    *)
(* rest of the batch is worked from what was read at the claim, unlocked.  *)
(* The escrow's counters are raised in memory after that commit and reach  *)
(* the database with the next one.                                         *)
(***************************************************************************)
EXTENDS Naturals, FiniteSets

CONSTANTS
    AttemptCount,  \* how many payout_attempts rows there may be
    Escrows,       \* rows of the table escrows
    EscrowOf,      \* per attempt, its escrow
    Kind,          \* per attempt, request_snapshot["payout_kind"]
    Amount,        \* per attempt, its amount
    Total,         \* per escrow, amount_total
    RailOf,        \* per escrow, what kind of rail pays it out
    Executors,     \* sessions running run_payout_executor_once
    NoExecutor,    \* holds a row lock that nobody holds
    BatchSize,     \* its batch_size
    Routing,       \* what get_payout_rail may do
    Interruptions, \* may a run die before its last commit?
    Reconciling    \* does an operator run run_payout_reconciliation?

\* Attempts are numbered in the order of created_at.
Attempts   == 1..AttemptCount
NoAttempt  == 0

Kinds == {"release", "refund"}

\* "keyed": every payout has a reference of its own, made from its purpose, and
\* a repeated request is recognised (LOOP, simulated).  "whole": the reference
\* is the escrow's, the same for its release and its reversal (eConfirm).
RailKinds == {"keyed", "whole"}

ASSUME PayoutAssumption ==
    /\ AttemptCount \in Nat
    /\ EscrowOf \in [Attempts -> Escrows]
    /\ Kind \in [Attempts -> Kinds]
    /\ Amount \in [Attempts -> Nat \ {0}]
    /\ Total \in [Escrows -> Nat \ {0}]
    /\ RailOf \in [Escrows -> RailKinds]
    /\ NoExecutor \notin Executors
    /\ BatchSize \in Nat \ {0}
    /\ Routing \in SUBSET {"returns", "raises"}
    /\ Interruptions \in BOOLEAN
    /\ Reconciling \in BOOLEAN

VARIABLES
    outcome,  \* payout_attempts.outcome, "absent" before the row is queued
    ref,      \* payout_attempts.provider_reference is set
    old,      \* attempted_at is past the reconciliation's cutoff
    holder,   \* the session that holds the attempt's row lock
    posted,   \* how often the ledger has the movement outbox:<attempt>
    moved,    \* per escrow and kind, what the ledger moved out of ESCROW_HELD
    funded,   \* escrows.funded_amount
    paidOut,  \* escrows.released_amount and refunded_amount
    rail,     \* what became of the payout at the rail
    alerted,  \* attempts the admins were notified of
    run,      \* per executor, its session
    disturbed \* history: a run died, or began while another was at work

db   == <<outcome, ref, old, posted, moved, funded, paidOut>>
vars == <<outcome, ref, old, holder, posted, moved, funded, paidOut, rail, alerted, run, disturbed>>

-----------------------------------------------------------------------------
Results  == {"unknown", "succeeded", "failed_definite"}
Outcomes == Results \cup {"absent"}
AtRail   == {"none", "pending", "paid", "refused"}
Counters == [Kinds -> Nat]

\* What a session is about to write to an attempt; "same" leaves the outcome.
Write    == [outcome: Results \cup {"same"}, ref: BOOLEAN, tried: BOOLEAN]
NoWrite  == [outcome |-> "same", ref |-> FALSE, tried |-> FALSE]

\* An escrow as the session loaded it; it is not read again during the run.
Book     == [loaded: BOOLEAN, funded: Nat, out: Counters]
NotRead  == [loaded |-> FALSE, funded |-> 0, out |-> [k \in Kinds |-> 0]]

Steps    == {"idle", "next", "record", "key", "post"}

Session  == [step: Steps, todo: SUBSET Attempts, at: Attempts \cup {NoAttempt},
             known: SUBSET Attempts, result: Results, gotRef: BOOLEAN,
             fresh: BOOLEAN, write: [Attempts -> Write],
             book: [Escrows -> Book], raised: SUBSET (Escrows \X Kinds)]

Idle     == [step |-> "idle", todo |-> {}, at |-> NoAttempt, known |-> {},
             result |-> "unknown", gotRef |-> FALSE, fresh |-> FALSE,
             write |-> [a \in Attempts |-> NoWrite],
             book |-> [e \in Escrows |-> NotRead], raised |-> {}]

TypeOK ==
    /\ outcome \in [Attempts -> Outcomes]
    /\ ref \in [Attempts -> BOOLEAN]
    /\ old \in [Attempts -> BOOLEAN]
    /\ holder \in [Attempts -> Executors \cup {NoExecutor}]
    /\ posted \in [Attempts -> Nat]
    /\ moved \in [Escrows -> Counters]
    /\ funded \in [Escrows -> Nat]
    /\ paidOut \in [Escrows -> Counters]
    /\ rail \in [Attempts -> AtRail]
    /\ alerted \in SUBSET Attempts
    /\ run \in [Executors -> Session]
    /\ disturbed \in BOOLEAN

Init ==
    /\ outcome = [a \in Attempts |-> "absent"]
    /\ ref = [a \in Attempts |-> FALSE]
    /\ old = [a \in Attempts |-> FALSE]
    /\ holder = [a \in Attempts |-> NoExecutor]
    /\ posted = [a \in Attempts |-> 0]
    /\ moved = [e \in Escrows |-> [k \in Kinds |-> 0]]
    /\ funded = [e \in Escrows |-> 0]
    /\ paidOut = [e \in Escrows |-> [k \in Kinds |-> 0]]
    /\ rail = [a \in Attempts |-> "none"]
    /\ alerted = {}
    /\ run = [x \in Executors |-> Idle]
    /\ disturbed = FALSE

-----------------------------------------------------------------------------
(***************************************************************************)
(* The rest of the system: intents are queued by the handlers and the      *)
(* sweep (OrderLifecycle), funding is booked, rails decide.                *)
(***************************************************************************)
Fund(e) ==
    /\ funded[e] = 0
    /\ funded' = [funded EXCEPT ![e] = Total[e]]
    /\ UNCHANGED <<outcome, ref, old, holder, posted, moved, paidOut, rail, alerted, run, disturbed>>

\* An eConfirm order has no payout before its funding is booked.
Queue(a) ==
    /\ outcome[a] = "absent"
    /\ RailOf[EscrowOf[a]] = "keyed" \/ funded[EscrowOf[a]] > 0
    /\ outcome' = [outcome EXCEPT ![a] = "unknown"]
    /\ UNCHANGED <<ref, old, holder, posted, moved, funded, paidOut, rail, alerted, run, disturbed>>

\* The two intents of a split, in cents: a ratio has four decimals, the release
\* is rounded half to even, and the refund is the rest.
Scale == 10000

HalfEven(n) ==
    LET q == n \div Scale
        r == n % Scale
    IN  IF 2 * r < Scale \/ (2 * r = Scale /\ q % 2 = 0) THEN q ELSE q + 1

Shares(amount, ratio) ==
    LET release == HalfEven(amount * ratio)
    IN  [k \in Kinds |-> IF k = "release" THEN release ELSE amount - release]

RailDecides(a) ==
    /\ rail[a] = "pending"
    /\ \E r \in {"paid", "refused"} : rail' = [rail EXCEPT ![a] = r]
    /\ UNCHANGED <<db, holder, alerted, run, disturbed>>

-----------------------------------------------------------------------------
(***************************************************************************)
(* What a call to the rail may do and answer: the payout's state at the    *)
(* rail, the outcome the adapter maps the answer to, and whether the       *)
(* attempt gets a reference.                                               *)
(***************************************************************************)
Reply(r, res, got) == [rail |-> r, result |-> res, gotRef |-> got]

Told(r) == CASE r = "paid"    -> "succeeded"
             [] r = "refused" -> "failed_definite"
             [] OTHER         -> "unknown"

\* Wrong: an error is taken for a success.
AssumedPaid(a) ==
    {Reply(r, "succeeded", FALSE) : r \in IF rail[a] = "none" THEN AtRail ELSE {rail[a]}}

\* A transport error raises and leaves no reference, an answer that cannot be
\* read leaves one; either way the request may have arrived.
Unclear(a) ==
    {Reply(r, "unknown", got) :
        r \in IF rail[a] = "none" THEN AtRail ELSE {rail[a]}, got \in BOOLEAN}

\* A repeated request is answered "duplicate", which is a success.
KeyedAnswer(a) ==
    CASE rail[a] = "none" -> {Reply("pending", "succeeded", TRUE), Reply("paid", "succeeded", TRUE),
                              Reply("refused", "failed_definite", TRUE)}
      [] rail[a] = "refused" -> {Reply("refused", "failed_definite", TRUE)}
      [] OTHER -> {Reply(rail[a], "succeeded", TRUE)}

KeyedRequest(a) == Unclear(a) \cup KeyedAnswer(a)

KeyedInquiry(a) ==
    {Reply(rail[a], Told(rail[a]), TRUE), Reply(rail[a], "unknown", TRUE)}

Siblings(a) == {b \in Attempts : EscrowOf[b] = EscrowOf[a]}

\* eConfirm moves the whole escrow once.  A timeout keeps the escrow's id as
\* the reference; 409 (in progress) is unknown, 4xx is a definite failure.
WholeRequest(a) ==
    {Reply(rail[a], "unknown", TRUE)} \cup
    IF \E b \in Siblings(a) : rail[b] = "paid"
    THEN {Reply(rail[a], "failed_definite", TRUE)}
    ELSE IF \E b \in Siblings(a) : rail[b] = "pending" THEN {}
    ELSE {Reply("pending", "unknown", TRUE), Reply("paid", "succeeded", TRUE),
          Reply("paid", "unknown", TRUE), Reply("refused", "failed_definite", TRUE)}

\* Release and reversal are both inquired by the escrow's id.  A rejected
\* inquiry (401, 404) is a definite failure too.
WholeInquiry(a) ==
    {Reply(rail[a], "unknown", TRUE), Reply(rail[a], "failed_definite", TRUE)} \cup
    IF \E b \in Siblings(a) : rail[b] = "paid" THEN {Reply(rail[a], "succeeded", TRUE)} ELSE {}

\* The reference the session loaded decides, not the row's current one.
Replies(x, a) ==
    LET keyed == RailOf[EscrowOf[a]] = "keyed"
        known == a \in run[x].known
    IN  CASE keyed /\ known   -> KeyedInquiry(a)
          [] keyed /\ ~known  -> KeyedRequest(a)
          [] ~keyed /\ known  -> WholeInquiry(a)
          [] ~keyed /\ ~known -> WholeRequest(a)

-----------------------------------------------------------------------------
(***************************************************************************)
(* run_payout_executor_once.                                               *)
(***************************************************************************)
\* The session goes on as given.
Becomes(x, session) == run' = [run EXCEPT ![x] = session]

Oldest(s) == {a \in s : Cardinality({b \in s : b < a}) < BatchSize}

\* Wrong: an attempt that the rail gave a reference is not taken up again.
ClaimUnsent(x) ==
    LET claimed == Oldest({a \in Attempts : outcome[a] = "unknown" /\ ~ref[a]
                                            /\ holder[a] = NoExecutor}) IN
    /\ run[x].step = "idle"
    /\ claimed # {}
    /\ holder' = [a \in Attempts |-> IF a \in claimed THEN x ELSE holder[a]]
    /\ Becomes(x, [Idle EXCEPT !.step = "next", !.todo = claimed])
    /\ disturbed' = (disturbed \/ \E y \in Executors : run[y].step # "idle")
    /\ UNCHANGED <<db, rail, alerted>>

Claim(x) ==
    LET claimed == Oldest({a \in Attempts : outcome[a] = "unknown"
                                            /\ holder[a] = NoExecutor}) IN
    /\ run[x].step = "idle"
    /\ claimed # {}
    /\ holder' = [a \in Attempts |-> IF a \in claimed THEN x ELSE holder[a]]
    /\ Becomes(x, [Idle EXCEPT !.step = "next", !.todo = claimed,
                               !.known = {a \in claimed : ref[a]}])
    /\ disturbed' = (disturbed \/ \E y \in Executors : run[y].step # "idle")
    /\ UNCHANGED <<db, rail, alerted>>

Turn(x, a) ==
    /\ run[x].step = "next"
    /\ a \in run[x].todo
    /\ \A b \in run[x].todo : a <= b

\* Wrong: the escrow is refreshed, and with it what Post raised in memory.
LoadedAfresh(x, e) == [loaded |-> TRUE, funded |-> funded[e], out |-> paidOut[e]]

\* db.get(Escrow, ...): the row is read the first time only.
Loaded(x, e) ==
    IF run[x].book[e].loaded THEN run[x].book[e]
    ELSE [loaded |-> TRUE, funded |-> funded[e], out |-> paidOut[e]]

Ask(x, a) ==
    LET e == EscrowOf[a] IN
    /\ Turn(x, a)
    /\ "returns" \in Routing
    /\ \E reply \in Replies(x, a) :
          /\ rail' = [rail EXCEPT ![a] = reply.rail]
          /\ Becomes(x, [run[x] EXCEPT !.step = "record", !.at = a,
                                       !.result = reply.result,
                                       !.gotRef = reply.gotRef,
                                       !.book[e] = Loaded(x, e)])
    /\ UNCHANGED <<db, holder, alerted, disturbed>>

\* get_payout_rail raises (rail disabled, live payouts blocked) or the eConfirm
\* code cannot be decrypted: the attempt stays UNKNOWN and the run goes on.
RailUnavailable(x, a) ==
    /\ Turn(x, a)
    /\ "raises" \in Routing
    /\ Becomes(x, [run[x] EXCEPT !.todo = @ \ {a}, !.write[a].tried = TRUE,
                                 !.book[EscrowOf[a]] = Loaded(x, EscrowOf[a])])
    /\ UNCHANGED <<db, holder, rail, alerted, disturbed>>

\* Wrong: the escrow's total is compared, not what was funded.
ShortOfTotal(b, a) ==
    Total[EscrowOf[a]] < b.out["release"] + b.out["refund"] + Amount[a]

Short(b, a) == b.funded < b.out["release"] + b.out["refund"] + Amount[a]

\* Only a changed column is written, and what was claimed was UNKNOWN.
Changed(result) == IF result = "unknown" THEN "same" ELSE result

\* Wrong: the result stays in memory, and the row unlocked, until the commit.
RecordUnlocked(x) ==
    LET r     == run[x]
        a     == r.at
        short == r.result = "succeeded" /\ Short(r.book[EscrowOf[a]], a)
    IN
    /\ r.step = "record"
    /\ Becomes(x, [run[x] EXCEPT !.write[a] = [outcome |-> IF short THEN "unknown" ELSE Changed(r.result),
                                               ref |-> r.gotRef, tried |-> TRUE],
                                 !.step = IF r.result = "succeeded" /\ ~short THEN "key" ELSE "next",
                                 !.todo = IF r.result = "succeeded" /\ ~short THEN @ ELSE @ \ {a}])
    /\ UNCHANGED <<db, holder, rail, alerted, disturbed>>

\* Wrong: a success that the funding does not cover stays a success.
RecordUncovered(x) ==
    LET r       == run[x]
        a       == r.at
        covered == r.result = "succeeded" /\ ~Short(r.book[EscrowOf[a]], a)
    IN
    /\ r.step = "record"
    /\ holder[a] \in {NoExecutor, x}
    /\ holder' = [holder EXCEPT ![a] = x]
    /\ Becomes(x, [run[x] EXCEPT !.write[a] = [outcome |-> Changed(r.result), ref |-> r.gotRef, tried |-> TRUE],
                                 !.step = IF covered THEN "key" ELSE "next",
                                 !.todo = IF covered THEN @ ELSE @ \ {a}])
    /\ UNCHANGED <<db, rail, alerted, disturbed>>

\* The result is flushed by record_rail_success / record_rail_failure, so the
\* attempt's row is locked from here to the commit.  A success the booked
\* funding does not cover is set back to UNKNOWN.
Record(x) ==
    LET r     == run[x]
        a     == r.at
        short == r.result = "succeeded" /\ Short(r.book[EscrowOf[a]], a)
        w     == [outcome |-> IF short THEN "unknown" ELSE Changed(r.result),
                  ref |-> r.gotRef, tried |-> TRUE]
    IN
    /\ r.step = "record"
    /\ holder[a] \in {NoExecutor, x}
    /\ holder' = [holder EXCEPT ![a] = x]
    /\ Becomes(x,
                 IF r.result = "succeeded" /\ ~short
                 THEN [run[x] EXCEPT !.write[a] = w, !.step = "key"]
                 ELSE [run[x] EXCEPT !.write[a] = w, !.step = "next", !.todo = @ \ {a}])
    /\ UNCHANGED <<db, rail, alerted, disturbed>>

LookUpKey(x) ==
    /\ run[x].step = "key"
    /\ Becomes(x, [run[x] EXCEPT !.step = "post", !.fresh = posted[run[x].at] = 0])
    /\ UNCHANGED <<db, holder, rail, alerted, disturbed>>

\* Session.commit: the pending writes become visible, every lock is released.
CountersOf(x, e) ==
    [k \in Kinds |-> IF <<e, k>> \in run[x].raised THEN run[x].book[e].out[k]
                                                  ELSE paidOut[e][k]]

\* ck_escrows_outflows_le_funded, for the escrows this commit writes.
WithinFunding(x) ==
    \A e \in Escrows : (\E k \in Kinds : <<e, k>> \in run[x].raised) =>
        CountersOf(x, e)["release"] + CountersOf(x, e)["refund"] <= funded[e]

CommitWrites(x) ==
    LET w == run[x].write IN
    /\ WithinFunding(x)
    /\ outcome' = [a \in Attempts |-> IF w[a].outcome = "same" THEN outcome[a]
                                                              ELSE w[a].outcome]
    /\ ref' = [a \in Attempts |-> ref[a] \/ w[a].ref]
    /\ old' = [a \in Attempts |-> old[a] /\ ~w[a].tried]
    /\ paidOut' = [e \in Escrows |-> CountersOf(x, e)]
    /\ holder' = [a \in Attempts |-> IF holder[a] = x THEN NoExecutor ELSE holder[a]]

\* EscrowLedger.post_movement, then the counter in memory.
Post(x) ==
    LET a == run[x].at
        e == EscrowOf[a]
        k == Kind[a]
    IN
    /\ run[x].step = "post"
    /\ run[x].fresh
    /\ CommitWrites(x)
    /\ posted' = [posted EXCEPT ![a] = @ + 1]
    /\ moved' = [moved EXCEPT ![e][k] = @ + Amount[a]]
    /\ Becomes(x, [run[x] EXCEPT !.step = "next", !.todo = @ \ {a}, !.write = Idle.write,
                                 !.book[e].out[k] = @ + Amount[a], !.raised = {<<e, k>>}])
    /\ UNCHANGED <<funded, rail, alerted, disturbed>>

\* The key is there: created_entries is 0 and nothing is counted.
Replay(x) ==
    /\ run[x].step = "post"
    /\ ~run[x].fresh
    /\ Becomes(x, [run[x] EXCEPT !.step = "next", !.todo = @ \ {run[x].at}])
    /\ UNCHANGED <<db, holder, rail, alerted, disturbed>>

Finish(x) ==
    /\ run[x].step = "next"
    /\ run[x].todo = {}
    /\ CommitWrites(x)
    /\ Becomes(x, Idle)
    /\ UNCHANGED <<posted, moved, funded, rail, alerted, disturbed>>

\* An exception that the loop does not catch (a raising inquiry, a constraint, a
\* deadlock) or the end of the process: what was not committed is lost.
Interrupt(x) ==
    /\ run[x].step # "idle"
    /\ Interruptions \/ ~WithinFunding(x)
    /\ holder' = [a \in Attempts |-> IF holder[a] = x THEN NoExecutor ELSE holder[a]]
    /\ Becomes(x, Idle)
    /\ disturbed' = TRUE
    /\ UNCHANGED <<db, rail, alerted>>

-----------------------------------------------------------------------------
(***************************************************************************)
(* run_payout_reconciliation: one notification per attempt that is UNKNOWN, *)
(* has a reference and was last tried before the cutoff.                   *)
(***************************************************************************)
TimePasses(a) ==
    /\ Reconciling
    /\ outcome[a] = "unknown"
    /\ ~old[a]
    /\ old' = [old EXCEPT ![a] = TRUE]
    /\ UNCHANGED <<outcome, ref, holder, posted, moved, funded, paidOut, rail, alerted, run, disturbed>>

Unresolved == {a \in Attempts : outcome[a] = "unknown" /\ ref[a] /\ old[a]}

\* Wrong: the alert's key names the order, not the attempt.
ReconcilePerOrder ==
    LET due == {a \in Unresolved : Siblings(a) \cap alerted = {}} IN
    /\ Reconciling
    /\ due # {}
    /\ \E a \in due : alerted' = alerted \cup {a}
    /\ UNCHANGED <<db, holder, rail, run, disturbed>>

Reconcile ==
    /\ Reconciling
    /\ ~(Unresolved \subseteq alerted)
    /\ alerted' = alerted \cup Unresolved
    /\ UNCHANGED <<db, holder, rail, run, disturbed>>

-----------------------------------------------------------------------------
Work(x) == \/ \E a \in Attempts : Ask(x, a) \/ RailUnavailable(x, a)
           \/ Record(x) \/ LookUpKey(x) \/ Post(x) \/ Replay(x) \/ Finish(x)

Next ==
    \/ \E e \in Escrows : Fund(e)
    \/ \E a \in Attempts : Queue(a) \/ RailDecides(a) \/ TimePasses(a)
    \/ \E x \in Executors : Claim(x) \/ Work(x) \/ Interrupt(x)
    \/ Reconcile

Spec == Init /\ [][Next]_vars

\* Operators run the executor from cron.  Its runs are assumed to stop dying
\* at some point, and the rail to answer truthfully every now and then.
Truthful(x, a) ==
    /\ Ask(x, a)
    /\ run'[x].result = (IF rail'[a] = "paid" THEN "succeeded" ELSE run'[x].result)

ExecutorFairness ==
    /\ <>[][\A x \in Executors : ~Interrupt(x)]_vars
    /\ \A x \in Executors : WF_vars(Claim(x)) /\ WF_vars(Work(x))
    /\ \A x \in Executors, a \in Attempts : SF_vars(Truthful(x, a))

FairSpec == Spec /\ ExecutorFairness

\* Reconciliation also comes round again and again while an attempt is old:
\* its schedule leaves the cutoff between itself and the executor's.
ReconciledSpec ==
    /\ FairSpec
    /\ \A a \in Attempts : WF_vars(TimePasses(a))
    /\ SF_vars(Reconcile)

-----------------------------------------------------------------------------
(***************************************************************************)
(* Properties.                                                             *)
(***************************************************************************)
\* The ledger has the movement of an attempt at most once, however many
\* sessions work on the attempt: the unlocked look-up of the key is safe
\* because the attempt's row was flushed, and so locked, before it.
PostedOnce == \A a \in Attempts : posted[a] <= 1

\* An attempt is never shown as succeeded without its ledger movement.
SucceededIsPosted == \A a \in Attempts : outcome[a] = "succeeded" => posted[a] = 1

\* The ledger never moves money for a payout that the rail never got.
PostedWasSent ==
    \A a \in Attempts : posted[a] > 0 => \E b \in Siblings(a) :
        rail[b] # "none" /\ (RailOf[EscrowOf[a]] = "keyed" => b = a)

\* ESCROW_HELD is never negative: no more leaves an escrow than was booked in
\* (run_payout_executor_once, the funding check).  KeepsAccount contains it.
NotOverdrawn ==
    \A e \in Escrows : moved[e]["release"] + moved[e]["refund"] <= funded[e]

\* tests/test_funding_ledger_postings.py:41: "the ESCROW_HELD balance equals
\* what is still held" by the escrow's counters, whenever no run is at work, as
\* long as no run died and no two overlapped.
BooksMatchCounters ==
    ~disturbed /\ (\A x \in Executors : run[x].step = "idle") =>
        \A e \in Escrows : \A k \in Kinds : moved[e][k] = paidOut[e][k]

\* The escrows as EscrowAccount sees them.
Held == [e \in Escrows |-> funded[e] - (moved[e]["release"] + moved[e]["refund"])]
Booked == {e \in Escrows : funded[e] > 0}
Paid == {a \in Attempts : posted[a] > 0}

Account == INSTANCE EscrowAccount WITH
    Payouts <- Attempts, balance <- Held, booked <- Booked, paid <- Paid

\* However runs overlap and die, every step that touches the ledger books out
\* one payout that was not booked yet, by its own amount, from funding that was
\* booked in and covers it; no other step moves the balance of ESCROW_HELD.
KeepsAccount == Account!Spec

\* What the rail paid is found out and booked in the end, though requests and
\* answers are lost and runs die; a step that was sent is not forgotten.
PaidIsPosted ==
    \A a \in Attempts :
        rail[a] = "paid" /\ funded[EscrowOf[a]] > 0 ~> posted[a] = 1

\* docs/runbooks.md:67: reconciliation notifies all active admins "once the
\* attempt is older than `unknown_age_minutes`", if the rail gave a reference.
ReferencedIsAlerted ==
    \A a \in Attempts :
        outcome[a] = "unknown" /\ ref[a] ~> outcome[a] # "unknown" \/ a \in alerted

=============================================================================
