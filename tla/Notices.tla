-------------------------------- MODULE Notices --------------------------------
(***************************************************************************)
(* What the parties of an order are told: the notification rows that the   *)
(* handlers of src/app/services/transaction.py and its neighbours add to   *)
(* their own commit, and the SMS of each row, sent from a thread pool      *)
(* after that commit (src/app/services/notification_delivery.py) through   *)
(* Africa's Talking (src/app/services/sms/africastalking.py).              *)
(***************************************************************************)
EXTENDS Naturals, Sequences, FiniteSets, SequencesExt

CONSTANTS
    Sessions,     \* requests and sweeps that tell somebody something
    Threads,      \* the threads of the pool
    MaxAttempts,  \* DEFAULT_MAX_ATTEMPTS of the gateway's sender
    Gateways,     \* may a gateway be configured? both may be asked for
    Happening,    \* the transitions that happen
    Mutes,        \* the sets of categories a seller may turn SMS off for
    MaxNotices,   \* bound on the rows
    MaxFaults     \* bound on crashes and database failures

ASSUME NoticesAssumption ==
    /\ MaxAttempts \in Nat \ {0} /\ MaxNotices \in Nat /\ MaxFaults \in Nat
    /\ Gateways \subseteq BOOLEAN

VARIABLES
    gateway,  \* is an SMS gateway configured?
    notices,  \* the committed rows
    hand,     \* what each session has added and flushed
    jobs,     \* the pool's queue: sets of rows to text
    texting,  \* what each thread is doing
    muted,    \* categories the seller gets no SMS for
    texts,    \* history: per row, texts that arrived and answers that did not
    dropped,  \* history: rows whose job a crash or a database error ended
    skipped,  \* history: rows that were not to be texted
    faults    \* how many faults there have been

noticeVars == <<gateway, notices, hand, jobs, texting, muted, texts, dropped, skipped, faults>>

-----------------------------------------------------------------------------
(***************************************************************************)
(* The rows of each transition.  Both parties get a row; only the buyer's  *)
(* carries the delivery code.                                              *)
(***************************************************************************)
Row(to, event, code) == [to |-> to, event |-> event, code |-> code]

Both(event) == {Row(to, event, FALSE) : to \in {"buyer", "seller"}}

Created               == Both("transaction_created")
Locked                == Both("transaction_locked")
Dispatched            == Both("transaction_dispatched")
Arrival               == {Row("buyer", "delivery_arrived", TRUE),
                          Row("seller", "delivery_arrived", FALSE)}
OtpGiven              == Both("otp_given")
OtpWithheld           == Both("otp_withheld")
TimedOut              == Both("system_timeout")
AutoCancelled         == Both("system_timeout")
ReceiptTimedOut       == Both("system_timeout")
DisputeOpened         == Both("dispute_opened")
BuyerSentBack         == Both("dispute_updated")
SellerReceived        == Both("dispute_updated")
SellerResolution      == Both("dispute_updated")
BuyerReconfirmation   == Both("dispute_updated")
MutualConfirmation    == Both("dispute_updated")
PartyEscalated        == Both("dispute_updated")
AdminDecision         == Both("admin_decision")
PayoutAlert           == {Row("admin", "system_timeout", FALSE)}

Transitions ==
    {Created, Locked, Dispatched, Arrival, OtpGiven, OtpWithheld, TimedOut, AutoCancelled,
     ReceiptTimedOut, DisputeOpened, BuyerSentBack, SellerReceived, SellerResolution,
     BuyerReconfirmation, MutualConfirmation, PartyEscalated, AdminDecision, PayoutAlert}

ASSUME HappeningAssumption == Happening \subseteq Transitions

\* The categories of a seller's preferences.
Category == [event \in {r.event : r \in UNION Transitions} |->
    CASE event \in {"transaction_created", "transaction_locked", "otp_given"} -> "payment_received"
      [] event \in {"transaction_dispatched", "delivery_arrived", "system_timeout"} -> "delivery"
      [] event \in {"otp_withheld", "dispute_opened", "dispute_updated"} -> "returns"
      [] event = "admin_decision" -> "support"]

\* Only a seller can mute anything.
Wanted(row, off) == row.to = "seller" => Category[row.event] \notin off

-----------------------------------------------------------------------------
\* added: not flushed yet; written: flushed in this transaction; pending: those
\* of them that the session's hook has noted.
NoHand == [busy |-> FALSE, added |-> {}, written |-> <<>>, pending |-> {}]

\* todo: rows still to text; row: the one being texted, 0 if none; tries of it;
\* sent and failed: results not committed yet; read and off: the seller's
\* preferences once this job has read them.
NoWork == [busy |-> FALSE, todo |-> {}, row |-> 0, tries |-> 0, sent |-> {}, failed |-> {},
           read |-> FALSE, off |-> {}]

Statuses == {"not_attempted", "sent", "failed"}
Rows     == UNION Transitions
Notice   == [row: Rows, status: Statuses]
Text     == [arrived: Nat, unheard: Nat]
Hand     == [busy: BOOLEAN, added: SUBSET Rows, written: Seq(Rows), pending: SUBSET Nat]
Texting  == [busy: BOOLEAN, todo: SUBSET Nat, row: Nat, tries: Nat, sent: SUBSET Nat,
             failed: SUBSET Nat, read: BOOLEAN, off: Mutes \cup {{}}]

NoticesTypeOK ==
    /\ gateway \in Gateways /\ muted \in Mutes /\ faults \in 0..MaxFaults
    /\ notices \in Seq(Notice)
    /\ texts \in Seq(Text) /\ Len(texts) = Len(notices)
    /\ hand \in [Sessions -> Hand]
    /\ jobs \in Seq(SUBSET Nat)
    /\ texting \in [Threads -> Texting]
    /\ dropped \in SUBSET Nat /\ skipped \in SUBSET Nat

NoticesInit ==
    /\ gateway \in Gateways
    /\ notices = <<>>
    /\ hand = [s \in Sessions |-> NoHand]
    /\ jobs = <<>>
    /\ texting = [w \in Threads |-> NoWork]
    /\ muted \in Mutes
    /\ texts = <<>>
    /\ dropped = {} /\ skipped = {}
    /\ faults = 0

-----------------------------------------------------------------------------
(***************************************************************************)
(* A session adds the rows of its transitions, flushes as it goes and ends *)
(* with a commit or a rollback.                                            *)
(***************************************************************************)
Underway == {s \in Sessions : hand[s].busy}

\* Rows that are committed or may still be.
Count == Len(notices) + FoldSet(LAMBDA s, n : n + Len(hand[s].written) + Cardinality(hand[s].added),
                                0, Underway)

Add(s, rows) ==
    /\ rows \cap hand[s].added = {}
    /\ Count + Cardinality(rows) <= MaxNotices
    /\ hand' = [hand EXCEPT ![s].busy = TRUE, ![s].added = @ \cup rows]
    /\ UNCHANGED <<gateway, notices, jobs, texting, muted, texts, dropped, skipped, faults>>

\* The hook _collect notes the rows of every flush.
CollectLast(h) == {Len(h.written) + i : i \in 1..Cardinality(h.added)}

Collect(h) == h.pending \cup {Len(h.written) + i : i \in 1..Cardinality(h.added)}

Flushed(h) == [h EXCEPT !.added = {}, !.written = @ \o SetToSeq(h.added), !.pending = Collect(h)]

Flush(s) ==
    /\ hand[s].added # {}
    /\ hand' = [hand EXCEPT ![s] = Flushed(@)]
    /\ UNCHANGED <<gateway, notices, jobs, texting, muted, texts, dropped, skipped, faults>>

\* A commit flushes what is left; the hook _dispatch then hands the rows to the
\* pool, which keeps them in memory.
CommitRows(s) ==
    LET h   == Flushed(hand[s])
        ids == DOMAIN h.written
    IN  /\ hand[s].busy
        /\ notices' = notices \o [i \in ids |-> [row |-> h.written[i], status |-> "not_attempted"]]
        /\ texts' = texts \o [i \in ids |-> [arrived |-> 0, unheard |-> 0]]
        /\ jobs' = IF h.pending = {} THEN jobs
                   ELSE Append(jobs, {Len(notices) + i : i \in h.pending})
        /\ hand' = [hand EXCEPT ![s] = NoHand]
        /\ UNCHANGED <<gateway, texting, muted, dropped, skipped, faults>>

\* The hook _discard forgets the rows with the transaction.
Rollback(s) ==
    /\ hand[s].busy
    /\ hand' = [hand EXCEPT ![s] = NoHand]
    /\ UNCHANGED <<gateway, notices, jobs, texting, muted, texts, dropped, skipped, faults>>

(***************************************************************************)
(* A thread takes the jobs in turn.  It looks the rows up that nobody has  *)
(* tried yet, texts one after the other and commits their statuses.        *)
(***************************************************************************)
Untried(ids) == {n \in ids : notices[n].status = "not_attempted"}

Take(w) ==
    /\ ~texting[w].busy /\ jobs # <<>>
    /\ jobs' = Tail(jobs)
    /\ IF gateway
       THEN /\ texting' = [texting EXCEPT ![w] = [NoWork EXCEPT !.busy = TRUE,
                                                                !.todo = Untried(Head(jobs))]]
            /\ UNCHANGED skipped
       ELSE /\ skipped' = skipped \cup Head(jobs)
            /\ UNCHANGED texting
    /\ UNCHANGED <<gateway, notices, hand, muted, texts, dropped, faults>>

\* The preferences are read with the first of the seller's rows.
Off(w) == IF texting[w].read THEN texting[w].off ELSE muted

Pick(w, n) ==
    LET seller == notices[n].row.to = "seller"
        wanted == Wanted(notices[n].row, Off(w))
    IN  /\ texting[w].row = 0 /\ n \in texting[w].todo
        /\ texting' = [texting EXCEPT ![w].todo = @ \ {n},
                                      ![w].row = IF wanted THEN n ELSE 0,
                                      ![w].tries = 0,
                                      ![w].read = @ \/ seller,
                                      ![w].off = IF seller THEN Off(w) ELSE @]
        /\ skipped' = IF wanted THEN skipped ELSE skipped \cup {n}
        /\ UNCHANGED <<gateway, notices, hand, jobs, muted, texts, dropped, faults>>

(***************************************************************************)
(* One request to the gateway.  The recipient is accepted, refused, or to  *)
(* be tried again: after a transport error, a status that may pass, or an  *)
(* answer that does not name the recipient, and the text of a request      *)
(* whose answer failed may have arrived.                                   *)
(***************************************************************************)
SmsOutcomes == {"accepted", "refused", "transient", "unheard"}

Arrives(outcome) == outcome \in {"accepted", "unheard"}

AgainAlways(outcome) == outcome \in SmsOutcomes

Again(outcome) == outcome \in {"transient", "unheard"}

Settles(w, outcome) == ~Again(outcome) \/ texting[w].tries + 1 = MaxAttempts

Attempt(w, outcome) ==
    LET n == texting[w].row
    IN  /\ n # 0
        /\ texts' = [texts EXCEPT ![n].arrived = IF Arrives(outcome) THEN @ + 1 ELSE @,
                                  ![n].unheard = IF outcome = "unheard" THEN @ + 1 ELSE @]
        /\ texting' = [texting EXCEPT
                      ![w].tries  = IF Settles(w, outcome) THEN 0 ELSE @ + 1,
                      ![w].row    = IF Settles(w, outcome) THEN 0 ELSE n,
                      ![w].sent   = IF outcome = "accepted" THEN @ \cup {n} ELSE @,
                      ![w].failed = IF Settles(w, outcome) /\ outcome # "accepted"
                                    THEN @ \cup {n} ELSE @]
        /\ UNCHANGED <<gateway, notices, hand, jobs, muted, dropped, skipped, faults>>

Told(w) == [n \in DOMAIN notices |->
              [notices[n] EXCEPT !.status = IF n \in texting[w].sent THEN "sent"
                                            ELSE IF n \in texting[w].failed THEN "failed" ELSE @]]

Finish(w) ==
    /\ texting[w].busy /\ texting[w].todo = {} /\ texting[w].row = 0
    /\ notices' = Told(w)
    /\ texting' = [texting EXCEPT ![w] = NoWork]
    /\ UNCHANGED <<gateway, hand, jobs, muted, texts, dropped, skipped, faults>>

\* What a thread is still to tell, or to commit.
Held(w) == texting[w].todo \cup texting[w].sent \cup texting[w].failed \cup ({texting[w].row} \ {0})

\* A database error ends the job: its statuses are rolled back.
FailJob(w) ==
    /\ texting[w].busy /\ faults < MaxFaults
    /\ faults' = faults + 1
    /\ dropped' = dropped \cup Held(w)
    /\ texting' = [texting EXCEPT ![w] = NoWork]
    /\ UNCHANGED <<gateway, notices, hand, jobs, muted, texts, skipped>>

\* The process ends: sessions, queue and threads with it.  Nothing looks for
\* the rows again.
Crash ==
    /\ faults < MaxFaults
    /\ faults' = faults + 1
    /\ dropped' = dropped \cup (UNION {Held(w) : w \in Threads}) \cup (UNION ToSet(jobs))
    /\ hand' = [s \in Sessions |-> NoHand]
    /\ jobs' = <<>>
    /\ texting' = [w \in Threads |-> NoWork]
    /\ UNCHANGED <<gateway, notices, muted, texts, skipped>>

SetPreferences(off) ==
    /\ muted # off
    /\ muted' = off
    /\ UNCHANGED <<gateway, notices, hand, jobs, texting, texts, dropped, skipped, faults>>

-----------------------------------------------------------------------------
Deliver(w) ==
    \/ Take(w)
    \/ \E n \in DOMAIN notices : Pick(w, n)
    \/ \E outcome \in SmsOutcomes : Attempt(w, outcome)
    \/ Finish(w)

NoticesNext ==
    \/ \E s \in Sessions :
         \/ \E rows \in Happening : Add(s, rows)
         \/ Flush(s) \/ CommitRows(s) \/ Rollback(s)
    \/ \E w \in Threads : Deliver(w) \/ FailJob(w)
    \/ Crash
    \/ \E off \in Mutes : SetPreferences(off)

\* The pool's threads keep running.
NoticesSpec ==
    NoticesInit /\ [][NoticesNext]_noticeVars /\ \A w \in Threads : WF_noticeVars(Deliver(w))

-----------------------------------------------------------------------------
\* A row's status tells what became of its texts: sent after one whose answer
\* came back, failed if no answer of an accepted one did, and a row that was
\* not tried, is not being tried and was not dropped has not been texted.  No
\* row is texted twice unless an answer was lost (deliver_notification_sms,
\* AfricasTalkingSmsSender.send).
StatusTellsTexts ==
    \A n \in DOMAIN notices :
        LET heard == texts[n].arrived - texts[n].unheard
        IN  /\ heard <= 1
            /\ notices[n].status = "sent" => heard = 1
            /\ notices[n].status = "failed" => heard = 0
            /\ notices[n].status = "not_attempted" /\ texts[n].arrived > 0 =>
                 n \in dropped \cup UNION {Held(w) : w \in Threads}

Handled(n) ==
    n \in DOMAIN notices /\ (notices[n].status # "not_attempted" \/ n \in skipped \cup dropped)

\* Every row that is committed is texted, or found not to be wanted, unless a
\* fault drops it (install_notification_sms_hooks).
EveryNoticeHandled == \A n \in 1..MaxNotices : n \in DOMAIN notices ~> Handled(n)
=============================================================================
