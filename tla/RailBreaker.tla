------------------------------ MODULE RailBreaker ------------------------------
(***************************************************************************)
(* The circuit breaker of the payout rails                                 *)
(* (src/app/services/custody/rail_breaker.py), the routing that heeds it   *)
(* and the payout executor that feeds it.                                  *)
(*                                                                         *)
(* The breaker is a row of rail_health.  A session reads it once, changes  *)
(* its own copy and writes the columns it changed; nothing is locked until *)
(* that UPDATE, which then holds the row until the session ends.           *)
(***************************************************************************)
EXTENDS Naturals, Sequences, FiniteSetsExt

CONSTANTS
    Priority,      \* payout_priority, a sequence of rails
    Enabled,       \* the rails the settings enable
    Live,          \* LIVE_PAYOUT_RAILS
    LiveAllowed,   \* live_payouts_enabled
    Placeholders,  \* rails without an adapter
    Sessions,      \* executor runs, requests that create orders or payouts
    Threshold,     \* failure_threshold
    Cooldown,      \* cooldown_seconds, in ticks
    MaxTime,       \* bound on the clock
    MaxFailures,   \* bound on the failures of all rails
    Overlaps       \* may sessions overlap? both may be asked for

Rails == {Priority[i] : i \in DOMAIN Priority}

ASSUME BreakerAssumption ==
    /\ Threshold \in Nat \ {0} /\ Cooldown \in Nat \ {0}
    /\ MaxTime \in Nat /\ MaxFailures \in Nat
    /\ "econfirm" \in Rails /\ "none" \notin Rails \cup Sessions
    /\ LiveAllowed \in BOOLEAN /\ Overlaps \subseteq BOOLEAN

VARIABLES
    overlap, \* do sessions overlap in this deployment?
    clock,   \* the time
    row,     \* the committed row of each rail
    lock,    \* the session whose UPDATE holds the row
    pend,    \* that session's version of the row
    copy,    \* each session's copy of each row
    sess     \* what each session is doing

vars == <<overlap, clock, row, lock, pend, copy, sess>>

-----------------------------------------------------------------------------
\* state, fails (consecutive_failures) and until (cooldown_until, 0 when NULL)
\* are columns.  The others are history: the failures recorded since the last
\* success, when the last of them was, and how many there ever were.
States  == {"absent", "closed", "open", "half_open"}
Row     == [state: States, fails: Nat, until: Nat, streak: Nat, last: Nat, total: Nat]
Absent  == [state |-> "absent", fails |-> 0, until |-> 0, streak |-> 0, last |-> 0, total |-> 0]
Created == [Absent EXCEPT !.state = "closed"]

\* now is read once, when the session begins; pick is what a router decided.
Session == [kind: {"idle", "executor", "router"}, now: Nat, pick: Rails \cup {"none"}]
Idle    == [kind |-> "idle", now |-> 0, pick |-> "none"]

TypeOK ==
    /\ overlap \in Overlaps
    /\ clock \in 0..MaxTime
    /\ row \in [Rails -> Row]
    /\ lock \in [Rails -> Sessions \cup {"none"}]
    /\ pend \in [Rails -> Row]
    /\ copy \in [Sessions -> [Rails -> Row]]
    /\ sess \in [Sessions -> Session]

Unread == [r \in Rails |-> Absent]

Init ==
    /\ overlap \in Overlaps
    /\ clock = 0
    /\ row = [r \in Rails |-> Absent]
    /\ lock = [r \in Rails |-> "none"]
    /\ pend = [r \in Rails |-> Absent]
    /\ copy = [s \in Sessions |-> Unread]
    /\ sess = [s \in Sessions |-> Idle]

-----------------------------------------------------------------------------
(***************************************************************************)
(* Reading and writing a row.                                              *)
(***************************************************************************)
MayHold(s, r) == lock[r] \in {"none", s}

Columns(v) == [v EXCEPT !.streak = 0, !.last = 0, !.total = 0]

\* The version an UPDATE applies to.
Base(s, r) == IF lock[r] = s THEN pend[r] ELSE row[r]

\* Only the columns that differ from the session's copy are written.  The time
\* of a new cooldown always differs: ticks are coarser than time.
Written(s, r, new, opened) ==
    [Base(s, r) EXCEPT
       !.state = IF new.state # copy[s][r].state THEN new.state ELSE @,
       !.fails = IF new.fails # copy[s][r].fails THEN new.fails ELSE @,
       !.until = IF opened \/ new.until # copy[s][r].until THEN new.until ELSE @]

\* A session keeps the first version it reads: neither a later query nor its
\* flushes refresh it.  A missing row is inserted.
Load(s, r) ==
    /\ sess[s].kind # "idle" /\ copy[s][r] = Absent
    /\ IF row[r] # Absent
       THEN /\ copy' = [copy EXCEPT ![s][r] = Columns(row[r])]
            /\ UNCHANGED <<lock, pend>>
       ELSE /\ MayHold(s, r)
            /\ copy' = [copy EXCEPT ![s][r] = Created]
            /\ lock' = [lock EXCEPT ![r] = s]
            /\ pend' = [pend EXCEPT ![r] = Created]
    /\ UNCHANGED <<overlap, clock, row, sess>>

\* The same row with what has happened to it.
Failed(v, now) == [v EXCEPT !.streak = @ + 1, !.last = now, !.total = @ + 1]
Healed(v)      == [v EXCEPT !.streak = 0]

\* An open breaker whose cooldown is over becomes half open in the copy.
RefreshedCloses(v, now) ==
    IF v.state = "open" /\ v.until # 0 /\ v.until <= now
    THEN [v EXCEPT !.state = "closed", !.fails = 0] ELSE v

Refreshed(v, now) ==
    IF v.state = "open" /\ v.until # 0 /\ v.until <= now
    THEN [v EXCEPT !.state = "half_open"] ELSE v

Begin(s, kind) ==
    /\ sess[s].kind = "idle"
    /\ overlap \/ \A t \in Sessions : sess[t].kind = "idle"
    /\ sess' = [sess EXCEPT ![s] = [Idle EXCEPT !.kind = kind, !.now = clock]]
    /\ UNCHANGED <<overlap, clock, row, lock, pend, copy>>

Write(s, r, new, version) ==
    /\ copy[s][r] # Absent /\ MayHold(s, r)
    /\ lock' = [lock EXCEPT ![r] = s]
    /\ pend' = [pend EXCEPT ![r] = version]
    /\ copy' = [copy EXCEPT ![s][r] = new]

(***************************************************************************)
(* The rails of the registry: those of the priority that are enabled, the  *)
(* live ones only where live payouts are allowed, in the priority's order. *)
(***************************************************************************)
Runtime == Rails \cap Enabled

Payable == {r \in Runtime : r \in Live => LiveAllowed}

\* r leads the priority among the payable rails that are not blocked, if any.
Ordered(r, blocked) ==
    IF Payable \subseteq blocked THEN r = "none"
    ELSE \E i \in DOMAIN Priority :
           /\ Priority[i] = r /\ r \in Payable \ blocked
           /\ \A j \in DOMAIN Priority : j < i => Priority[j] \notin Payable \ blocked

\* A rail without an adapter answers that the outcome is unknown.
MaySucceed(r) == r \in Payable \ Placeholders

(***************************************************************************)
(* The executor records every result of a rail: anything but a success,    *)
(* a definite refusal too, is a failure.                                   *)
(***************************************************************************)
\* One failure short of the threshold.
OpensEarly(v) == v.fails + 2 >= Threshold \/ v.state = "half_open"

Opens(v) == v.fails + 1 >= Threshold \/ v.state = "half_open"

Failure(v, now) ==
    IF Opens(v)
    THEN [v EXCEPT !.state = "open", !.fails = @ + 1, !.until = now + Cooldown]
    ELSE [v EXCEPT !.fails = @ + 1]

Failures ==
    MapThenSumSet(LAMBDA r : IF lock[r] = "none" THEN row[r].total ELSE pend[r].total, Rails)

RecordFailure(s, r) ==
    /\ sess[s].kind = "executor" /\ r \in Payable /\ Failures < MaxFailures
    /\ LET now == sess[s].now
           old == Refreshed(copy[s][r], now)
           new == Failure(old, now)
       IN  Write(s, r, new, Failed(Written(s, r, new, Opens(old)), now))
    /\ UNCHANGED <<overlap, clock, row, sess>>

RecordSuccess(s, r) ==
    /\ sess[s].kind = "executor" /\ MaySucceed(r)
    /\ LET new == [copy[s][r] EXCEPT !.state = "closed", !.fails = 0, !.until = 0]
       IN  Write(s, r, new, Healed(Written(s, r, new, FALSE)))
    /\ UNCHANGED <<overlap, clock, row, sess>>

(***************************************************************************)
(* Routing reads the rows of all rails it is asked about, and writes those *)
(* it created or found cooled down.  A new payout takes the first rail of  *)
(* the priority that is not blocked; a new order only asks about eConfirm. *)
(***************************************************************************)
\* The end of the cooldown compared the wrong way round.
BlockedOnceCooled(s, asked) ==
    {r \in asked : copy[s][r].state = "open" /\ copy[s][r].until <= sess[s].now}

Blocked(s, asked) == {r \in asked : Refreshed(copy[s][r], sess[s].now).state = "open"}

Look(s, asked) ==
    LET new(r)     == Refreshed(copy[s][r], sess[s].now)
        written(r) == r \in asked /\ new(r) # copy[s][r]
    IN  /\ sess[s].kind = "router" /\ \A r \in asked : copy[s][r] # Absent
        /\ \A r \in Rails : written(r) => MayHold(s, r)
        /\ lock' = [r \in Rails |-> IF written(r) THEN s ELSE lock[r]]
        /\ pend' = [r \in Rails |-> IF written(r) THEN Written(s, r, new(r), FALSE) ELSE pend[r]]
        /\ copy' = [copy EXCEPT ![s] =
                      [r \in Rails |-> IF written(r) THEN new(r) ELSE @[r]]]
        /\ UNCHANGED <<overlap, clock, row>>

RoutePayout(s) ==
    /\ sess[s].pick = "none"
    /\ Look(s, Rails)
    /\ \E r \in Rails \cup {"none"} :
         /\ Ordered(r, Blocked(s, Rails))
         /\ sess' = [sess EXCEPT ![s].pick = r]

SelectCustody(s) ==
    /\ sess[s].pick = "none"
    /\ Look(s, {"econfirm"})
    /\ sess' = [sess EXCEPT ![s].pick =
                  IF "econfirm" \in Blocked(s, {"econfirm"}) THEN "none" ELSE "econfirm"]

(***************************************************************************)
(* The end of a session.                                                   *)
(***************************************************************************)
End(s) ==
    /\ sess[s].kind # "idle"
    /\ lock' = [r \in Rails |-> IF lock[r] = s THEN "none" ELSE lock[r]]
    /\ pend' = [r \in Rails |-> IF lock[r] = s THEN Absent ELSE pend[r]]
    /\ copy' = [copy EXCEPT ![s] = Unread]
    /\ sess' = [sess EXCEPT ![s] = Idle]
    /\ UNCHANGED <<overlap, clock>>

Commit(s) ==
    /\ End(s)
    /\ row' = [r \in Rails |-> IF lock[r] = s THEN pend[r] ELSE row[r]]

\* The administrator's page looks and does not commit; a request dies, loses the
\* race to create a row, is the victim of a deadlock, or found no rail.
Rollback(s) == End(s) /\ UNCHANGED row

Tick ==
    /\ clock < MaxTime
    /\ clock' = clock + 1
    /\ UNCHANGED <<overlap, row, lock, pend, copy, sess>>

Next ==
    \/ Tick
    \/ \E s \in Sessions :
         \/ \E kind \in {"executor", "router"} : Begin(s, kind)
         \/ \E r \in Rails : Load(s, r) \/ RecordFailure(s, r) \/ RecordSuccess(s, r)
         \/ RoutePayout(s) \/ SelectCustody(s)
         \/ Commit(s) \/ Rollback(s)

Spec == Init /\ [][Next]_vars

-----------------------------------------------------------------------------
(***************************************************************************)
(* Properties                                                              *)
(***************************************************************************)
\* As long as sessions take turns, the row tells the history: the counter is
\* the number of failures since the last success, the breaker is closed below
\* the threshold, and otherwise cools down from the last failure, half open
\* only once that is over.
RowTellsHistory ==
    ~overlap => \A r \in Rails : row[r] # Absent =>
      /\ row[r].fails = row[r].streak
      /\ (row[r].state = "closed") <=> (row[r].streak < Threshold)
      /\ row[r].until = IF row[r].streak < Threshold THEN 0 ELSE row[r].last + Cooldown
      /\ row[r].state = "half_open" => row[r].until <= clock

\* As long as sessions take turns, a new payout is only given to a rail that
\* has not failed too often in a row, or whose cooldown is over.
RoutedIsHealthy ==
    ~overlap => \A s \in Sessions :
      sess[s].pick # "none" =>
        LET v == row[sess[s].pick] IN
        v.streak < Threshold \/ v.last + Cooldown <= sess[s].now

\* However sessions overlap, no rail is taken out of routing before it failed
\* as often as the threshold says.
OpenIsEarned ==
    \A r \in Rails : row[r].state \in {"open", "half_open"} => row[r].total >= Threshold

\* However sessions overlap, a breaker only closes when a success came in, after
\* which the rail has not failed too often again: cooling down lets requests try
\* the rail, and does not make it healthy.
ClosesBySuccess ==
    [][\A r \in Rails :
         row[r].state \in {"open", "half_open"} /\ row'[r].state = "closed" =>
           row'[r].streak < Threshold]_vars
=============================================================================
