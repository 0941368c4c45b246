----------------------------- MODULE AnchorChains -----------------------------
(***************************************************************************)
(* The anchoring log (src/app/services/anchoring/): every money row and    *)
(* every status change is an event in a hash chain, its order's or the     *)
(* global one.  Database sessions append while they hold the chain's lock  *)
(* and publish at commit; the backfill does the same for the history that  *)
(* is older than the log.                                                  *)
(*                                                                         *)
(* PostgreSQL, READ COMMITTED.  A hash is a number no other event of the   *)
(* chain has: the salt is random.  The batcher that would number the       *)
(* events is not in this repository.                                       *)
(***************************************************************************)
EXTENDS Integers, Sequences, FiniteSets

CONSTANTS
    Orders,      \* rows of transactions; an order stands for its own row
    Facts,       \* rows of ledger_entries and money_audit_events
    ChainOf,     \* the order a fact names, or Global
    MatchOf,     \* the order whose collection has a fact's reference, or None
    WrittenAt,   \* the original order of the rows
    Global,      \* the chain of events that name no order
    None,
    Old,         \* the rows that are older than the log
    Statuses,
    Initial,     \* the status of a new order
    Sessions,    \* live database sessions
    Backfills,   \* processes running the anchor-backfill command
    CommitEvery, \* COMMIT_EVERY
    MaxEvents,   \* bound on the events of a chain, and
    MaxWrites,   \* on the writes of one live session before it ends,
    MaxOpen      \* and on the sessions that are open at a time

Rows    == Orders \cup Facts
Chains  == Orders \cup {Global}
Clients == Sessions \cup Backfills

ASSUME AnchorAssumption ==
    /\ {Global, None} \cap (Rows \cup Statuses \cup Clients \cup Int) = {} /\ Global # None
    /\ Orders \cap Facts = {} /\ Sessions \cap Backfills = {}
    /\ ChainOf \in [Rows -> Chains] /\ \A o \in Orders : ChainOf[o] = o
    /\ MatchOf \in [Rows -> Orders \cup {None}]
    /\ \A r \in Rows : MatchOf[r] # None => ChainOf[r] = Global
    /\ WrittenAt \in [Rows -> Nat]
    /\ Old \subseteq Rows /\ Initial \in Statuses
    /\ CommitEvery \in Nat \ {0} /\ MaxEvents \in Nat /\ MaxWrites \in Nat /\ MaxOpen \in Nat

VARIABLES
    rows,   \* the committed rows
    status, \* the committed status of each order
    chain,  \* the committed events of each chain, in insert order
    lock,   \* who holds FOR UPDATE on the order, or the advisory lock
    txn,    \* what each session did since its last commit
    fill    \* how far each backfill is

vars == <<rows, status, chain, lock, txn, fill>>

-----------------------------------------------------------------------------
ZeroHash == 0
Unread   == -1
Hashes   == 1..MaxEvents

\* An event, and what it records: a row, the status moved to, the global
\* event linked, or nothing.
Kinds  == {"row", "moved", "linked", "snapshot", "completed"}
Things == Rows \cup Statuses \cup Hashes \cup {None}
Events == [kind : Kinds, of : Things, leaf : Hashes, prev : Hashes \cup {ZeroHash}]

\* An event about to be recorded.
Request(c, k, thing) == [chain |-> c, kind |-> k, of |-> thing]
Requests == {r \in [chain : Chains, kind : Kinds, of : Things] : r.kind = "row" => r.of \in Rows}
RowRequest(r) == Request(ChainOf[r], "row", r)

ASSUME NoneAssumption == None \notin Requests

\* An empty session: the cached chain heads, the new rows, the new statuses,
\* the events added and the one the session is taking a lock for.
Fresh == [heads  |-> [c \in Chains |-> Unread],
          new    |-> {},
          moves  |-> [o \in Orders |-> None],
          events |-> [c \in Chains |-> <<>>],
          want   |-> None]

Phases  == {"idle", "read", "rows", "snapshots", "closing"}
Resting == [phase |-> "idle", anchored |-> {}, todo |-> {}, written |-> 0]

TypeOK ==
    /\ rows \subseteq Rows /\ Old \subseteq rows
    /\ status \in [Orders -> Statuses]
    /\ chain \in [Chains -> Seq(Events)]
    /\ lock \in [Chains -> Clients \cup {None}]
    /\ txn \in [Clients -> [heads  : [Chains -> Hashes \cup {ZeroHash, Unread}],
                            new    : SUBSET Rows,
                            moves  : [Orders -> Statuses \cup {None}],
                            events : [Chains -> Seq(Events)],
                            want   : Requests \cup {None}]]
    /\ fill \in [Backfills -> [phase : Phases, anchored : SUBSET Things,
                               todo : SUBSET Rows, written : Nat]]
    /\ \A b \in Backfills : fill[b].phase = "snapshots" => fill[b].todo \subseteq Orders

Init ==
    /\ rows = Old
    /\ status = [o \in Orders |-> Initial]
    /\ chain = [c \in Chains |-> <<>>]
    /\ lock = [c \in Chains |-> None]
    /\ txn = [s \in Clients |-> Fresh]
    /\ fill = [b \in Backfills |-> Resting]

-----------------------------------------------------------------------------
InSeq(q)  == {q[i] : i \in 1..Len(q)}
Leaves(q) == {q[i].leaf : i \in 1..Len(q)}
HeadOf(q) == IF q = <<>> THEN ZeroHash ELSE q[Len(q)].leaf

\* A chain as a session sees it: committed, then its own events.
Seen(s, c) == chain[c] \o txn[s].events[c]

Used(c) == Leaves(chain[c]) \cup UNION {Leaves(txn[s].events[c]) : s \in Clients}

Anchored(q) == {e.of : e \in {x \in InSeq(q) : x.kind = "row"}}

CommittedSources == UNION {Anchored(chain[c]) : c \in Chains}
Recorded(s)      == UNION {Anchored(txn[s].events[c]) : c \in Chains}

\* The last status the events of a chain tell: a live creation tells Initial,
\* the creation of an older order, recorded by the backfill, nothing.
Tells(e, o) == e.kind = "moved" \/ (e.kind = "row" /\ e.of = o /\ o \notin Old)
Told(q, o) ==
    LET telling == {i \in 1..Len(q) : Tells(q[i], o)}
        last    == CHOOSE i \in telling : \A j \in telling : j <= i
    IN  IF telling = {} THEN None
        ELSE IF q[last].kind = "moved" THEN q[last].of ELSE Initial

Exists(s, o) == o \in rows \cup txn[s].new

Bare(s) == txn[s].new \ Recorded(s)

\* An order's new status that no event of this session tells.
Untold(s) ==
    {o \in Orders : txn[s].moves[o] \notin {None, Told(txn[s].events[o], o)}}

Writes(s) ==
    Cardinality(txn[s].new) + Cardinality({o \in Orders : txn[s].moves[o] # None})

Waiting(s)    == txn[s].want # None /\ lock[txn[s].want.chain] \notin {None, s}
WaitsFor(s)   == lock[txn[s].want.chain]
Touched(s)    == txn[s] # Fresh
Busy(s)       == Touched(s) \/ (s \in Backfills /\ fill[s] # Resting)
MayOpen(s)    == Busy(s) \/ Cardinality({t \in Clients : Busy(t)}) < MaxOpen
Unlocked(s)   == [c \in Chains |-> IF lock[c] = s THEN None ELSE lock[c]]

-----------------------------------------------------------------------------
(* Recording an event. *)

\* record_anchor_event up to the lock.
Ask(s, request) == txn' = [txn EXCEPT ![s].want = request]

\* The lock is free or the session has it; the head is read once under it and
\* remembered until the transaction ends.
HeadFor(s, c) ==
    IF txn[s].heads[c] # Unread THEN txn[s].heads[c] ELSE HeadOf(Seen(s, c))

MayLock(s, c) == lock[c] \in {None, s}

LinkUnlessLocked(s, request, leaf) ==
    IF s \in Sessions /\ request.kind = "row" /\ MatchOf[request.of] # None
       /\ lock[MatchOf[request.of]] = None
    THEN Request(MatchOf[request.of], "linked", leaf)
    ELSE None

\* A global funding event that matches an escrow is then linked into its
\* order's chain.  The backfill records its rows without the link.
Link(s, request, leaf) ==
    IF s \in Sessions /\ request.kind = "row" /\ MatchOf[request.of] # None
    THEN Request(MatchOf[request.of], "linked", leaf)
    ELSE None

Record(s) ==
    LET request == txn[s].want
        c       == request.chain
        leaf    == CHOOSE n \in Hashes : n \notin Used(c)
        added   == [kind |-> request.kind, of |-> request.of, leaf |-> leaf,
                    prev |-> HeadFor(s, c)]
    IN  /\ request # None /\ MayLock(s, c)
        /\ Hashes \ Used(c) # {}
        /\ lock' = [lock EXCEPT ![c] = s]
        /\ txn' = [txn EXCEPT ![s].events[c] = Append(@, added),
                              ![s].heads[c] = leaf,
                              ![s].want = Link(s, request, leaf)]
        /\ UNCHANGED <<rows, status, chain, fill>>

EndedKeepingHeads(t) == [Fresh EXCEPT !.heads = t.heads]

\* Commit and rollback drop what the session remembered of the chains.
Ended(t) == Fresh

\* Rollback, by an exception, the deadlock detector or a crash.  The
\* anchor-backfill command ends with it.
Undo(s) ==
    /\ txn' = [txn EXCEPT ![s] = Ended(@)]
    /\ lock' = Unlocked(s)
    /\ fill' = [b \in Backfills |-> IF b = s THEN Resting ELSE fill[b]]
    /\ UNCHANGED <<rows, status, chain>>

Rollback(s) == Touched(s) /\ Undo(s)

\* PostgreSQL ends one of the transactions that wait for one another.
Cycle(set) == set # {} /\ \A s \in set : Waiting(s) /\ WaitsFor(s) \in set

Deadlock(s) ==
    /\ \E set \in SUBSET Clients : s \in set /\ Cycle(set)
    /\ Undo(s)

Claims(s, c) == {e.prev : e \in InSeq(txn[s].events[c])}

\* uq_anchor_events_source and the indexes on the predecessors.
Refused(s) ==
    \/ Recorded(s) \cap CommittedSources # {}
    \/ \E c \in Chains : Claims(s, c) \cap {e.prev : e \in InSeq(chain[c])} # {}

NewStatus(s) ==
    [o \in Orders |-> IF txn[s].moves[o] # None THEN txn[s].moves[o] ELSE status[o]]

Publish(s) ==
    /\ rows' = rows \cup txn[s].new
    /\ status' = NewStatus(s)
    /\ chain' = [c \in Chains |-> Seen(s, c)]
    /\ txn' = [txn EXCEPT ![s] = Ended(@)]
    /\ lock' = Unlocked(s)

-----------------------------------------------------------------------------
(* Live sessions. *)

\* A row is added, with its event or, where the hook was forgotten, without.
Write(s, r, hooked) ==
    /\ txn[s].want = None /\ Writes(s) < MaxWrites /\ MayOpen(s)
    /\ r \notin rows /\ \A x \in Clients : r \notin txn[x].new
    /\ r \in Facts => /\ ChainOf[r] = Global \/ Exists(s, ChainOf[r])
                      /\ MatchOf[r] = None \/ MatchOf[r] \in rows
    /\ txn' = [txn EXCEPT ![s].new = @ \cup {r},
                          ![s].want = IF hooked THEN RowRequest(r) ELSE None]
    /\ UNCHANGED <<rows, status, chain, lock, fill>>

\* transition_transaction, or a plain assignment of the status.
Move(s, o, to, hooked) ==
    /\ txn[s].want = None /\ Writes(s) < MaxWrites /\ MayOpen(s)
    /\ Exists(s, o)
    /\ to # (IF txn[s].moves[o] # None THEN txn[s].moves[o] ELSE status[o])
    /\ txn' = [txn EXCEPT ![s].moves[o] = to,
                          ![s].want = IF hooked THEN Request(o, "moved", to) ELSE None]
    /\ UNCHANGED <<rows, status, chain, lock, fill>>

\* _guard_completeness outside strict mode, before a flush: it records what
\* has no event yet.  For a new order it cannot: recording flushes the order
\* first, and a session that is flushing refuses to flush.
GuardRow(s) ==
    /\ txn[s].want = None
    /\ \E r \in Bare(s) :
         /\ Bare(s) \cap Orders = {}
         /\ Ask(s, RowRequest(r))
    /\ UNCHANGED <<rows, status, chain, lock, fill>>

GuardOrder(s) ==
    /\ txn[s].want = None
    /\ Bare(s) \cap Orders # {}
    /\ Undo(s)

GuardMove(s) ==
    /\ txn[s].want = None
    /\ \E o \in Untold(s) : Ask(s, Request(o, "moved", txn[s].moves[o]))
    /\ UNCHANGED <<rows, status, chain, lock, fill>>

OverlooksMoves(s) == Bare(s) # {}

\* What the flush of a commit leaves to the guard.
Overlooked(s) == Bare(s) # {} \/ Untold(s) # {}

Commit(s) ==
    /\ s \in Sessions /\ Touched(s)
    /\ txn[s].want = None /\ ~Overlooked(s) /\ ~Refused(s)
    /\ Publish(s)
    /\ UNCHANGED fill

Live(s) ==
    \/ \E r \in Rows, hooked \in BOOLEAN : Write(s, r, hooked)
    \/ \E o \in Orders, to \in Statuses, hooked \in BOOLEAN : Move(s, o, to, hooked)
    \/ GuardRow(s) \/ GuardOrder(s) \/ GuardMove(s)
    \/ Commit(s)

-----------------------------------------------------------------------------
(* backfill_anchor_events. *)

Set(b, phase, todo, written) ==
    fill' = [fill EXCEPT ![b] = [phase |-> phase, anchored |-> {}, todo |-> todo,
                                 written |-> written]]

Completed == \E e \in InSeq(chain[Global]) : e.kind = "completed"

\* A second run is refused unless resumed.  What is anchored is read first,
\* the rows after it.
FillStart(b, resume) ==
    /\ fill[b].phase = "idle" /\ MayOpen(b)
    /\ ~Completed \/ resume
    /\ fill' = [fill EXCEPT ![b] = [Resting EXCEPT !.phase = "read",
                                                   !.anchored = CommittedSources]]
    /\ UNCHANGED <<rows, status, chain, lock, txn>>

\* Only orders without any event, so a run that died half way is not taken up.
GapsOfUnseenOrders(b) == {r \in rows : chain[ChainOf[r]] = <<>>}

Gaps(b) == rows \ fill[b].anchored

FillRead(b) ==
    /\ fill[b].phase = "read"
    /\ Set(b, "rows", Gaps(b), 0)
    /\ UNCHANGED <<rows, status, chain, lock, txn>>

Due(b) == fill[b].written = CommitEvery

FillStep(b, phase) == fill[b].phase = phase /\ txn[b].want = None

\* The records are taken in their original order.
Earliest(b) == {r \in fill[b].todo : \A q \in fill[b].todo : WrittenAt[r] <= WrittenAt[q]}

FillRow(b) ==
    /\ FillStep(b, "rows") /\ ~Due(b)
    /\ \E r \in Earliest(b) :
         /\ Ask(b, RowRequest(r))
         /\ Set(b, "rows", fill[b].todo \ {r}, fill[b].written + 1)
    /\ UNCHANGED <<rows, status, chain, lock>>

FillSnapshots(b) ==
    /\ FillStep(b, "rows") /\ ~Due(b) /\ fill[b].todo = {}
    /\ Set(b, "snapshots", rows \cap Orders, 0)
    /\ UNCHANGED <<rows, status, chain, lock, txn>>

FillSnapshot(b) ==
    /\ FillStep(b, "snapshots") /\ ~Due(b)
    /\ \E o \in Earliest(b) :
         /\ Ask(b, Request(o, "snapshot", None))
         /\ Set(b, "snapshots", fill[b].todo \ {o}, fill[b].written + 1)
    /\ UNCHANGED <<rows, status, chain, lock>>

FillClose(b) ==
    /\ FillStep(b, "snapshots") /\ ~Due(b) /\ fill[b].todo = {}
    /\ Ask(b, Request(Global, "completed", None))
    /\ Set(b, "closing", {}, 0)
    /\ UNCHANGED <<rows, status, chain, lock>>

\* A commit every COMMIT_EVERY records, and the last one.
FillCommit(b) ==
    /\ txn[b].want = None /\ ~Refused(b)
    /\ \/ /\ Due(b)
          /\ Set(b, fill[b].phase, fill[b].todo, 0)
       \/ /\ fill[b].phase = "closing"
          /\ fill' = [fill EXCEPT ![b] = Resting]
    /\ Publish(b)

Fill(b) ==
    \/ \E resume \in BOOLEAN : FillStart(b, resume)
    \/ FillRead(b) \/ FillRow(b)
    \/ FillSnapshots(b) \/ FillSnapshot(b) \/ FillClose(b)
    \/ FillCommit(b)

-----------------------------------------------------------------------------
\* A commit that a unique index refuses ends in a rollback.
Fail(s) == txn[s].want = None /\ Refused(s) /\ Undo(s)

Next ==
    \/ \E s \in Sessions : Live(s)
    \/ \E b \in Backfills : Fill(b)
    \/ \E s \in Clients : Record(s) \/ Rollback(s) \/ Deadlock(s) \/ Fail(s)

Spec == Init /\ [][Next]_vars

-----------------------------------------------------------------------------
(* Every event names the event before it on its chain, in what is committed *)
(* and in what each session is about to commit, and two sessions never claim *)
(* one predecessor, so that the unique index is a backstop nobody runs into  *)
(* (decision D1, recorder.py: _chain_head).  Heads remembered after their    *)
(* transaction, or read without the lock, break the chain where the indexes  *)
(* do not see it.                                                            *)
Unbroken(q) ==
    \A i \in 1..Len(q) : q[i].prev = IF i = 1 THEN ZeroHash ELSE q[i - 1].leaf

ChainsLinear ==
    \A s \in Clients, c \in Chains :
        /\ Unbroken(Seen(s, c))
        /\ \A t \in Clients \ {s} : Claims(s, c) \cap Claims(t, c) = {}

(* Every row written since the log exists has its event, whichever hook was  *)
(* forgotten and whoever rolled back (recorder.py: _guard_completeness);     *)
(* once a backfill reported completion, so has every older row, and every    *)
(* older order has its snapshot, though it ran beside live sessions and may  *)
(* have died half way before (backfill.py).                                  *)
RowsAnchored ==
    /\ rows \ Old \subseteq CommittedSources
    /\ Completed =>
         /\ Old \subseteq CommittedSources
         /\ \A o \in Old \cap Orders : \E e \in InSeq(chain[o]) : e.kind = "snapshot"

(* The last status an order's chain tells is the order's status, also after *)
(* overlapping transitions and transitions without their hook               *)
(* (transitions.py: transition_transaction).                                *)
StatusTold == \A o \in rows \cap Orders : Told(chain[o], o) \in {status[o], None}

(* A funding event of the global chain that matches an escrow is linked in  *)
(* the order's chain (decision D10), from the commit that published it.     *)
FundingLinked ==
    \A e \in InSeq(chain[Global]) :
        e.kind = "row" /\ e.of \notin Old /\ MatchOf[e.of] # None =>
            \E l \in InSeq(chain[MatchOf[e.of]]) : l.kind = "linked" /\ l.of = e.leaf
=============================================================================
