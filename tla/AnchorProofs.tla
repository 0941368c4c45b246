----------------------------- MODULE AnchorProofs -----------------------------
(***************************************************************************)
(* The anchoring log, for any orders, rows, sessions and backfills: its    *)
(* chains never fork and never break; every row has its event, the last    *)
(* status told is the order's, funding events are linked, and a backfill   *)
(* that reported completion has anchored the history.                      *)
(***************************************************************************)
EXTENDS AnchorChains, SequenceTheorems, WellFoundedInduction, TLAPS

\* A session that added to a chain holds its lock, and remembers the head of
\* what it sees of that chain.
HeadsLocked ==
    \A s \in Clients, c \in Chains :
        /\ Unbroken(Seen(s, c))
        /\ txn[s].events[c] # <<>> => txn[s].heads[c] # Unread
        /\ txn[s].heads[c] # Unread =>
             lock[c] = s /\ txn[s].heads[c] = HeadOf(Seen(s, c))

Inv == TypeOK /\ HeadsLocked

TxnType == [heads  : [Chains -> Hashes \cup {ZeroHash, Unread}],
            new    : SUBSET Rows,
            moves  : [Orders -> Statuses \cup {None}],
            events : [Chains -> Seq(Events)],
            want   : Requests \cup {None}]

FillType == [phase : Phases, anchored : SUBSET Things, todo : SUBSET Rows, written : Nat]

-----------------------------------------------------------------------------
(***************************************************************************)
(* Sequences of events.                                                    *)
(***************************************************************************)
LEMMA UnbrokenAppend ==
    ASSUME NEW q \in Seq(Events), NEW e \in Events, Unbroken(q), e.prev = HeadOf(q)
    PROVE  Unbroken(Append(q, e)) /\ HeadOf(Append(q, e)) = e.leaf
<1>1. /\ Append(q, e) \in Seq(Events) /\ Len(Append(q, e)) = Len(q) + 1
      /\ \A i \in 1..Len(q) : Append(q, e)[i] = q[i]
      /\ Append(q, e)[Len(q) + 1] = e
  OBVIOUS
<1>2. Len(q) \in Nat /\ (q = <<>> <=> Len(q) = 0) /\ Append(q, e) # <<>>
  BY EmptySeq
<1> QED BY <1>1, <1>2 DEF Unbroken, HeadOf

LEMMA UnbrokenPrefix ==
    ASSUME NEW p \in Seq(Events), NEW q \in Seq(Events), Unbroken(p \o q)
    PROVE  Unbroken(p)
<1>1. /\ Len(p \o q) = Len(p) + Len(q)
      /\ \A i \in 1..Len(p) : (p \o q)[i] = p[i]
  OBVIOUS
<1> QED BY <1>1 DEF Unbroken

LEMMA AppendConcat ==
    ASSUME NEW p \in Seq(Events), NEW q \in Seq(Events), NEW e \in Events
    PROVE  p \o Append(q, e) = Append(p \o q, e)
OBVIOUS

LEMMA ConcatEmpty ==
    ASSUME NEW p \in Seq(Events)
    PROVE  p \o <<>> = p
OBVIOUS

\* What a session sees of a chain is a sequence of events.
LEMMA SeenType ==
    ASSUME TypeOK, NEW s \in Clients, NEW c \in Chains
    PROVE  /\ chain[c] \in Seq(Events) /\ txn[s].events[c] \in Seq(Events)
           /\ Seen(s, c) \in Seq(Events)
BY DEF TypeOK, Seen

LEMMA HeadType ==
    ASSUME NEW q \in Seq(Events)
    PROVE  HeadOf(q) \in Hashes \cup {ZeroHash}
<1>1. q # <<>> => Len(q) \in 1..Len(q)
  BY EmptySeq
<1>2. q # <<>> => q[Len(q)] \in Events
  BY <1>1
<1> QED BY <1>2 DEF HeadOf, Events

LEMMA FreshType == Fresh \in TxnType
BY DEF Fresh, TxnType

LEMMA RestingType == Resting \in FillType
BY DEF Resting, FillType, Phases

LEMMA RowRequestType ==
    ASSUME NEW r \in Rows
    PROVE  RowRequest(r) \in Requests
BY AnchorAssumption DEF RowRequest, Request, Requests, Kinds, Things

-----------------------------------------------------------------------------
(***************************************************************************)
(* The steps that leave chains, locks and what sessions hold of them.      *)
(***************************************************************************)
LEMMA SameHeads ==
    ASSUME HeadsLocked, UNCHANGED <<chain, lock>>,
           \A s \in Clients : txn'[s].events = txn[s].events /\ txn'[s].heads = txn[s].heads
    PROVE  HeadsLocked'
BY DEF HeadsLocked, Seen

LEMMA AskKeeps ==
    ASSUME Inv, NEW s \in Clients, NEW request \in Requests, Ask(s, request)
    PROVE  /\ txn' \in [Clients -> TxnType]
           /\ \A t \in Clients : txn'[t].events = txn[t].events /\ txn'[t].heads = txn[t].heads
<1>1. txn \in [Clients -> TxnType]
  BY DEF Inv, TypeOK, TxnType
<1> QED BY <1>1 DEF Ask, TxnType

LEMMA WriteKeeps ==
    ASSUME Inv, NEW s \in Sessions, NEW r \in Rows, NEW hooked \in BOOLEAN, Write(s, r, hooked)
    PROVE  Inv'
<1> USE DEF Clients
<1>1. txn \in [Clients -> TxnType]
  BY DEF Inv, TypeOK, TxnType
<1>2. (IF hooked THEN RowRequest(r) ELSE None) \in Requests \cup {None}
  BY RowRequestType
<1>3. /\ txn' \in [Clients -> TxnType]
      /\ \A t \in Clients : txn'[t].events = txn[t].events /\ txn'[t].heads = txn[t].heads
  <2> DEFINE want == IF hooked THEN RowRequest(r) ELSE None
             after == [txn[s] EXCEPT !.new = @ \cup {r}, !.want = want]
  <2>1. txn' = [txn EXCEPT ![s] = after]
    BY DEF Write
  <2>2. after \in TxnType /\ after.events = txn[s].events /\ after.heads = txn[s].heads
    BY <1>1, <1>2 DEF TxnType
  <2> HIDE DEF after
  <2> QED BY <1>1, <2>1, <2>2
<1>4. TypeOK'
  BY <1>3 DEF Inv, TypeOK, TxnType, Write
<1> QED BY <1>3, <1>4, SameHeads DEF Inv, Write

LEMMA MoveKeeps ==
    ASSUME Inv, NEW s \in Sessions, NEW o \in Orders, NEW to \in Statuses,
           NEW hooked \in BOOLEAN, Move(s, o, to, hooked)
    PROVE  Inv'
<1> USE DEF Clients
<1>1. txn \in [Clients -> TxnType]
  BY DEF Inv, TypeOK, TxnType
<1>2. (IF hooked THEN Request(o, "moved", to) ELSE None) \in Requests \cup {None}
  BY DEF Request, Requests, Chains, Kinds, Things
<1>3. /\ txn' \in [Clients -> TxnType]
      /\ \A t \in Clients : txn'[t].events = txn[t].events /\ txn'[t].heads = txn[t].heads
  <2> DEFINE want == IF hooked THEN Request(o, "moved", to) ELSE None
             after == [txn[s] EXCEPT !.moves[o] = to, !.want = want]
  <2>1. txn' = [txn EXCEPT ![s] = after]
    BY DEF Move
  <2>2. after \in TxnType /\ after.events = txn[s].events /\ after.heads = txn[s].heads
    BY <1>1, <1>2 DEF TxnType
  <2> HIDE DEF after
  <2> QED BY <1>1, <2>1, <2>2
<1>4. TypeOK'
  BY <1>3 DEF Inv, TypeOK, TxnType, Move
<1> QED BY <1>3, <1>4, SameHeads DEF Inv, Move

LEMMA GuardKeeps ==
    ASSUME Inv, NEW s \in Sessions, GuardRow(s) \/ GuardMove(s)
    PROVE  Inv'
<1> USE DEF Clients
<1>1. txn \in [Clients -> TxnType]
  BY DEF Inv, TypeOK, TxnType
<1>2. PICK request \in Requests : Ask(s, request)
  <2>1. CASE GuardRow(s)
    <3>1. PICK r \in Bare(s) : Ask(s, RowRequest(r))
      BY <2>1 DEF GuardRow
    <3>2. r \in Rows
      BY <1>1 DEF Bare, TxnType
    <3> QED BY <3>1, <3>2, RowRequestType
  <2>2. CASE GuardMove(s)
    <3>1. PICK o \in Untold(s) : Ask(s, Request(o, "moved", txn[s].moves[o]))
      BY <2>2 DEF GuardMove
    <3>2. o \in Orders /\ txn[s].moves[o] \in Statuses
      BY <1>1 DEF Untold, TxnType
    <3> QED BY <3>1, <3>2 DEF Request, Requests, Chains, Kinds, Things
  <2> QED BY <2>1, <2>2
<1>3. UNCHANGED <<rows, status, chain, lock, fill>>
  BY DEF GuardRow, GuardMove
<1>4. TypeOK'
  BY <1>2, <1>3, AskKeeps DEF Inv, TypeOK, TxnType
<1> QED BY <1>2, <1>3, <1>4, AskKeeps, SameHeads DEF Inv

LEMMA FillKeeps ==
    ASSUME Inv, NEW b \in Backfills,
           \/ \E resume \in BOOLEAN : FillStart(b, resume)
           \/ FillRead(b) \/ FillRow(b) \/ FillSnapshots(b) \/ FillSnapshot(b) \/ FillClose(b)
    PROVE  Inv'
<1> USE DEF Clients
<1>0. /\ fill \in [Backfills -> FillType] /\ txn \in [Clients -> TxnType] /\ rows \subseteq Rows
      /\ chain \in [Chains -> Seq(Events)]
  BY DEF Inv, TypeOK, FillType, TxnType
<1>1. UNCHANGED <<rows, status, chain, lock>>
  BY DEF FillStart, FillRead, FillRow, FillSnapshots, FillSnapshot, FillClose
<1>2. /\ fill' \in [Backfills -> FillType]
      /\ UNCHANGED txn \/ \E request \in Requests : Ask(b, request)
  <2>1. ASSUME NEW resume \in BOOLEAN, FillStart(b, resume)
        PROVE  fill' \in [Backfills -> FillType] /\ UNCHANGED txn
    <3>2. CommittedSources \subseteq Things
      <4>1. ASSUME NEW c \in Chains
            PROVE  Anchored(chain[c]) \subseteq Things
        <5>1. \A i \in 1..Len(chain[c]) : chain[c][i] \in Events
          BY <1>0
        <5> QED BY <5>1 DEF Anchored, InSeq, Events
      <4> QED BY <4>1 DEF CommittedSources
    <3> QED BY <1>0, <2>1, <3>2, RestingType DEF FillStart, FillType, Resting, Phases
  <2>2. CASE FillRead(b)
    BY <1>0, <2>2 DEF FillRead, Set, Gaps, FillType, Phases
  <2>3. CASE FillRow(b)
    <3>1. PICK r \in Earliest(b) : /\ Ask(b, RowRequest(r))
                                   /\ Set(b, "rows", fill[b].todo \ {r}, fill[b].written + 1)
      BY <2>3 DEF FillRow
    <3>2. r \in Rows
      BY <1>0 DEF Earliest, FillType
    <3> QED BY <1>0, <3>1, <3>2, RowRequestType DEF Set, FillType, Phases
  <2>4. CASE FillSnapshots(b)
    BY <1>0, <2>4 DEF FillSnapshots, Set, FillType, Phases, Rows
  <2>5. CASE FillSnapshot(b)
    <3>1. PICK o \in Earliest(b) : /\ Ask(b, Request(o, "snapshot", None))
                                   /\ Set(b, "snapshots", fill[b].todo \ {o}, fill[b].written + 1)
      BY <2>5 DEF FillSnapshot
    <3>2. o \in Orders
      BY <2>5, <3>1 DEF Inv, TypeOK, FillSnapshot, FillStep, Earliest
    <3>3. Request(o, "snapshot", None) \in Requests
      BY <3>2 DEF Request, Requests, Chains, Kinds, Things
    <3>4. fill[b] \in FillType /\ fill[b].written + 1 \in Nat /\ fill[b].todo \ {o} \subseteq Rows
      BY <1>0 DEF FillType
    <3> QED BY <1>0, <3>1, <3>3, <3>4 DEF Set, FillType, Phases
  <2>6. CASE FillClose(b)
    BY <1>0, <2>6 DEF FillClose, Set, FillType, Phases, Request, Requests, Chains, Kinds, Things
  <2> QED BY <2>1, <2>2, <2>3, <2>4, <2>5, <2>6
<1>3. /\ txn' \in [Clients -> TxnType]
      /\ \A t \in Clients : txn'[t].events = txn[t].events /\ txn'[t].heads = txn[t].heads
  BY <1>0, <1>2, AskKeeps
<1>4. ASSUME NEW a \in Backfills, fill'[a].phase = "snapshots"
      PROVE  fill'[a].todo \subseteq Orders
  <2>1. a # b => fill'[a] = fill[a]
    BY <1>0 DEF FillStart, FillRead, FillRow, FillSnapshots, FillSnapshot, FillClose, Set
  <2>2. a = b => fill'[a].todo \subseteq Orders
    <3>1. CASE \E resume \in BOOLEAN : FillStart(b, resume)
      BY <1>0, <1>4, <3>1 DEF FillStart, Resting
    <3>2. CASE FillRead(b) \/ FillRow(b) \/ FillClose(b)
      BY <1>0, <1>4, <3>2 DEF FillRead, FillRow, FillClose, Set
    <3>3. CASE FillSnapshots(b)
      BY <1>0, <1>4, <3>3 DEF FillSnapshots, Set
    <3>4. CASE FillSnapshot(b)
      BY <1>0, <1>4, <3>4 DEF FillSnapshot, Set, FillStep, Inv, TypeOK
    <3> QED BY <3>1, <3>2, <3>3, <3>4
  <2> QED BY <1>4, <2>1, <2>2 DEF Inv, TypeOK
<1>5. TypeOK'
  BY <1>1, <1>2, <1>3, <1>4 DEF Inv, TypeOK, TxnType, FillType
<1> QED BY <1>1, <1>3, <1>5, SameHeads DEF Inv

-----------------------------------------------------------------------------
(***************************************************************************)
(* Appending, rolling back and committing.                                 *)
(***************************************************************************)
\* What recording an event changes: the session's own events of one chain, the
\* head it remembers of it, its lock, and what the session asks for next.
LEMMA RecordGives ==
    ASSUME Inv, NEW s \in Clients, Record(s)
    PROVE  \E c \in Chains, request \in Requests, e \in Events :
             /\ txn[s].want = request /\ c = request.chain
             /\ e.kind = request.kind /\ e.of = request.of /\ e.prev = HeadOf(Seen(s, c))
             /\ lock[c] \in {None, s} /\ lock' = [lock EXCEPT ![c] = s]
             /\ txn' \in [Clients -> TxnType]
             /\ \A t \in Clients : t # s => txn'[t] = txn[t]
             /\ txn'[s].new = txn[s].new /\ txn'[s].moves = txn[s].moves
             /\ txn'[s].want = Link(s, request, e.leaf)
             /\ txn'[s].events[c] = Append(txn[s].events[c], e) /\ txn'[s].heads[c] = e.leaf
             /\ \A d \in Chains : d # c => /\ txn'[s].events[d] = txn[s].events[d]
                                          /\ txn'[s].heads[d] = txn[s].heads[d]
             /\ UNCHANGED <<rows, status, chain, fill>>
<1> DEFINE request == txn[s].want
           c       == request.chain
           leaf    == CHOOSE n \in Hashes : n \notin Used(c)
           added   == [kind |-> request.kind, of |-> request.of, leaf |-> leaf,
                       prev |-> HeadFor(s, c)]
           events  == [txn[s].events EXCEPT ![c] = Append(@, added)]
           heads   == [txn[s].heads EXCEPT ![c] = leaf]
           want    == Link(s, request, leaf)
           after   == [txn[s] EXCEPT !.events = events, !.heads = heads, !.want = want]
<1>1. txn \in [Clients -> TxnType] /\ lock \in [Chains -> Clients \cup {None}]
  BY DEF Inv, TypeOK, TxnType
<1>2. /\ txn' = [txn EXCEPT ![s] = after] /\ lock' = [lock EXCEPT ![c] = s]
      /\ UNCHANGED <<rows, status, chain, fill>>
      /\ lock[c] \in {None, s}
  <2>1. /\ txn' = [txn EXCEPT ![s].events[c] = Append(@, added),
                              ![s].heads[c] = leaf, ![s].want = want]
        /\ lock' = [lock EXCEPT ![c] = s]
        /\ UNCHANGED <<rows, status, chain, fill>>
        /\ lock[c] \in {None, s}
    BY DEF Record, MayLock
  <2> HIDE DEF added, leaf, want, c, request
  <2>2. txn' = [txn EXCEPT ![s] = after]
    BY <1>1, <2>1
  <2> QED BY <2>1, <2>2
<1>3. request \in Requests /\ c \in Chains
  BY <1>1 DEF Record, TxnType, Requests
<1>4. leaf \in Hashes
  BY DEF Record
<1>5. /\ txn[s].events \in [Chains -> Seq(Events)] /\ txn[s].events[c] \in Seq(Events)
      /\ Seen(s, c) \in Seq(Events)
      /\ txn[s].heads \in [Chains -> Hashes \cup {ZeroHash, Unread}]
  BY <1>1, <1>3, SeenType DEF TxnType, Inv
<1>6. /\ added \in Events /\ added.prev = HeadOf(Seen(s, c)) /\ added.leaf = leaf
      /\ added.kind = request.kind /\ added.of = request.of
  <2>1. HeadFor(s, c) = HeadOf(Seen(s, c))
    BY <1>3 DEF Inv, HeadsLocked, HeadFor
  <2>2. HeadFor(s, c) \in Hashes \cup {ZeroHash}
    BY <1>5, <2>1, HeadType
  <2> QED BY <1>3, <1>4, <2>1, <2>2 DEF Events, Requests
<1>7. want \in Requests \cup {None}
  BY <1>3, <1>4, AnchorAssumption DEF Link, Request, Requests, Chains, Kinds, Things
<1> HIDE DEF added, leaf, c, request
<1>8. after \in TxnType
  <2>1. /\ events \in [Chains -> Seq(Events)]
        /\ heads \in [Chains -> Hashes \cup {ZeroHash, Unread}]
    BY <1>3, <1>4, <1>5, <1>6
  <2>2. txn[s] \in TxnType
    BY <1>1
  <2> HIDE DEF events, heads, want
  <2> QED BY <1>7, <2>1, <2>2 DEF TxnType
<1>9. /\ after.events[c] = Append(txn[s].events[c], added) /\ after.heads[c] = leaf
      /\ \A d \in Chains : d # c => /\ after.events[d] = txn[s].events[d]
                                   /\ after.heads[d] = txn[s].heads[d]
      /\ after.new = txn[s].new /\ after.moves = txn[s].moves /\ after.want = want
  BY <1>1, <1>3, <1>5 DEF TxnType
<1> HIDE DEF after
<1>10. /\ txn' \in [Clients -> TxnType] /\ txn'[s] = after
       /\ \A t \in Clients : t # s => txn'[t] = txn[t]
  BY <1>1, <1>2, <1>8
<1>11. txn[s].want = request /\ c = request.chain
  BY DEF request, c
<1>12. /\ txn[s].want = request /\ c = request.chain
       /\ added.kind = request.kind /\ added.of = request.of /\ added.prev = HeadOf(Seen(s, c))
       /\ lock[c] \in {None, s} /\ lock' = [lock EXCEPT ![c] = s]
       /\ txn' \in [Clients -> TxnType]
       /\ \A t \in Clients : t # s => txn'[t] = txn[t]
       /\ txn'[s].new = txn[s].new /\ txn'[s].moves = txn[s].moves
       /\ txn'[s].want = Link(s, request, added.leaf)
       /\ txn'[s].events[c] = Append(txn[s].events[c], added) /\ txn'[s].heads[c] = added.leaf
       /\ \A d \in Chains : d # c => /\ txn'[s].events[d] = txn[s].events[d]
                                    /\ txn'[s].heads[d] = txn[s].heads[d]
       /\ UNCHANGED <<rows, status, chain, fill>>
  BY <1>2, <1>6, <1>9, <1>10, <1>11
<1> QED BY <1>3, <1>6, <1>12

LEMMA RecordKeeps ==
    ASSUME Inv, NEW s \in Clients, Record(s)
    PROVE  Inv'
<1>1. txn \in [Clients -> TxnType] /\ lock \in [Chains -> Clients \cup {None}]
  BY DEF Inv, TypeOK, TxnType
<1>2. PICK c \in Chains, request \in Requests, e \in Events :
        /\ e.prev = HeadOf(Seen(s, c))
        /\ lock[c] \in {None, s} /\ lock' = [lock EXCEPT ![c] = s]
        /\ txn' \in [Clients -> TxnType]
        /\ \A t \in Clients : t # s => txn'[t] = txn[t]
        /\ txn'[s].events[c] = Append(txn[s].events[c], e) /\ txn'[s].heads[c] = e.leaf
        /\ \A d \in Chains : d # c => /\ txn'[s].events[d] = txn[s].events[d]
                                     /\ txn'[s].heads[d] = txn[s].heads[d]
        /\ UNCHANGED <<rows, status, chain, fill>>
  BY RecordGives
<1>3. lock' \in [Chains -> Clients \cup {None}]
  BY <1>1, <1>2
<1>4. TypeOK'
  BY <1>2, <1>3 DEF Inv, TypeOK, TxnType
<1>5. HeadsLocked'
  <2> SUFFICES ASSUME NEW t \in Clients, NEW d \in Chains
               PROVE  /\ Unbroken(chain[d] \o txn'[t].events[d])
                      /\ txn'[t].events[d] # <<>> => txn'[t].heads[d] # Unread
                      /\ txn'[t].heads[d] # Unread =>
                           lock'[d] = t /\ txn'[t].heads[d] = HeadOf(chain[d] \o txn'[t].events[d])
    BY <1>2 DEF HeadsLocked, Seen
  <2>1. /\ Unbroken(chain[d] \o txn[t].events[d])
        /\ txn[t].events[d] # <<>> => txn[t].heads[d] # Unread
        /\ txn[t].heads[d] # Unread =>
             lock[d] = t /\ txn[t].heads[d] = HeadOf(chain[d] \o txn[t].events[d])
    BY DEF Inv, HeadsLocked, Seen
  <2>2. CASE t = s /\ d = c
    <3>1. Seen(s, c) \in Seq(Events) /\ Unbroken(Seen(s, c))
      BY SeenType DEF Inv, HeadsLocked
    <3>2. chain[c] \o Append(txn[s].events[c], e) = Append(Seen(s, c), e)
      BY AppendConcat, SeenType DEF Seen, Inv
    <3>3. /\ Unbroken(Append(Seen(s, c), e))
          /\ HeadOf(Append(Seen(s, c), e)) = e.leaf
      BY <1>2, <3>1, UnbrokenAppend
    <3>4. e.leaf # Unread /\ lock'[c] = s
      BY <1>1, <1>2 DEF Events, Hashes, Unread
    <3> QED BY <1>2, <2>2, <3>2, <3>3, <3>4
  <2>3. CASE d # c
    <3>1. lock'[d] = lock[d] /\ txn'[t].events[d] = txn[t].events[d]
          /\ txn'[t].heads[d] = txn[t].heads[d]
      BY <1>1, <1>2, <2>3
    <3> QED BY <2>1, <3>1
  <2>4. CASE t # s /\ d = c
    <3>1. lock[c] # t
      BY <1>2, <2>4, AnchorAssumption
    <3> QED BY <1>2, <2>1, <2>4, <3>1
  <2> QED BY <2>2, <2>3, <2>4
<1> QED BY <1>4, <1>5 DEF Inv

\* A session that ends holds no lock and remembers nothing.
LEMMA EndedSession ==
    ASSUME Inv, NEW s \in Clients, txn' = [txn EXCEPT ![s] = Ended(@)], lock' = Unlocked(s)
    PROVE  /\ txn' \in [Clients -> TxnType] /\ lock' \in [Chains -> Clients \cup {None}]
           /\ \A t \in Clients : t # s => txn'[t] = txn[t]
           /\ \A c \in Chains : txn'[s].events[c] = <<>> /\ txn'[s].heads[c] = Unread
           /\ \A c \in Chains, t \in Clients : t # s /\ lock[c] = t => lock'[c] = t
<1>1. txn \in [Clients -> TxnType] /\ lock \in [Chains -> Clients \cup {None}]
  BY DEF Inv, TypeOK, TxnType
<1>2. \A c \in Chains : Fresh.events[c] = <<>> /\ Fresh.heads[c] = Unread
  BY DEF Fresh
<1> QED BY <1>1, <1>2, FreshType DEF Ended, Unlocked

LEMMA UndoKeeps ==
    ASSUME Inv, NEW s \in Clients, Undo(s)
    PROVE  Inv'
<1>1. /\ txn' \in [Clients -> TxnType] /\ lock' \in [Chains -> Clients \cup {None}]
      /\ \A t \in Clients : t # s => txn'[t] = txn[t]
      /\ \A c \in Chains : txn'[s].events[c] = <<>> /\ txn'[s].heads[c] = Unread
      /\ \A c \in Chains, t \in Clients : t # s /\ lock[c] = t => lock'[c] = t
  BY EndedSession DEF Undo
<1>2. fill' \in [Backfills -> FillType]
      /\ \A b \in Backfills : fill'[b].phase = "snapshots" => fill'[b].todo \subseteq Orders
  BY RestingType DEF Undo, Inv, TypeOK, FillType, Resting
<1>3. TypeOK'
  BY <1>1, <1>2 DEF Undo, Inv, TypeOK, TxnType, FillType
<1>4. HeadsLocked'
  <2> SUFFICES ASSUME NEW t \in Clients, NEW c \in Chains
               PROVE  /\ Unbroken(chain[c] \o txn'[t].events[c])
                      /\ txn'[t].events[c] # <<>> => txn'[t].heads[c] # Unread
                      /\ txn'[t].heads[c] # Unread =>
                           lock'[c] = t /\ txn'[t].heads[c] = HeadOf(chain[c] \o txn'[t].events[c])
    BY DEF Undo, HeadsLocked, Seen
  <2>1. CASE t # s
    BY <1>1, <2>1 DEF Inv, HeadsLocked, Seen
  <2>2. CASE t = s
    <3>1. Unbroken(chain[c] \o txn[s].events[c]) /\ chain[c] \in Seq(Events)
          /\ txn[s].events[c] \in Seq(Events)
      BY SeenType DEF Inv, HeadsLocked, Seen
    <3>2. Unbroken(chain[c])
      BY <3>1, UnbrokenPrefix
    <3> QED BY <1>1, <2>2, <3>1, <3>2, ConcatEmpty
  <2> QED BY <2>1, <2>2
<1> QED BY <1>3, <1>4 DEF Inv

LEMMA PublishKeeps ==
    ASSUME Inv, NEW s \in Clients, Publish(s), fill' \in [Backfills -> FillType],
           \A b \in Backfills : fill'[b].phase = "snapshots" => fill'[b].todo \subseteq Orders
    PROVE  Inv'
<1>1. /\ txn' \in [Clients -> TxnType] /\ lock' \in [Chains -> Clients \cup {None}]
      /\ \A t \in Clients : t # s => txn'[t] = txn[t]
      /\ \A c \in Chains : txn'[s].events[c] = <<>> /\ txn'[s].heads[c] = Unread
      /\ \A c \in Chains, t \in Clients : t # s /\ lock[c] = t => lock'[c] = t
  BY EndedSession DEF Publish
<1>2. /\ chain' \in [Chains -> Seq(Events)]
      /\ \A c \in Chains : chain'[c] = Seen(s, c)
  BY SeenType DEF Publish, Inv
<1>3. /\ rows' \subseteq Rows /\ Old \subseteq rows'
      /\ status' \in [Orders -> Statuses]
  BY DEF Publish, NewStatus, Inv, TypeOK
<1>4. TypeOK'
  BY <1>1, <1>2, <1>3 DEF TypeOK, TxnType, FillType
<1>5. HeadsLocked'
  <2> SUFFICES ASSUME NEW t \in Clients, NEW c \in Chains
               PROVE  /\ Unbroken(chain'[c] \o txn'[t].events[c])
                      /\ txn'[t].events[c] # <<>> => txn'[t].heads[c] # Unread
                      /\ txn'[t].heads[c] # Unread =>
                           lock'[c] = t /\ txn'[t].heads[c] = HeadOf(chain'[c] \o txn'[t].events[c])
    BY DEF HeadsLocked, Seen
  <2>1. /\ chain[c] \in Seq(Events) /\ Seen(s, c) \in Seq(Events)
        /\ txn[s].events[c] \in Seq(Events) /\ Unbroken(Seen(s, c))
    BY SeenType DEF Inv, HeadsLocked
  <2>2. CASE txn'[t].heads[c] = Unread
    <3>1. txn'[t].events[c] = <<>>
      BY <1>1, <2>2 DEF Inv, HeadsLocked
    <3> QED BY <1>2, <2>1, <2>2, <3>1, ConcatEmpty
  <2>3. CASE txn'[t].heads[c] # Unread
    <3>1. t # s /\ txn'[t] = txn[t]
      BY <1>1, <2>3
    <3>2. lock[c] = t
      BY <2>3, <3>1 DEF Inv, HeadsLocked
    <3>3. txn[s].events[c] = <<>>
      BY <3>1, <3>2 DEF Inv, HeadsLocked
    <3>4. chain'[c] = chain[c]
      BY <1>2, <2>1, <3>3, ConcatEmpty DEF Seen
    <3> QED BY <1>1, <3>1, <3>2, <3>4 DEF Inv, HeadsLocked, Seen
  <2> QED BY <2>2, <2>3
<1> QED BY <1>4, <1>5 DEF Inv

-----------------------------------------------------------------------------
LEMMA InitInv == ASSUME Init PROVE Inv
<1>1. TypeOK
  BY FreshType, RestingType, AnchorAssumption
     DEF Init, TypeOK, TxnType, FillType, Chains, Resting
<1>2. ASSUME NEW s \in Clients, NEW c \in Chains
      PROVE  Seen(s, c) = <<>> /\ txn[s].events[c] = <<>> /\ txn[s].heads[c] = Unread
  BY DEF Init, Seen, Fresh
<1>3. Unbroken(<<>>)
  BY DEF Unbroken
<1> QED BY <1>1, <1>2, <1>3 DEF Inv, HeadsLocked

LEMMA NextInv == ASSUME Inv, [Next]_vars PROVE Inv'
<1>1. CASE UNCHANGED vars
  <2>1. TypeOK'
    BY <1>1 DEF vars, Inv, TypeOK
  <2> QED BY <1>1, <2>1, SameHeads DEF vars, Inv
<1>2. ASSUME NEW s \in Sessions, Live(s)
      PROVE  Inv'
  <2>1. CASE Commit(s)
    BY <2>1, PublishKeeps DEF Commit, Inv, TypeOK, FillType, Clients
  <2>2. CASE GuardOrder(s)
    BY <2>2, UndoKeeps DEF GuardOrder, Clients
  <2> QED BY <1>2, <2>1, <2>2, WriteKeeps, MoveKeeps, GuardKeeps DEF Live
<1>3. ASSUME NEW b \in Backfills, Fill(b)
      PROVE  Inv'
  <2>1. CASE FillCommit(b)
    <3>1. /\ fill' \in [Backfills -> FillType]
          /\ \A a \in Backfills : fill'[a].phase = "snapshots" => fill'[a].todo \subseteq Orders
      <4>1. fill \in [Backfills -> FillType] /\ 0 \in Nat /\ {} \subseteq Things
        BY DEF Inv, TypeOK, FillType
      <4>2. CASE Set(b, fill[b].phase, fill[b].todo, 0)
        BY <4>1, <4>2 DEF Set, FillType, Inv, TypeOK
      <4>3. CASE fill' = [fill EXCEPT ![b] = Resting]
        <5>1. Resting.phase # "snapshots"
          BY DEF Resting
        <5> QED BY <4>1, <4>3, <5>1, RestingType DEF Inv, TypeOK
      <4> QED BY <2>1, <4>2, <4>3 DEF FillCommit
    <3> QED BY <2>1, <3>1, PublishKeeps DEF FillCommit, Clients
  <2> QED BY <1>3, <2>1, FillKeeps DEF Fill
<1>4. ASSUME NEW s \in Clients, Record(s) \/ Rollback(s) \/ Deadlock(s) \/ Fail(s)
      PROVE  Inv'
  BY <1>4, RecordKeeps, UndoKeeps DEF Rollback, Deadlock, Fail
<1> QED BY <1>1, <1>2, <1>3, <1>4 DEF Next

\* The variables of the anchoring log have their types
\* (recorder.py, backfill.py).
THEOREM AnchorTypes == Spec => []TypeOK
<1>1. Spec => []Inv
  BY InitInv, NextInv, PTL DEF Spec
<1> QED BY <1>1, PTL DEF Inv

\* Chains never fork and never break, whatever sessions and backfills do at
\* once: the head is read under the lock that lasts until the commit
\* (decision D1, recorder.py: _chain_head).
THEOREM ChainsNeverFork == Spec => []ChainsLinear
<1>1. Spec => []Inv
  BY InitInv, NextInv, PTL DEF Spec
<1>2. Inv => ChainsLinear
  <2> SUFFICES ASSUME Inv, NEW s \in Clients, NEW c \in Chains
               PROVE  /\ Unbroken(Seen(s, c))
                      /\ \A t \in Clients \ {s} : Claims(s, c) \cap Claims(t, c) = {}
    BY DEF ChainsLinear
  <2>1. ASSUME NEW t \in Clients \ {s}
        PROVE  txn[s].events[c] = <<>> \/ txn[t].events[c] = <<>>
    BY DEF Inv, HeadsLocked
  <2>2. ASSUME NEW t \in Clients, txn[t].events[c] = <<>>
        PROVE  Claims(t, c) = {}
    BY <2>2 DEF Claims, InSeq
  <2> QED BY <2>1, <2>2 DEF Inv, HeadsLocked
<1> QED BY <1>1, <1>2, PTL
-----------------------------------------------------------------------------
(***************************************************************************)
(* What the events say of rows, statuses and links.                        *)
(***************************************************************************)
Sources(q) == UNION {Anchored(q[c]) : c \in Chains}

\* An event, or a request for one, that a live session has grounds for: it is
\* about a row the session adds or an order it moves.
Grounded(t, c, kind, thing) ==
    /\ kind = "row" => thing \in t.new
    /\ kind # "completed"
    /\ kind = "moved" /\ c \in Orders => thing \in Statuses /\ t.moves[c] # None

Linked(t, e) ==
    \/ t.want # None /\ t.want = Request(MatchOf[e.of], "linked", e.leaf)
    \/ \E l \in InSeq(t.events[MatchOf[e.of]]) : l.kind = "linked" /\ l.of = e.leaf

\* A live session beside the committed rows: its rows are new, and a funding
\* event it recorded is linked, or the link is what it asks for.
LiveTxn(t, committed) ==
    /\ t.new \cap committed = {}
    /\ \A o \in Orders : t.moves[o] # None => o \in committed \cup t.new
    /\ \A c \in Chains : \A e \in InSeq(t.events[c]) : Grounded(t, c, e.kind, e.of)
    /\ \A e \in InSeq(t.events[Global]) :
         e.kind = "row" /\ MatchOf[e.of] # None => Linked(t, e)
    /\ t.want # None => Grounded(t, t.want.chain, t.want.kind, t.want.of)

\* What a backfill may record: committed rows, and its completion at the end.
Historic(f, committed, kind, thing) ==
    /\ kind = "row" => thing \in committed
    /\ kind # "moved"
    /\ kind = "completed" => f.phase = "closing"

FillTxn(t, f, committed) ==
    /\ t.new = {} /\ \A o \in Orders : t.moves[o] = None
    /\ f.todo \subseteq committed
    /\ \A c \in Chains : \A e \in InSeq(t.events[c]) : Historic(f, committed, e.kind, e.of)
    /\ t.want # None => Historic(f, committed, t.want.kind, t.want.of)

Apart == \A s, u \in Sessions : s # u => txn[s].new \cap txn[u].new = {}

\* What the committed chains tell.
Truthful ==
    /\ rows \ Old \subseteq CommittedSources /\ CommittedSources \subseteq rows
    /\ FundingLinked
    /\ \A o \in Orders :
         /\ Told(chain[o], o) \in {status[o], None}
         /\ o \notin rows => status[o] = Initial
         /\ \A e \in InSeq(chain[o]) : e.kind = "moved" => e.of \in Statuses

Accounted ==
    /\ \A s \in Sessions : LiveTxn(txn[s], rows)
    /\ \A b \in Backfills : FillTxn(txn[b], fill[b], rows)
    /\ Apart /\ Truthful

LEMMA LastExists ==
    ASSUME NEW n \in Nat, NEW T \in SUBSET (1..n), T # {}
    PROVE  \E i \in T : \A j \in T : j <= i
<1> DEFINE S == {n - i : i \in T}
           R == OpToRel(<, Nat)
<1>1. S \subseteq Nat
  OBVIOUS
<1>2. S # {}
  <2>1. PICK i \in T : TRUE
    OBVIOUS
  <2>2. n - i \in S
    BY <2>1
  <2> QED BY <2>2
<1>3. \A k, m \in Nat : k < m => <<k, m>> \in R
  BY DEF OpToRel
<1>4. IsWellFoundedOn(R, Nat)
  BY NatLessThanWellFounded, Zenon
<1> HIDE DEF S, R
<1>5. PICK m \in S : \A k \in S : ~ (<<k, m>> \in R)
  BY <1>1, <1>2, <1>4, WFMin
<1>6. PICK i \in T : m = n - i
  BY DEF S
<1>7. ASSUME NEW j \in T PROVE j <= i
  <2>1. n - j \in S
    BY DEF S
  <2>2. n - j \in Nat /\ m \in Nat
    BY <1>1, <2>1
  <2>3. ~(n - j < m)
    BY <1>3, <1>5, <2>1, <2>2
  <2> QED BY <1>6, <2>2, <2>3
<1> QED BY <1>6, <1>7

LEMMA InAppend ==
    ASSUME NEW q \in Seq(Events), NEW e \in Events
    PROVE  InSeq(Append(q, e)) = InSeq(q) \cup {e}
<1>1. /\ Len(Append(q, e)) = Len(q) + 1 /\ Len(q) \in Nat
      /\ \A i \in 1..Len(q) : Append(q, e)[i] = q[i]
      /\ Append(q, e)[Len(q) + 1] = e
  OBVIOUS
<1>2. 1..(Len(q) + 1) = (1..Len(q)) \cup {Len(q) + 1}
  BY <1>1
<1> QED BY <1>1, <1>2 DEF InSeq

LEMMA ConcatParts ==
    ASSUME NEW p \in Seq(Events), NEW q \in Seq(Events)
    PROVE  /\ p \o q \in Seq(Events) /\ Len(p) \in Nat /\ Len(q) \in Nat
           /\ Len(p \o q) = Len(p) + Len(q)
           /\ \A i \in 1..Len(p) : (p \o q)[i] = p[i]
           /\ \A i \in 1..Len(q) : (p \o q)[Len(p) + i] = q[i]
OBVIOUS

LEMMA InConcat ==
    ASSUME NEW p \in Seq(Events), NEW q \in Seq(Events)
    PROVE  InSeq(p \o q) = InSeq(p) \cup InSeq(q)
<1>1. ASSUME NEW i \in 1..(Len(p) + Len(q))
      PROVE  i \in 1..Len(p) \/ \E j \in 1..Len(q) : i = Len(p) + j
  <2>1. CASE i > Len(p)
    <3>1. i - Len(p) \in 1..Len(q) /\ i = Len(p) + (i - Len(p))
      BY <2>1
    <3> QED BY <3>1
  <2> QED BY <2>1
<1>2. /\ \A i \in 1..Len(q) : Len(p) + i \in 1..(Len(p) + Len(q))
      /\ \A i \in 1..Len(p) : i \in 1..(Len(p) + Len(q))
  OBVIOUS
<1>3. ASSUME NEW x \in InSeq(p) PROVE x \in InSeq(p \o q)
  <2>1. PICK i \in 1..Len(p) : x = p[i]
    BY DEF InSeq
  <2> QED BY <1>2, <2>1, ConcatParts DEF InSeq
<1>5. ASSUME NEW x \in InSeq(q) PROVE x \in InSeq(p \o q)
  <2>1. PICK i \in 1..Len(q) : x = q[i]
    BY DEF InSeq
  <2>2. Len(p) + i \in 1..Len(p \o q) /\ (p \o q)[Len(p) + i] = x
    BY <1>2, <2>1, ConcatParts
  <2> QED BY <2>2 DEF InSeq
<1>4. InSeq(p \o q) \subseteq InSeq(p) \cup InSeq(q)
  BY <1>1, ConcatParts DEF InSeq
<1> QED BY <1>3, <1>4, <1>5

LEMMA SourcesAre ==
    ASSUME NEW q, NEW r
    PROVE  r \in Sources(q) <=>
             \E c \in Chains : \E e \in InSeq(q[c]) : e.kind = "row" /\ e.of = r
BY DEF Sources, Anchored

\* What the last event of a chain that tells a status says.
LEMMA ToldIs ==
    ASSUME NEW q \in Seq(Events), NEW o
    PROVE  \/ Told(q, o) = None /\ \A i \in 1..Len(q) : ~Tells(q[i], o)
           \/ \E i \in 1..Len(q) :
                /\ Tells(q[i], o)
                /\ \A j \in 1..Len(q) : j > i => ~Tells(q[j], o)
                /\ Told(q, o) = IF q[i].kind = "moved" THEN q[i].of ELSE Initial
<1> DEFINE telling == {i \in 1..Len(q) : Tells(q[i], o)}
           last    == CHOOSE i \in telling : \A j \in telling : j <= i
<1>1. CASE telling = {}
  BY <1>1 DEF Told
<1>2. CASE telling # {}
  <2>1. Told(q, o) = IF q[last].kind = "moved" THEN q[last].of ELSE Initial
    BY <1>2 DEF Told
  <2>2. \E i \in telling : \A j \in telling : j <= i
    <3>1. telling \in SUBSET (1..Len(q)) /\ Len(q) \in Nat
      OBVIOUS
    <3> HIDE DEF telling
    <3> QED BY <1>2, <3>1, LastExists
  <2>3. last \in telling /\ \A j \in telling : j <= last
    BY <2>2
  <2>4. PICK k \in telling : k = last
    BY <2>3
  <2>5. \A j \in 1..Len(q) : j > k => ~Tells(q[j], o)
    BY <2>3, <2>4
  <2>6. Told(q, o) = IF q[k].kind = "moved" THEN q[k].of ELSE Initial
    BY <2>1, <2>4
  <2> QED BY <2>4, <2>5, <2>6
<1> QED BY <1>1, <1>2

LEMMA ToldOnce ==
    ASSUME NEW q \in Seq(Events), NEW o, NEW i \in 1..Len(q), Tells(q[i], o),
           \A j \in 1..Len(q) : j > i => ~Tells(q[j], o)
    PROVE  Told(q, o) = IF q[i].kind = "moved" THEN q[i].of ELSE Initial
<1>1. CASE \A j \in 1..Len(q) : ~Tells(q[j], o)
  BY <1>1
<1>2. ASSUME NEW k \in 1..Len(q), Tells(q[k], o),
             \A j \in 1..Len(q) : j > k => ~Tells(q[j], o),
             Told(q, o) = IF q[k].kind = "moved" THEN q[k].of ELSE Initial
      PROVE  Told(q, o) = IF q[i].kind = "moved" THEN q[i].of ELSE Initial
  <2>1. k = i
    BY <1>2
  <2> QED BY <1>2, <2>1
<1> QED BY <1>1, <1>2, ToldIs

LEMMA ToldConcat ==
    ASSUME NEW p \in Seq(Events), NEW q \in Seq(Events), NEW o
    PROVE  \/ /\ Told(q, o) = None /\ \A e \in InSeq(q) : ~Tells(e, o)
              /\ Told(p \o q, o) = Told(p, o)
           \/ /\ Told(p \o q, o) = Told(q, o)
              /\ \E e \in InSeq(q) :
                   Tells(e, o) /\ Told(q, o) = IF e.kind = "moved" THEN e.of ELSE Initial
<1> DEFINE n == Len(p)
           m == Len(q)
           pq == p \o q
<1>1. /\ pq \in Seq(Events) /\ n \in Nat /\ m \in Nat /\ Len(pq) = n + m
      /\ \A i \in 1..n : pq[i] = p[i]
      /\ \A i \in 1..m : pq[n + i] = q[i]
  BY ConcatParts
<1> HIDE DEF n, m, pq
<1>2. ASSUME NEW i \in 1..m, Tells(q[i], o), \A j \in 1..m : j > i => ~Tells(q[j], o),
             Told(q, o) = IF q[i].kind = "moved" THEN q[i].of ELSE Initial
      PROVE  /\ Told(pq, o) = Told(q, o)
             /\ \E e \in InSeq(q) :
                  Tells(e, o) /\ Told(q, o) = IF e.kind = "moved" THEN e.of ELSE Initial
  <2>1. n + i \in 1..Len(pq) /\ pq[n + i] = q[i]
    BY <1>1
  <2>2. ASSUME NEW j \in 1..Len(pq), j > n + i
        PROVE  ~Tells(pq[j], o)
    <3>1. j - n \in 1..m /\ j - n > i /\ j = n + (j - n)
      BY <1>1, <2>2
    <3> QED BY <1>1, <1>2, <3>1
  <2>3. Told(pq, o) = Told(q, o)
    <3>1. Told(pq, o) = IF pq[n + i].kind = "moved" THEN pq[n + i].of ELSE Initial
      BY <1>1, <1>2, <2>1, <2>2, ToldOnce
    <3> QED BY <1>2, <2>1, <3>1
  <2>4. q[i] \in InSeq(q)
    BY DEF InSeq, m
  <2> QED BY <1>2, <2>3, <2>4
<1>3. ASSUME Told(q, o) = None, \A i \in 1..m : ~Tells(q[i], o)
      PROVE  Told(pq, o) = Told(p, o)
  <2>1. ASSUME NEW j \in 1..Len(pq), j > n
        PROVE  ~Tells(pq[j], o)
    <3>1. j - n \in 1..m /\ j = n + (j - n)
      BY <1>1, <2>1
    <3> QED BY <1>1, <1>3, <3>1
  <2>2. \A i \in 1..n : i \in 1..Len(pq) /\ pq[i] = p[i]
    BY <1>1
  <2>3. ASSUME NEW i \in 1..n, Tells(p[i], o), \A j \in 1..n : j > i => ~Tells(p[j], o),
               Told(p, o) = IF p[i].kind = "moved" THEN p[i].of ELSE Initial
        PROVE  Told(pq, o) = Told(p, o)
    <3>1. \A j \in 1..Len(pq) : j > i => ~Tells(pq[j], o)
      BY <1>1, <2>1, <2>2, <2>3
    <3>2. i \in 1..Len(pq) /\ pq[i] = p[i] /\ Tells(pq[i], o)
      BY <2>2, <2>3
    <3>3. Told(pq, o) = IF pq[i].kind = "moved" THEN pq[i].of ELSE Initial
      BY <1>1, <3>1, <3>2, ToldOnce
    <3> QED BY <2>3, <3>2, <3>3
  <2>4. ASSUME Told(p, o) = None, \A i \in 1..n : ~Tells(p[i], o)
        PROVE  Told(pq, o) = Told(p, o)
    <3>1. \A j \in 1..Len(pq) : ~Tells(pq[j], o)
      BY <1>1, <2>1, <2>2, <2>4
    <3> QED BY <1>1, <2>4, <3>1, ToldIs
  <2> QED BY <2>3, <2>4, ToldIs DEF n
<1>4. (\A i \in 1..m : ~Tells(q[i], o)) => \A e \in InSeq(q) : ~Tells(e, o)
  BY DEF InSeq, m
<1> QED BY <1>2, <1>3, <1>4, ToldIs DEF m, pq

\* A session that the step leaves alone.
LEMMA LiveStays ==
    ASSUME NEW t, NEW old, NEW committed, LiveTxn(t, old), t.new \cap committed = {},
           old \subseteq committed
    PROVE  LiveTxn(t, committed)
BY DEF LiveTxn

LEMMA FillStays ==
    ASSUME NEW t, NEW f, NEW old, NEW committed, FillTxn(t, f, old), old \subseteq committed
    PROVE  FillTxn(t, f, committed)
BY DEF FillTxn, Historic

LEMMA FreshLive ==
    ASSUME NEW committed
    PROVE  LiveTxn(Fresh, committed)
<1>1. /\ Fresh.new = {} /\ Fresh.want = None /\ \A o \in Orders : Fresh.moves[o] = None
      /\ \A c \in Chains : InSeq(Fresh.events[c]) = {}
  BY DEF Fresh, InSeq
<1>2. Global \in Chains
  BY DEF Chains
<1> QED BY <1>1, <1>2 DEF LiveTxn

LEMMA FreshFill ==
    ASSUME NEW committed, NEW f, f.todo \subseteq committed
    PROVE  FillTxn(Fresh, f, committed)
<1>1. /\ Fresh.new = {} /\ Fresh.want = None /\ \A o \in Orders : Fresh.moves[o] = None
      /\ \A c \in Chains : InSeq(Fresh.events[c]) = {}
  BY DEF Fresh, InSeq
<1> QED BY <1>1 DEF FillTxn

\* Truthful is about what is committed.
LEMMA SameTruth ==
    ASSUME Truthful, UNCHANGED <<rows, status, chain>>
    PROVE  Truthful'
BY DEF Truthful, CommittedSources, FundingLinked

-----------------------------------------------------------------------------
(***************************************************************************)
(* Each step keeps the account.                                            *)
(***************************************************************************)
LEMMA WriteAccounted ==
    ASSUME Inv, Accounted, NEW s \in Sessions, NEW r \in Rows, NEW hooked \in BOOLEAN,
           Write(s, r, hooked)
    PROVE  Accounted'
<1> USE DEF Clients
<1>1. txn \in [Clients -> TxnType]
  BY DEF Inv, TypeOK, TxnType
<1> DEFINE want  == IF hooked THEN RowRequest(r) ELSE None
           after == [txn[s] EXCEPT !.new = @ \cup {r}, !.want = want]
<1>2. txn' = [txn EXCEPT ![s] = after] /\ UNCHANGED <<rows, status, chain, fill>>
  BY DEF Write
<1>3. /\ after.events = txn[s].events /\ after.moves = txn[s].moves /\ after.want = want
      /\ after.new = txn[s].new \cup {r} /\ txn[s].want = None
  BY <1>1 DEF TxnType, Write
<1>4. want # None => want.chain = ChainOf[r] /\ want.kind = "row" /\ want.of = r
  BY DEF RowRequest, Request
<1> HIDE DEF after, want
<1>5. /\ txn'[s] = after /\ \A t \in Clients : t # s => txn'[t] = txn[t]
  BY <1>1, <1>2
<1>6. r \notin rows /\ \A t \in Sessions : r \notin txn[t].new
  BY DEF Write
<1>7. LiveTxn(after, rows)
  <2>1. LiveTxn(txn[s], rows)
    BY DEF Accounted
  <2> QED BY <1>3, <1>4, <1>6, <2>1 DEF LiveTxn, Grounded, Linked
<1>8. Apart'
  BY <1>3, <1>5, <1>6 DEF Apart, Accounted
<1>9. \A t \in Sessions : LiveTxn(txn'[t], rows')
  BY <1>2, <1>5, <1>7 DEF Accounted
<1>10. \A b \in Backfills : FillTxn(txn'[b], fill'[b], rows')
  <2>1. \A b \in Backfills : b # s
    BY AnchorAssumption
  <2> QED BY <1>2, <1>5, <2>1 DEF Accounted
<1> QED BY <1>2, <1>8, <1>9, <1>10, SameTruth DEF Accounted

LEMMA MoveAccounted ==
    ASSUME Inv, Accounted, NEW s \in Sessions, NEW o \in Orders, NEW to \in Statuses,
           NEW hooked \in BOOLEAN, Move(s, o, to, hooked)
    PROVE  Accounted'
<1> USE DEF Clients
<1>1. txn \in [Clients -> TxnType]
  BY DEF Inv, TypeOK, TxnType
<1> DEFINE want  == IF hooked THEN Request(o, "moved", to) ELSE None
           after == [txn[s] EXCEPT !.moves[o] = to, !.want = want]
<1>2. txn' = [txn EXCEPT ![s] = after] /\ UNCHANGED <<rows, status, chain, fill>>
  BY DEF Move
<1>3. /\ after.events = txn[s].events /\ after.new = txn[s].new /\ after.want = want
      /\ after.moves[o] = to /\ \A p \in Orders : p # o => after.moves[p] = txn[s].moves[p]
      /\ txn[s].want = None
  BY <1>1 DEF TxnType, Move
<1>4. want # None => want.chain = o /\ want.kind = "moved" /\ want.of = to
  BY DEF Request
<1> HIDE DEF after, want
<1>5. /\ txn'[s] = after /\ \A t \in Clients : t # s => txn'[t] = txn[t]
  BY <1>1, <1>2
<1>6. o \in rows \cup txn[s].new /\ to # None
  BY AnchorAssumption DEF Move, Exists
<1>7. LiveTxn(after, rows)
  <2>1. LiveTxn(txn[s], rows)
    BY DEF Accounted
  <2>2. \A p \in Orders : txn[s].moves[p] # None => after.moves[p] # None
    BY <1>3, <1>6
  <2> QED BY <1>3, <1>4, <1>6, <2>1, <2>2 DEF LiveTxn, Grounded, Linked
<1>8. Apart'
  BY <1>3, <1>5 DEF Apart, Accounted
<1>9. \A t \in Sessions : LiveTxn(txn'[t], rows')
  BY <1>2, <1>5, <1>7 DEF Accounted
<1>10. \A b \in Backfills : FillTxn(txn'[b], fill'[b], rows')
  <2>1. \A b \in Backfills : b # s
    BY AnchorAssumption
  <2> QED BY <1>2, <1>5, <2>1 DEF Accounted
<1> QED BY <1>2, <1>8, <1>9, <1>10, SameTruth DEF Accounted

LEMMA GuardAccounted ==
    ASSUME Inv, Accounted, NEW s \in Sessions, GuardRow(s) \/ GuardMove(s)
    PROVE  Accounted'
<1> USE DEF Clients
<1>1. txn \in [Clients -> TxnType]
  BY DEF Inv, TypeOK, TxnType
<1>2. PICK request : Ask(s, request) /\ Grounded(txn[s], request.chain, request.kind, request.of)
  <2>1. CASE GuardRow(s)
    <3>1. PICK r \in Bare(s) : Ask(s, RowRequest(r))
      BY <2>1 DEF GuardRow
    <3> QED BY <3>1 DEF Bare, RowRequest, Request, Grounded
  <2>2. CASE GuardMove(s)
    <3>1. PICK o \in Untold(s) : Ask(s, Request(o, "moved", txn[s].moves[o]))
      BY <2>2 DEF GuardMove
    <3>2. o \in Orders /\ txn[s].moves[o] \in Statuses /\ txn[s].moves[o] # None
      BY <1>1, <3>1 DEF Untold, TxnType
    <3> QED BY <3>1, <3>2 DEF Request, Grounded
  <2> QED BY <2>1, <2>2
<1> DEFINE after == [txn[s] EXCEPT !.want = request]
<1>3. txn' = [txn EXCEPT ![s] = after] /\ UNCHANGED <<rows, status, chain, fill>>
  BY <1>2 DEF GuardRow, GuardMove, Ask
<1>4. /\ after.events = txn[s].events /\ after.new = txn[s].new /\ after.want = request
      /\ after.moves = txn[s].moves /\ txn[s].want = None
  BY <1>1 DEF TxnType, GuardRow, GuardMove
<1> HIDE DEF after
<1>5. /\ txn'[s] = after /\ \A t \in Clients : t # s => txn'[t] = txn[t]
  BY <1>1, <1>3
<1>7. LiveTxn(after, rows)
  <2>1. LiveTxn(txn[s], rows)
    BY DEF Accounted
  <2> QED BY <1>2, <1>4, <2>1 DEF LiveTxn, Grounded, Linked
<1>8. Apart'
  BY <1>4, <1>5 DEF Apart, Accounted
<1>9. \A t \in Sessions : LiveTxn(txn'[t], rows')
  BY <1>3, <1>5, <1>7 DEF Accounted
<1>10. \A b \in Backfills : FillTxn(txn'[b], fill'[b], rows')
  <2>1. \A b \in Backfills : b # s
    BY AnchorAssumption
  <2> QED BY <1>3, <1>5, <2>1 DEF Accounted
<1> QED BY <1>3, <1>8, <1>9, <1>10, SameTruth DEF Accounted

LEMMA RecordAccounted ==
    ASSUME Inv, Accounted, NEW s \in Clients, Record(s)
    PROVE  Accounted'
<1>1. PICK c \in Chains, request \in Requests, e \in Events :
        /\ txn[s].want = request /\ c = request.chain
        /\ e.kind = request.kind /\ e.of = request.of
        /\ \A t \in Clients : t # s => txn'[t] = txn[t]
        /\ txn'[s].new = txn[s].new /\ txn'[s].moves = txn[s].moves
        /\ txn'[s].want = Link(s, request, e.leaf)
        /\ txn'[s].events[c] = Append(txn[s].events[c], e)
        /\ \A d \in Chains : d # c => txn'[s].events[d] = txn[s].events[d]
        /\ UNCHANGED <<rows, status, chain, fill>>
  BY RecordGives
<1>2. /\ InSeq(txn'[s].events[c]) = InSeq(txn[s].events[c]) \cup {e}
      /\ \A d \in Chains : d # c => InSeq(txn'[s].events[d]) = InSeq(txn[s].events[d])
  <2>1. txn[s].events[c] \in Seq(Events)
    BY SeenType DEF Inv
  <2> QED BY <1>1, <2>1, InAppend
<1>3. request # None /\ txn[s].want # None
  BY <1>1 DEF Record
<1>4. /\ Global \in Chains /\ \A r \in Rows : MatchOf[r] # None => MatchOf[r] \in Orders
      /\ \A o \in Orders : o \in Chains /\ o # Global
  BY AnchorAssumption DEF Chains, Rows
<1>5. ASSUME s \in Sessions
      PROVE  LiveTxn(txn'[s], rows)
  <2>1. LiveTxn(txn[s], rows)
    BY <1>5 DEF Accounted
  <2>2. Grounded(txn'[s], c, e.kind, e.of)
    BY <1>1, <1>3, <2>1 DEF LiveTxn, Grounded
  <2>3. \A d \in Chains : \A x \in InSeq(txn'[s].events[d]) : Grounded(txn'[s], d, x.kind, x.of)
    BY <1>1, <1>2, <2>1, <2>2 DEF LiveTxn, Grounded
  <2>4. txn'[s].want # None =>
          /\ request.kind = "row" /\ MatchOf[request.of] # None
          /\ txn'[s].want = Request(MatchOf[request.of], "linked", e.leaf)
    BY <1>1 DEF Link
  <2>5. ASSUME NEW x \in InSeq(txn'[s].events[Global]), x.kind = "row", MatchOf[x.of] # None
        PROVE  Linked(txn'[s], x)
    <3>1. CASE x \in InSeq(txn[s].events[Global])
      <4>1. Linked(txn[s], x)
        BY <2>1, <2>5, <3>1 DEF LiveTxn
      <4>2. x.of \in Rows
        <5>1. x \in Events
          BY <3>1, <1>4, SeenType DEF Inv, InSeq
        <5>2. x.of \in txn[s].new
          BY <1>4, <2>1, <2>5, <3>1 DEF LiveTxn, Grounded
        <5> QED BY <1>5, <5>2 DEF Inv, TypeOK
      <4>3. MatchOf[x.of] \in Chains
        BY <1>4, <2>5, <4>2
      <4>4. CASE \E l \in InSeq(txn[s].events[MatchOf[x.of]]) : l.kind = "linked" /\ l.of = x.leaf
        BY <1>2, <4>3, <4>4 DEF Linked
      <4>5. CASE txn[s].want = Request(MatchOf[x.of], "linked", x.leaf)
        <5>1. request = Request(MatchOf[x.of], "linked", x.leaf)
          BY <1>1, <4>5
        <5>2. request.chain = MatchOf[x.of] /\ request.kind = "linked" /\ request.of = x.leaf
          BY <5>1 DEF Request
        <5>3. c = MatchOf[x.of] /\ e.kind = "linked" /\ e.of = x.leaf
          BY <1>1, <5>2
        <5> QED BY <1>2, <5>3 DEF Linked
      <4> QED BY <4>1, <4>4, <4>5 DEF Linked
    <3>2. CASE x \notin InSeq(txn[s].events[Global])
      <4>1. x = e /\ c = Global
        BY <1>2, <1>4, <2>5, <3>2
      <4>2. txn'[s].want = Request(MatchOf[x.of], "linked", x.leaf)
        BY <1>1, <1>5, <2>5, <4>1 DEF Link
      <4>3. txn'[s].want # None
        <5>1. MatchOf[x.of] \in Orders /\ x.leaf \in Hashes
          BY <1>1, <1>4, <2>5, <4>1 DEF Requests, Events
        <5>2. Request(MatchOf[x.of], "linked", x.leaf) \in Requests
          BY <5>1 DEF Request, Requests, Chains, Kinds, Things
        <5> QED BY <4>2, <5>2, NoneAssumption
      <4> QED BY <4>2, <4>3 DEF Linked
    <3> QED BY <3>1, <3>2
  <2>6. txn'[s].want # None => Grounded(txn'[s], txn'[s].want.chain, txn'[s].want.kind, txn'[s].want.of)
    BY <2>4 DEF Grounded, Request
  <2> QED BY <1>1, <2>1, <2>3, <2>5, <2>6 DEF LiveTxn
<1>6. ASSUME s \in Backfills
      PROVE  FillTxn(txn'[s], fill[s], rows)
  <2>1. FillTxn(txn[s], fill[s], rows)
    BY <1>6 DEF Accounted
  <2>2. txn'[s].want = None
    BY <1>1, <1>6, AnchorAssumption DEF Link
  <2>3. Historic(fill[s], rows, e.kind, e.of)
    BY <1>1, <1>3, <2>1 DEF FillTxn
  <2> QED BY <1>1, <1>2, <2>1, <2>2, <2>3 DEF FillTxn
<1>7. \A t \in Sessions : LiveTxn(txn'[t], rows')
  BY <1>1, <1>5 DEF Accounted, Clients
<1>8. \A b \in Backfills : FillTxn(txn'[b], fill'[b], rows')
  BY <1>1, <1>6 DEF Accounted, Clients
<1>9. Apart'
  BY <1>1 DEF Apart, Accounted, Clients
<1> QED BY <1>1, <1>7, <1>8, <1>9, SameTruth DEF Accounted

LEMMA UndoAccounted ==
    ASSUME Inv, Accounted, NEW s \in Clients, Undo(s)
    PROVE  Accounted'
<1>1. /\ txn'[s] = Fresh /\ \A t \in Clients : t # s => txn'[t] = txn[t]
      /\ UNCHANGED <<rows, status, chain>>
  BY DEF Undo, Ended, Inv, TypeOK
<1>2. \A b \in Backfills : fill'[b] = IF b = s THEN Resting ELSE fill[b]
  BY DEF Undo
<1>3. \A t \in Sessions : LiveTxn(txn'[t], rows')
  BY <1>1, FreshLive DEF Accounted, Clients
<1>4. FillTxn(Fresh, Resting, rows)
  <2>1. Resting.todo \subseteq rows
    BY DEF Resting
  <2> QED BY <2>1, FreshFill
<1>5. \A b \in Backfills : FillTxn(txn'[b], fill'[b], rows')
  BY <1>1, <1>2, <1>4 DEF Accounted, Clients
<1>6. Apart'
  <2>1. Fresh.new = {}
    BY DEF Fresh
  <2> QED BY <1>1, <2>1 DEF Apart, Accounted, Clients
<1> QED BY <1>1, <1>3, <1>5, <1>6, SameTruth DEF Accounted

\* Publishing adds to the chains what the session recorded.
LEMMA PublishGives ==
    ASSUME Inv, NEW s \in Clients, Publish(s)
    PROVE  /\ txn'[s] = Fresh /\ \A t \in Clients : t # s => txn'[t] = txn[t]
           /\ rows' = rows \cup txn[s].new
           /\ \A o \in Orders :
                status'[o] = IF txn[s].moves[o] # None THEN txn[s].moves[o] ELSE status[o]
           /\ \A c \in Chains :
                /\ chain[c] \in Seq(Events) /\ txn[s].events[c] \in Seq(Events)
                /\ chain'[c] = chain[c] \o txn[s].events[c]
                /\ InSeq(chain'[c]) = InSeq(chain[c]) \cup InSeq(txn[s].events[c])
           /\ CommittedSources' = CommittedSources \cup Recorded(s)
<1>1. \A c \in Chains :
        /\ chain[c] \in Seq(Events) /\ txn[s].events[c] \in Seq(Events)
        /\ chain'[c] = chain[c] \o txn[s].events[c]
        /\ InSeq(chain'[c]) = InSeq(chain[c]) \cup InSeq(txn[s].events[c])
  BY SeenType, InConcat DEF Publish, Seen, Inv
<1>2. Sources(chain') = Sources(chain) \cup Sources(txn[s].events)
  <2>1. ASSUME NEW r
        PROVE  r \in Sources(chain') <=> r \in Sources(chain) \/ r \in Sources(txn[s].events)
    <3>1. /\ r \in Sources(chain') <=>
              \E c \in Chains : \E e \in InSeq(chain'[c]) : e.kind = "row" /\ e.of = r
          /\ r \in Sources(chain) <=>
              \E c \in Chains : \E e \in InSeq(chain[c]) : e.kind = "row" /\ e.of = r
          /\ r \in Sources(txn[s].events) <=>
              \E c \in Chains : \E e \in InSeq(txn[s].events[c]) : e.kind = "row" /\ e.of = r
      BY SourcesAre
    <3>2. \A c \in Chains : InSeq(chain'[c]) = InSeq(chain[c]) \cup InSeq(txn[s].events[c])
      BY <1>1
    <3> QED BY <3>1, <3>2
  <2> QED BY <2>1
<1>3. CommittedSources' = CommittedSources \cup Recorded(s)
  BY <1>2 DEF CommittedSources, Recorded, Sources
<1>4. txn'[s] = Fresh /\ \A t \in Clients : t # s => txn'[t] = txn[t]
  BY DEF Publish, Ended, Inv, TypeOK
<1> QED BY <1>1, <1>3, <1>4 DEF Publish, NewStatus

\* The order a committed funding event is linked to has a chain.
LEMMA MatchOfSource ==
    ASSUME Inv, Accounted, NEW e \in InSeq(chain[Global]), e.kind = "row", MatchOf[e.of] # None
    PROVE  MatchOf[e.of] \in Chains
<1>1. Global \in Chains
  BY DEF Chains
<1>2. e.of \in CommittedSources
  BY <1>1 DEF CommittedSources, Anchored
<1>3. e.of \in Rows
  BY <1>2 DEF Accounted, Truthful, Inv, TypeOK
<1> QED BY <1>3, AnchorAssumption DEF Chains

LEMMA CommitAccounted ==
    ASSUME Inv, Accounted, NEW s \in Sessions, Commit(s)
    PROVE  Accounted'
<1>1. /\ txn'[s] = Fresh /\ \A t \in Clients : t # s => txn'[t] = txn[t]
      /\ rows' = rows \cup txn[s].new
      /\ \A o \in Orders :
           status'[o] = IF txn[s].moves[o] # None THEN txn[s].moves[o] ELSE status[o]
      /\ \A c \in Chains :
           /\ chain[c] \in Seq(Events) /\ txn[s].events[c] \in Seq(Events)
           /\ chain'[c] = chain[c] \o txn[s].events[c]
           /\ InSeq(chain'[c]) = InSeq(chain[c]) \cup InSeq(txn[s].events[c])
      /\ CommittedSources' = CommittedSources \cup Recorded(s)
  BY PublishGives DEF Commit, Clients
<1>2. /\ UNCHANGED fill /\ txn[s].want = None
      /\ txn[s].new \subseteq Recorded(s)
      /\ \A o \in Orders : txn[s].moves[o] # None => Told(txn[s].events[o], o) = txn[s].moves[o]
  BY DEF Commit, Overlooked, Bare, Untold
<1>3. LiveTxn(txn[s], rows) /\ txn[s].new \cap rows = {}
  BY DEF Accounted, LiveTxn
<1>4. \A o \in Orders : o \in Chains
  BY DEF Chains
<1>5. \A t \in Sessions : LiveTxn(txn'[t], rows')
  <2> SUFFICES ASSUME NEW t \in Sessions PROVE LiveTxn(txn'[t], rows')
    OBVIOUS
  <2>1. CASE t = s
    BY <1>1, <2>1, FreshLive
  <2>2. CASE t # s
    <3>1. LiveTxn(txn[t], rows) /\ txn[t].new \cap txn[s].new = {}
      BY <2>2 DEF Accounted, Apart
    <3>2. txn[t].new \cap rows' = {} /\ rows \subseteq rows' /\ txn'[t] = txn[t]
      BY <1>1, <2>2, <3>1 DEF LiveTxn, Clients
    <3> QED BY <3>1, <3>2, LiveStays
  <2> QED BY <2>1, <2>2
<1>6. \A b \in Backfills : FillTxn(txn'[b], fill'[b], rows')
  <2> SUFFICES ASSUME NEW b \in Backfills PROVE FillTxn(txn'[b], fill'[b], rows')
    OBVIOUS
  <2>1. b # s /\ b \in Clients
    BY AnchorAssumption DEF Clients
  <2>2. FillTxn(txn[b], fill[b], rows) /\ txn'[b] = txn[b] /\ fill' = fill /\ rows \subseteq rows'
    BY <1>1, <1>2, <2>1 DEF Accounted
  <2> QED BY <2>2, FillStays
<1>7. Apart'
  <2>1. Fresh.new = {}
    BY DEF Fresh
  <2> QED BY <1>1, <2>1 DEF Apart, Accounted, Clients
<1>8. rows' \ Old \subseteq CommittedSources' /\ CommittedSources' \subseteq rows'
  <2>1. Recorded(s) \subseteq txn[s].new
    BY <1>3 DEF LiveTxn, Grounded, Recorded, Anchored
  <2> QED BY <1>1, <1>2, <2>1 DEF Accounted, Truthful
<1>9. FundingLinked'
  <2> SUFFICES ASSUME NEW e \in InSeq(chain'[Global]), e.kind = "row", e.of \notin Old,
                      MatchOf[e.of] # None
               PROVE  \E l \in InSeq(chain'[MatchOf[e.of]]) : l.kind = "linked" /\ l.of = e.leaf
    BY DEF FundingLinked
  <2>1. Global \in Chains
    BY DEF Chains
  <2>3. CASE e \in InSeq(chain[Global])
    <3>1. \E l \in InSeq(chain[MatchOf[e.of]]) : l.kind = "linked" /\ l.of = e.leaf
      BY <2>3 DEF Accounted, Truthful, FundingLinked
    <3>2. MatchOf[e.of] \in Chains
      BY <2>3, MatchOfSource
    <3> QED BY <1>1, <3>1, <3>2
  <2>4. CASE e \in InSeq(txn[s].events[Global])
    <3>1. \E l \in InSeq(txn[s].events[MatchOf[e.of]]) : l.kind = "linked" /\ l.of = e.leaf
      BY <1>2, <1>3, <2>4 DEF LiveTxn, Linked
    <3>2. e.of \in Rows
      <4>1. e.of \in txn[s].new
        BY <1>3, <2>1, <2>4 DEF LiveTxn, Grounded
      <4> QED BY <4>1 DEF Inv, TypeOK, Clients
    <3>3. MatchOf[e.of] \in Chains
      BY <3>2, AnchorAssumption DEF Chains
    <3> QED BY <1>1, <3>1, <3>3
  <2> QED BY <1>1, <2>1, <2>3, <2>4
<1>10. ASSUME NEW o \in Orders
       PROVE  /\ Told(chain'[o], o) \in {status'[o], None}
              /\ o \notin rows' => status'[o] = Initial
              /\ \A e \in InSeq(chain'[o]) : e.kind = "moved" => e.of \in Statuses
  <2>1. /\ Told(chain[o], o) \in {status[o], None}
        /\ o \notin rows => status[o] = Initial
        /\ \A e \in InSeq(chain[o]) : e.kind = "moved" => e.of \in Statuses
    BY DEF Accounted, Truthful
  <2>2. \A e \in InSeq(txn[s].events[o]) : Grounded(txn[s], o, e.kind, e.of)
    BY <1>3, <1>4 DEF LiveTxn
  <2>3. \A e \in InSeq(chain'[o]) : e.kind = "moved" => e.of \in Statuses
    BY <1>1, <1>4, <2>1, <2>2 DEF Grounded
  <2>4. o \notin rows' => status'[o] = Initial
    <3>1. txn[s].moves[o] # None => o \in rows'
      BY <1>1, <1>3 DEF LiveTxn
    <3> QED BY <1>1, <2>1, <3>1
  <2>5. Told(chain'[o], o) \in {status'[o], None}
    <3>1. CASE Told(txn[s].events[o], o) = None /\ Told(chain'[o], o) = Told(chain[o], o)
      <4>1. txn[s].moves[o] = None
        BY <1>2, <3>1
      <4> QED BY <1>1, <2>1, <3>1, <4>1
    <3>2. ASSUME Told(chain'[o], o) = Told(txn[s].events[o], o),
                 NEW e \in InSeq(txn[s].events[o]), Tells(e, o),
                 Told(txn[s].events[o], o) = IF e.kind = "moved" THEN e.of ELSE Initial
          PROVE  Told(chain'[o], o) \in {status'[o], None}
      <4>1. CASE txn[s].moves[o] # None
        BY <1>1, <1>2, <3>2, <4>1
      <4>2. CASE txn[s].moves[o] = None
        <5>1. e.kind # "moved" /\ e.kind = "row" /\ e.of = o
          BY <2>2, <3>2, <4>2 DEF Grounded, Tells
        <5>2. o \notin rows
          BY <1>3, <2>2, <5>1 DEF Grounded
        <5> QED BY <1>1, <2>1, <3>2, <4>2, <5>1, <5>2
      <4> QED BY <4>1, <4>2
    <3>3. /\ chain'[o] = chain[o] \o txn[s].events[o]
          /\ chain[o] \in Seq(Events) /\ txn[s].events[o] \in Seq(Events)
      BY <1>1, <1>4
    <3> QED BY <3>1, <3>2, <3>3, ToldConcat
  <2> QED BY <2>3, <2>4, <2>5
<1>11. Truthful'
  BY <1>8, <1>9, <1>10 DEF Truthful
<1> QED BY <1>5, <1>6, <1>7, <1>11 DEF Accounted

LEMMA FillCommitAccounted ==
    ASSUME Inv, Accounted, NEW b \in Backfills, FillCommit(b)
    PROVE  Accounted'
<1>1. /\ txn'[b] = Fresh /\ \A t \in Clients : t # b => txn'[t] = txn[t]
      /\ rows' = rows \cup txn[b].new
      /\ \A o \in Orders :
           status'[o] = IF txn[b].moves[o] # None THEN txn[b].moves[o] ELSE status[o]
      /\ \A c \in Chains :
           /\ chain[c] \in Seq(Events) /\ txn[b].events[c] \in Seq(Events)
           /\ chain'[c] = chain[c] \o txn[b].events[c]
           /\ InSeq(chain'[c]) = InSeq(chain[c]) \cup InSeq(txn[b].events[c])
      /\ CommittedSources' = CommittedSources \cup Recorded(b)
  BY PublishGives DEF FillCommit, Clients
<1>2. FillTxn(txn[b], fill[b], rows)
  BY DEF Accounted
<1>3. rows' = rows /\ \A o \in Orders : status'[o] = status[o]
  BY <1>1, <1>2 DEF FillTxn
<1>4. /\ \A o \in Orders : o \in Chains /\ Global \in Chains
      /\ Global \in Chains
  BY DEF Chains
<1>5. /\ \A a \in Backfills : a # b => fill'[a] = fill[a]
      /\ fill'[b].todo \subseteq rows
  BY <1>2 DEF FillCommit, Set, Resting, FillTxn, Inv, TypeOK
<1>6. \A s \in Sessions : LiveTxn(txn'[s], rows')
  <2>1. \A s \in Sessions : s # b /\ s \in Clients
    BY AnchorAssumption DEF Clients
  <2> QED BY <1>1, <1>3, <2>1 DEF Accounted
<1>7. \A a \in Backfills : FillTxn(txn'[a], fill'[a], rows')
  BY <1>1, <1>3, <1>5, FreshFill DEF Accounted, Clients
<1>8. Apart'
  <2>1. \A s \in Sessions : s # b /\ s \in Clients
    BY AnchorAssumption DEF Clients
  <2> QED BY <1>1, <2>1 DEF Apart, Accounted
\* A row written since the log exists has its event: a second is refused.
<1>9. ASSUME NEW c \in Chains, NEW e \in InSeq(txn[b].events[c]), e.kind = "row"
      PROVE  e.of \in Old
  <2>1. e.of \in rows
    BY <1>2, <1>9 DEF FillTxn, Historic
  <2>2. e.of \in Recorded(b)
    BY <1>9 DEF Recorded, Anchored
  <2>3. e.of \notin CommittedSources
    BY <2>2 DEF FillCommit, Refused
  <2> QED BY <2>1, <2>3 DEF Accounted, Truthful
<1>10. FundingLinked'
  <2> SUFFICES ASSUME NEW e \in InSeq(chain'[Global]), e.kind = "row", e.of \notin Old,
                      MatchOf[e.of] # None
               PROVE  \E l \in InSeq(chain'[MatchOf[e.of]]) : l.kind = "linked" /\ l.of = e.leaf
    BY DEF FundingLinked
  <2>1. e \in InSeq(chain[Global])
    BY <1>1, <1>4, <1>9
  <2>2. \E l \in InSeq(chain[MatchOf[e.of]]) : l.kind = "linked" /\ l.of = e.leaf
    BY <2>1 DEF Accounted, Truthful, FundingLinked
  <2>3. MatchOf[e.of] \in Chains
    BY <2>1, MatchOfSource
  <2> QED BY <1>1, <2>2, <2>3
<1>11. ASSUME NEW o \in Orders
       PROVE  /\ Told(chain'[o], o) \in {status'[o], None}
              /\ o \notin rows' => status'[o] = Initial
              /\ \A e \in InSeq(chain'[o]) : e.kind = "moved" => e.of \in Statuses
  <2>1. /\ Told(chain[o], o) \in {status[o], None}
        /\ o \notin rows => status[o] = Initial
        /\ \A e \in InSeq(chain[o]) : e.kind = "moved" => e.of \in Statuses
    BY DEF Accounted, Truthful
  <2>2. \A e \in InSeq(txn[b].events[o]) : e.kind # "moved"
    BY <1>2, <1>4 DEF FillTxn, Historic
  <2>3. \A e \in InSeq(txn[b].events[o]) : ~Tells(e, o)
    BY <1>4, <1>9, <2>2 DEF Tells
  <2>4. /\ chain'[o] = chain[o] \o txn[b].events[o]
        /\ chain[o] \in Seq(Events) /\ txn[b].events[o] \in Seq(Events)
    BY <1>1, <1>4
  <2>5. Told(chain'[o], o) = Told(chain[o], o)
    BY <2>3, <2>4, ToldConcat
  <2> QED BY <1>1, <1>3, <1>4, <2>1, <2>2, <2>5
<1>12. Truthful'
  <2>1. Recorded(b) \subseteq rows
    BY <1>2 DEF FillTxn, Historic, Recorded, Anchored
  <2> QED BY <1>1, <1>3, <1>10, <1>11, <2>1 DEF Truthful, Accounted
<1> QED BY <1>6, <1>7, <1>8, <1>12 DEF Accounted

\* A step of a backfill that asks for an event, or only looks at what is committed.
LEMMA FillAccounted ==
    ASSUME Inv, Accounted, NEW b \in Backfills,
           \/ \E resume \in BOOLEAN : FillStart(b, resume)
           \/ FillRead(b) \/ FillRow(b) \/ FillSnapshots(b) \/ FillSnapshot(b) \/ FillClose(b)
    PROVE  Accounted'
<1>0. /\ txn \in [Clients -> TxnType] /\ fill \in [Backfills -> FillType] /\ b \in Clients
      /\ \A c \in Chains : chain[c] \in Seq(Events)
  BY DEF Inv, TypeOK, TxnType, FillType, Clients
<1>1. /\ UNCHANGED <<rows, status, chain>> /\ \A t \in Clients : t # b => txn'[t] = txn[t]
      /\ txn'[b].new = txn[b].new /\ txn'[b].moves = txn[b].moves
      /\ txn'[b].events = txn[b].events
  <2>1. UNCHANGED txn \/ \E request : txn' = [txn EXCEPT ![b].want = request]
    BY DEF FillStart, FillRead, FillRow, FillSnapshots, FillSnapshot, FillClose, Ask
  <2>2. UNCHANGED <<rows, status, chain>>
    BY DEF FillStart, FillRead, FillRow, FillSnapshots, FillSnapshot, FillClose
  <2> QED BY <1>0, <2>1, <2>2 DEF TxnType
<1>3. /\ \A a \in Backfills : a # b => fill'[a] = fill[a]
      /\ fill'[b].todo \subseteq rows
  <2>1. fill[b].todo \subseteq rows
    BY DEF Accounted, FillTxn
  <2>2. \E f : fill' = [fill EXCEPT ![b] = f] /\ f.todo \subseteq rows
    <3>1. CASE \E resume \in BOOLEAN : FillStart(b, resume)
      <4> DEFINE f == [Resting EXCEPT !.phase = "read", !.anchored = CommittedSources]
      <4>1. fill' = [fill EXCEPT ![b] = f] /\ f.todo = {}
        BY <3>1 DEF FillStart, Resting
      <4> QED BY <4>1
    <3>2. CASE FillRead(b) \/ FillSnapshots(b) \/ FillClose(b)
      <4>1. \E phase \in Phases, todo \in SUBSET rows : Set(b, phase, todo, 0)
        BY <3>2 DEF FillRead, FillSnapshots, FillClose, Gaps, Phases
      <4>2. PICK phase \in Phases, todo \in SUBSET rows : Set(b, phase, todo, 0)
        BY <4>1
      <4> DEFINE f == [phase |-> phase, anchored |-> {}, todo |-> todo, written |-> 0]
      <4>3. fill' = [fill EXCEPT ![b] = f] /\ f.todo = todo
        BY <4>2 DEF Set
      <4> QED BY <4>3
    <3>3. CASE FillRow(b) \/ FillSnapshot(b)
      BY <2>1, <3>3 DEF FillRow, FillSnapshot, Set
    <3> QED BY <3>1, <3>2, <3>3
  <2> QED BY <1>0, <2>2
<1>4. FillTxn(txn[b], fill[b], rows)
  BY DEF Accounted
<1>5. /\ fill'[b].phase = "closing" \/ fill[b].phase # "closing"
      /\ txn'[b].want # None => Historic(fill'[b], rows, txn'[b].want.kind, txn'[b].want.of)
  <2>1. CASE \/ \E resume \in BOOLEAN : FillStart(b, resume)
             \/ FillRead(b) \/ FillSnapshots(b)
    <3>1. txn'[b] = txn[b] /\ fill[b].phase # "closing"
      BY <2>1 DEF FillStart, FillRead, FillSnapshots, FillStep
    <3> QED BY <1>4, <3>1 DEF FillTxn, Historic
  <2>2. CASE FillRow(b)
    <3>1. PICK r \in Earliest(b) : Ask(b, RowRequest(r))
      BY <2>2 DEF FillRow
    <3>2. txn'[b].want = RowRequest(r) /\ r \in rows /\ fill[b].phase # "closing"
      BY <1>0, <1>4, <2>2, <3>1 DEF FillRow, FillStep, Ask, TxnType, Earliest, FillTxn
    <3> QED BY <3>2 DEF Historic, RowRequest, Request
  <2>3. CASE FillSnapshot(b)
    <3>1. PICK o : Ask(b, Request(o, "snapshot", None))
      BY <2>3 DEF FillSnapshot
    <3>2. txn'[b].want = Request(o, "snapshot", None) /\ fill[b].phase # "closing"
      BY <1>0, <2>3, <3>1 DEF FillSnapshot, FillStep, Ask, TxnType
    <3> QED BY <3>2 DEF Historic, Request
  <2>4. CASE FillClose(b)
    <3>1. txn'[b].want = Request(Global, "completed", None) /\ fill'[b].phase = "closing"
      BY <1>0, <2>4 DEF FillClose, Set, Ask, TxnType
    <3> QED BY <3>1 DEF Historic, Request
  <2> QED BY <2>1, <2>2, <2>3, <2>4
<1>6. FillTxn(txn'[b], fill'[b], rows)
  <2>1. \A kind, thing : Historic(fill[b], rows, kind, thing) => Historic(fill'[b], rows, kind, thing)
    BY <1>5 DEF Historic
  <2> QED BY <1>1, <1>3, <1>4, <1>5, <2>1 DEF FillTxn
<1>7. \A s \in Sessions : s # b /\ s \in Clients
  BY AnchorAssumption DEF Clients
<1>8. \A s \in Sessions : LiveTxn(txn'[s], rows')
  BY <1>1, <1>7 DEF Accounted
<1>9. \A a \in Backfills : FillTxn(txn'[a], fill'[a], rows')
  BY <1>1, <1>3, <1>6 DEF Accounted, Clients
<1>10. Apart'
  BY <1>1, <1>7 DEF Apart, Accounted
<1> QED BY <1>1, <1>8, <1>9, <1>10, SameTruth DEF Accounted

LEMMA InitAccounted == ASSUME Init PROVE Accounted
<1>1. /\ rows = Old /\ \A s \in Clients : txn[s] = Fresh
      /\ \A b \in Backfills : fill[b] = Resting
      /\ \A c \in Chains : chain[c] = <<>>
      /\ \A o \in Orders : status[o] = Initial
  BY DEF Init
<1>2. /\ InSeq(<<>>) = {} /\ Fresh.new = {} /\ Resting.todo = {}
      /\ \A o : Told(<<>>, o) = None
  BY DEF InSeq, Fresh, Resting, Told
<1>3. \A o \in Orders : o \in Chains /\ Global \in Chains
  BY DEF Chains
<1>4. CommittedSources = {}
  BY <1>1, <1>2 DEF CommittedSources, Anchored
<1>5. FundingLinked
  <2>1. Global \in Chains
    BY DEF Chains
  <2> QED BY <1>1, <1>2, <2>1 DEF FundingLinked
<1>6. Truthful
  BY <1>1, <1>2, <1>3, <1>4, <1>5 DEF Truthful
<1>7. \A s \in Sessions : LiveTxn(txn[s], rows)
  BY <1>1, FreshLive DEF Clients
<1>8. \A b \in Backfills : FillTxn(txn[b], fill[b], rows)
  BY <1>1, <1>2, FreshFill DEF Clients
<1>9. Apart
  BY <1>1, <1>2 DEF Apart, Clients
<1> QED BY <1>6, <1>7, <1>8, <1>9 DEF Accounted

LEMMA SameAccounted ==
    ASSUME Accounted, UNCHANGED vars
    PROVE  Accounted'
<1>1. UNCHANGED <<rows, status, chain, txn, fill>>
  BY DEF vars
<1> QED BY <1>1, SameTruth DEF Accounted, Apart

LEMMA NextAccounted == ASSUME Inv, Accounted, [Next]_vars PROVE Accounted'
<1>1. CASE UNCHANGED vars
  BY <1>1, SameAccounted
<1>2. ASSUME NEW s \in Sessions, Live(s)
      PROVE  Accounted'
  <2>1. CASE GuardOrder(s)
    BY <2>1, UndoAccounted DEF GuardOrder, Clients
  <2> QED BY <1>2, <2>1, WriteAccounted, MoveAccounted, GuardAccounted, CommitAccounted DEF Live
<1>3. ASSUME NEW b \in Backfills, Fill(b)
      PROVE  Accounted'
  BY <1>3, FillAccounted, FillCommitAccounted DEF Fill
<1>4. ASSUME NEW s \in Clients, Record(s) \/ Rollback(s) \/ Deadlock(s) \/ Fail(s)
      PROVE  Accounted'
  BY <1>4, RecordAccounted, UndoAccounted DEF Rollback, Deadlock, Fail
<1> QED BY <1>1, <1>2, <1>3, <1>4 DEF Next

\* The last status an order's chain tells is the order's, also when transitions
\* overlap or forget their hook: no session commits a move it has not told
\* (transitions.py: transition_transaction, recorder.py: _guard_completeness).
THEOREM StatusesTold == Spec => []StatusTold
<1>1. Spec => [](Inv /\ Accounted)
  BY InitInv, NextInv, InitAccounted, NextAccounted, PTL DEF Spec
<1>2. Accounted => StatusTold
  BY DEF Accounted, Truthful, StatusTold
<1> QED BY <1>1, <1>2, PTL

\* A funding event that matches an escrow is linked in its order's chain by the
\* commit that publishes it, since the session's next event is the link
\* (decision D10, recorder.py: record_anchor_event).
THEOREM FundingsLinked == Spec => []FundingLinked
<1>1. Spec => [](Inv /\ Accounted)
  BY InitInv, NextInv, InitAccounted, NextAccounted, PTL DEF Spec
<1>2. Accounted => FundingLinked
  BY DEF Accounted, Truthful
<1> QED BY <1>1, <1>2, PTL

-----------------------------------------------------------------------------
(***************************************************************************)
(* A backfill that reported completion has anchored every older row.       *)
(***************************************************************************)
\* The rows with an event, or with one that the backfill recorded or asks for.
Covered(b) == CommittedSources \cup Recorded(b) \cup {r \in Rows : txn[b].want = RowRequest(r)}

Snapped(b, o) ==
    \/ \E e \in InSeq(chain[o]) \cup InSeq(txn[b].events[o]) : e.kind = "snapshot"
    \/ txn[b].want = Request(o, "snapshot", None)

\* What is left to do is in todo.
Progress(b) ==
    LET f == fill[b] IN
    /\ f.phase = "read" => f.anchored \subseteq CommittedSources
    /\ f.phase = "rows" => Old \subseteq Covered(b) \cup f.todo
    /\ f.phase \in {"snapshots", "closing"} => Old \subseteq Covered(b)
    /\ f.phase = "snapshots" => \A o \in Old \cap Orders : o \in f.todo \/ Snapped(b, o)
    /\ f.phase = "closing" => \A o \in Old \cap Orders : Snapped(b, o)

CompletionIsTrue ==
    Completed =>
      /\ Old \subseteq CommittedSources
      /\ \A o \in Old \cap Orders : \E e \in InSeq(chain[o]) : e.kind = "snapshot"

Advancing == CompletionIsTrue /\ \A b \in Backfills : Progress(b)

LEMMA ProgressStays ==
    ASSUME NEW b \in Backfills, Progress(b), txn'[b] = txn[b], fill'[b] = fill[b],
           CommittedSources \subseteq CommittedSources',
           \A o \in Orders : InSeq(chain[o]) \subseteq InSeq(chain'[o])
    PROVE  Progress(b)'
<1>1. Covered(b) \subseteq Covered(b)'
  BY DEF Covered, Recorded
<1>2. \A o \in Orders : Snapped(b, o) => Snapped(b, o)'
  BY DEF Snapped
<1> QED BY <1>1, <1>2 DEF Progress

LEMMA SameCompletion ==
    ASSUME CompletionIsTrue, UNCHANGED chain
    PROVE  CompletionIsTrue' /\ CommittedSources' = CommittedSources
BY DEF CompletionIsTrue, Completed, CommittedSources

\* A step of another session that commits nothing.
LEMMA AsideAdvancing ==
    ASSUME Advancing, NEW s, UNCHANGED chain,
           \A b \in Backfills : b # s => txn'[b] = txn[b] /\ fill'[b] = fill[b],
           s \in Backfills => Progress(s)'
    PROVE  Advancing'
<1>1. ASSUME NEW b \in Backfills, b # s
      PROVE  Progress(b)'
  BY <1>1, ProgressStays, SameCompletion DEF Advancing
<1> QED BY <1>1, SameCompletion DEF Advancing

LEMMA LiveAdvancing ==
    ASSUME Inv, Advancing, NEW s \in Sessions,
           \/ \E r \in Rows, hooked \in BOOLEAN : Write(s, r, hooked)
           \/ \E o \in Orders, to \in Statuses, hooked \in BOOLEAN : Move(s, o, to, hooked)
           \/ GuardRow(s) \/ GuardMove(s)
    PROVE  Advancing'
<1>1. UNCHANGED <<chain, fill>>
  BY DEF Write, Move, GuardRow, GuardMove
<1>2. \E t : txn' = [txn EXCEPT ![s] = t]
  BY DEF Write, Move, GuardRow, GuardMove, Ask
<1>3. txn \in [Clients -> TxnType]
  BY DEF Inv, TypeOK, TxnType
<1>4. s \notin Backfills /\ \A b \in Backfills : b \in Clients
  BY AnchorAssumption DEF Clients
<1> QED BY <1>1, <1>2, <1>3, <1>4, AsideAdvancing

LEMMA RecordAdvancing ==
    ASSUME Inv, Advancing, NEW s \in Clients, Record(s)
    PROVE  Advancing'
<1>1. PICK c \in Chains, request \in Requests, e \in Events :
        /\ txn[s].want = request /\ c = request.chain
        /\ e.kind = request.kind /\ e.of = request.of
        /\ \A t \in Clients : t # s => txn'[t] = txn[t]
        /\ txn'[s].events[c] = Append(txn[s].events[c], e)
        /\ \A d \in Chains : d # c => txn'[s].events[d] = txn[s].events[d]
        /\ UNCHANGED <<chain, fill>>
  BY RecordGives
<1>2. /\ InSeq(txn'[s].events[c]) = InSeq(txn[s].events[c]) \cup {e}
      /\ \A d \in Chains : d # c => InSeq(txn'[s].events[d]) = InSeq(txn[s].events[d])
  <2>1. txn[s].events[c] \in Seq(Events)
    BY SeenType DEF Inv
  <2> QED BY <1>1, <2>1, InAppend
<1>3. CommittedSources' = CommittedSources
  BY <1>1 DEF CommittedSources
<1>4. ASSUME s \in Backfills
      PROVE  Progress(s)'
  <2>1. \A r : r \in Sources(txn[s].events) => r \in Sources(txn'[s].events)
    <3> SUFFICES ASSUME NEW r, NEW d \in Chains, NEW x \in InSeq(txn[s].events[d]),
                        x.kind = "row", x.of = r
                 PROVE  r \in Sources(txn'[s].events)
      BY SourcesAre
    <3>1. x \in InSeq(txn'[s].events[d])
      BY <1>2
    <3> QED BY <3>1, SourcesAre
  <2>2. e.kind = "row" => e.of \in Sources(txn'[s].events)
    BY <1>2, SourcesAre
  <2>3. ASSUME NEW r \in Rows, txn[s].want = RowRequest(r)
        PROVE  r \in Sources(txn'[s].events)
    <3>1. e.kind = "row" /\ e.of = r
      BY <1>1, <2>3 DEF RowRequest, Request
    <3> QED BY <2>2, <3>1
  <2>4. Recorded(s) = Sources(txn[s].events) /\ Recorded(s)' = Sources(txn'[s].events)
    BY DEF Recorded, Sources
  <2>5. Covered(s) \subseteq Covered(s)'
    BY <1>3, <2>1, <2>3, <2>4 DEF Covered
  <2>6. ASSUME NEW o \in Orders, Snapped(s, o)
        PROVE  Snapped(s, o)'
    <3>1. o \in Chains
      BY DEF Chains
    <3>2. CASE txn[s].want = Request(o, "snapshot", None)
      <4>1. c = o /\ e.kind = "snapshot"
        BY <1>1, <3>2 DEF Request
      <4> QED BY <1>2, <4>1 DEF Snapped
    <3>3. CASE \E x \in InSeq(chain[o]) \cup InSeq(txn[s].events[o]) : x.kind = "snapshot"
      BY <1>1, <1>2, <3>1, <3>3 DEF Snapped
    <3> QED BY <2>6, <3>2, <3>3 DEF Snapped
  <2>7. Progress(s) /\ fill' = fill
    BY <1>1, <1>4 DEF Advancing
  <2> QED BY <1>3, <2>5, <2>6, <2>7 DEF Progress
<1> QED BY <1>1, <1>4, AsideAdvancing DEF Clients

LEMMA UndoAdvancing ==
    ASSUME Inv, Advancing, NEW s \in Clients, Undo(s)
    PROVE  Advancing'
<1>1. /\ \A b \in Backfills : b # s => txn'[b] = txn[b]
      /\ \A b \in Backfills : fill'[b] = IF b = s THEN Resting ELSE fill[b]
      /\ UNCHANGED chain
  BY DEF Undo, Inv, TypeOK, Clients
<1>2. s \in Backfills => Progress(s)'
  <2>1. Resting.phase = "idle"
    BY DEF Resting
  <2> QED BY <1>1, <2>1 DEF Progress
<1> QED BY <1>1, <1>2, AsideAdvancing

\* A commit adds to the chains; it completes nothing unless a backfill does.
LEMMA PublishAdvancing ==
    ASSUME Inv, Advancing, NEW s \in Clients, Publish(s),
           \A b \in Backfills : b # s => fill'[b] = fill[b],
           s \in Backfills => Progress(s)',
           (\E e \in InSeq(txn[s].events[Global]) : e.kind = "completed") => CompletionIsTrue'
    PROVE  Advancing'
<1>1. /\ \A t \in Clients : t # s => txn'[t] = txn[t]
      /\ \A c \in Chains : InSeq(chain'[c]) = InSeq(chain[c]) \cup InSeq(txn[s].events[c])
      /\ CommittedSources \subseteq CommittedSources'
  BY PublishGives
<1>2. \A o \in Orders : o \in Chains /\ InSeq(chain[o]) \subseteq InSeq(chain'[o])
  BY <1>1 DEF Chains
<1>3. ASSUME NEW b \in Backfills
      PROVE  Progress(b)'
  BY <1>1, <1>2, ProgressStays DEF Advancing, Clients
<1>4. CompletionIsTrue'
  <2>1. Global \in Chains
    BY DEF Chains
  <2>2. Completed' => Completed \/ \E e \in InSeq(txn[s].events[Global]) : e.kind = "completed"
    BY <1>1, <2>1 DEF Completed
  <2>3. Completed => CompletionIsTrue'
    BY <1>1, <1>2 DEF Advancing, CompletionIsTrue
  <2> QED BY <2>2, <2>3 DEF CompletionIsTrue
<1> QED BY <1>3, <1>4 DEF Advancing

LEMMA CommitAdvancing ==
    ASSUME Inv, Accounted, Advancing, NEW s \in Sessions, Commit(s)
    PROVE  Advancing'
<1>1. s \in Clients /\ s \notin Backfills /\ Global \in Chains
  BY AnchorAssumption DEF Clients, Chains
<1>2. \A e \in InSeq(txn[s].events[Global]) : e.kind # "completed"
  BY <1>1 DEF Accounted, LiveTxn, Grounded
<1> QED BY <1>1, <1>2, PublishAdvancing DEF Commit

LEMMA FillCommitAdvancing ==
    ASSUME Inv, Accounted, Advancing, NEW b \in Backfills, FillCommit(b)
    PROVE  Advancing'
<1>1. /\ txn[b].want = None /\ b \in Clients /\ Global \in Chains
      /\ fill \in [Backfills -> FillType] /\ Publish(b)
  BY DEF FillCommit, Clients, Chains, Inv, TypeOK, FillType
<1>2. /\ \A c \in Chains : InSeq(chain'[c]) = InSeq(chain[c]) \cup InSeq(txn[b].events[c])
      /\ CommittedSources' = CommittedSources \cup Recorded(b)
  BY <1>1, PublishGives
<1>3. Covered(b) \subseteq CommittedSources'
  <2>1. \A r \in Rows : txn[b].want # RowRequest(r)
    BY <1>1, RowRequestType, NoneAssumption
  <2> QED BY <1>2, <2>1 DEF Covered
<1>4. ASSUME NEW o \in Orders, Snapped(b, o)
      PROVE  \E e \in InSeq(chain'[o]) : e.kind = "snapshot"
  <2>1. txn[b].want # Request(o, "snapshot", None)
    <3>1. Request(o, "snapshot", None) \in Requests
      BY DEF Request, Requests, Chains, Kinds, Things
    <3> QED BY <1>1, <3>1, NoneAssumption
  <2> QED BY <1>2, <1>4, <2>1 DEF Snapped, Chains
<1>5. Progress(b)
  BY DEF Advancing
<1>6. Progress(b)'
  <2>1. CommittedSources' \subseteq Covered(b)'
    BY DEF Covered
  <2>2. \A o \in Orders : Snapped(b, o) => Snapped(b, o)'
    BY <1>4 DEF Snapped
  <2>3. CASE Set(b, fill[b].phase, fill[b].todo, 0)
    <3>1. fill'[b].phase = fill[b].phase /\ fill'[b].todo = fill[b].todo /\ fill'[b].anchored = {}
      BY <1>1, <2>3 DEF Set
    <3> QED BY <1>3, <1>5, <2>1, <2>2, <3>1 DEF Progress
  <2>4. CASE fill' = [fill EXCEPT ![b] = Resting]
    <3>1. fill'[b].phase = "idle"
      BY <1>1, <2>4 DEF Resting
    <3> QED BY <3>1 DEF Progress
  <2> QED BY <2>3, <2>4 DEF FillCommit
<1>7. \A a \in Backfills : a # b => fill'[a] = fill[a]
  BY <1>1 DEF FillCommit, Set
<1>8. ASSUME NEW e \in InSeq(txn[b].events[Global]), e.kind = "completed"
      PROVE  CompletionIsTrue'
  <2>1. fill[b].phase = "closing"
    BY <1>1, <1>8 DEF Accounted, FillTxn, Historic
  <2>2. Old \subseteq CommittedSources'
    BY <1>3, <1>5, <2>1 DEF Progress
  <2>3. \A o \in Old \cap Orders : \E x \in InSeq(chain'[o]) : x.kind = "snapshot"
    BY <1>4, <1>5, <2>1 DEF Progress
  <2> QED BY <2>2, <2>3 DEF CompletionIsTrue
<1> QED BY <1>1, <1>6, <1>7, <1>8, PublishAdvancing

LEMMA FillAdvancing ==
    ASSUME Inv, Advancing, NEW b \in Backfills,
           \/ \E resume \in BOOLEAN : FillStart(b, resume)
           \/ FillRead(b) \/ FillRow(b) \/ FillSnapshots(b) \/ FillSnapshot(b) \/ FillClose(b)
    PROVE  Advancing'
<1>1. /\ txn \in [Clients -> TxnType] /\ fill \in [Backfills -> FillType] /\ b \in Clients
      /\ Old \subseteq rows /\ rows \subseteq Rows
  BY DEF Inv, TypeOK, TxnType, FillType, Clients
<1>2. UNCHANGED <<rows, chain>> /\ \A a \in Backfills : a # b => txn'[a] = txn[a] /\ fill'[a] = fill[a]
  <2>1. UNCHANGED txn \/ \E request : txn' = [txn EXCEPT ![b].want = request]
    BY DEF FillStart, FillRead, FillRow, FillSnapshots, FillSnapshot, FillClose, Ask
  <2>2. \A a \in Backfills : a # b => fill'[a] = fill[a]
    BY <1>1 DEF FillStart, FillRead, FillRow, FillSnapshots, FillSnapshot, FillClose, Set
  <2> QED BY <1>1, <2>1, <2>2
       DEF FillStart, FillRead, FillRow, FillSnapshots, FillSnapshot, FillClose, Clients
<1>3. Progress(b) /\ CommittedSources' = CommittedSources
  BY <1>2, SameCompletion DEF Advancing
<1>4. txn[b].want = None =>
        /\ Covered(b) = CommittedSources \cup Recorded(b)
        /\ \A o \in Orders : Snapped(b, o) =>
             \E e \in InSeq(chain[o]) \cup InSeq(txn[b].events[o]) : e.kind = "snapshot"
  <2>1. \A r \in Rows : RowRequest(r) # None
    BY RowRequestType, NoneAssumption
  <2>2. \A o \in Orders : Request(o, "snapshot", None) # None
    <3>1. \A o \in Orders : Request(o, "snapshot", None) \in Requests
      BY DEF Request, Requests, Chains, Kinds, Things
    <3> QED BY <3>1, NoneAssumption
  <2> QED BY <2>1, <2>2 DEF Covered, Snapped
<1>5. Progress(b)'
  <2>1. CASE \E resume \in BOOLEAN : FillStart(b, resume)
    <3>1. fill'[b].phase = "read" /\ fill'[b].anchored = CommittedSources
      BY <1>1, <2>1 DEF FillStart, Resting
    <3> QED BY <1>3, <3>1 DEF Progress
  <2>2. CASE FillRead(b)
    <3>1. /\ fill'[b].phase = "rows" /\ fill'[b].todo = rows \ fill[b].anchored
          /\ fill[b].anchored \subseteq CommittedSources
      BY <1>1, <1>3, <2>2 DEF FillRead, Set, Gaps, Progress
    <3>2. CommittedSources \subseteq Covered(b)'
      BY <1>3 DEF Covered
    <3> QED BY <1>1, <3>1, <3>2 DEF Progress
  <2>3. CASE FillRow(b)
    <3>1. PICK r \in Earliest(b) : /\ Ask(b, RowRequest(r))
                                   /\ Set(b, "rows", fill[b].todo \ {r}, fill[b].written + 1)
      BY <2>3 DEF FillRow
    <3>2. r \in Rows
      BY <1>1, <3>1 DEF Earliest, FillType
    <3>3. /\ fill'[b].phase = "rows" /\ fill'[b].todo = fill[b].todo \ {r}
          /\ txn'[b].want = RowRequest(r) /\ txn'[b].events = txn[b].events
      BY <1>1, <3>1 DEF Set, Ask, TxnType
    <3>4. Old \subseteq CommittedSources \cup Recorded(b) \cup fill[b].todo
      BY <1>3, <1>4, <2>3 DEF FillRow, FillStep, Progress
    <3>5. CommittedSources \cup Recorded(b) \cup {r} \subseteq Covered(b)'
      BY <1>3, <3>2, <3>3 DEF Covered, Recorded
    <3> QED BY <3>3, <3>4, <3>5 DEF Progress
  <2>4. CASE FillSnapshots(b)
    <3>1. /\ fill'[b].phase = "snapshots" /\ fill'[b].todo = rows \cap Orders /\ txn' = txn
          /\ fill[b].phase = "rows" /\ fill[b].todo = {}
      BY <1>1, <2>4 DEF FillSnapshots, FillStep, Set
    <3>2. Covered(b)' = Covered(b)
      BY <1>3, <3>1 DEF Covered, Recorded
    <3> QED BY <1>1, <1>3, <3>1, <3>2 DEF Progress
  <2>5. CASE FillSnapshot(b)
    <3>1. PICK o \in Earliest(b) : /\ Ask(b, Request(o, "snapshot", None))
                                   /\ Set(b, "snapshots", fill[b].todo \ {o}, fill[b].written + 1)
      BY <2>5 DEF FillSnapshot
    <3>2. /\ fill'[b].phase = "snapshots" /\ fill'[b].todo = fill[b].todo \ {o}
          /\ txn'[b].want = Request(o, "snapshot", None) /\ txn'[b].events = txn[b].events
          /\ fill[b].phase = "snapshots" /\ txn[b].want = None
      BY <1>1, <2>5, <3>1 DEF Set, Ask, TxnType, FillSnapshot, FillStep
    <3>3. Covered(b) \subseteq Covered(b)'
      BY <1>3, <1>4, <3>2 DEF Covered, Recorded
    <3>4. \A p \in Orders : Snapped(b, p) => Snapped(b, p)'
      BY <1>2, <1>4, <3>2 DEF Snapped
    <3>5. Snapped(b, o)'
      BY <3>2 DEF Snapped
    <3> QED BY <1>3, <3>2, <3>3, <3>4, <3>5 DEF Progress
  <2>6. CASE FillClose(b)
    <3>1. /\ fill'[b].phase = "closing" /\ txn'[b].events = txn[b].events
          /\ fill[b].phase = "snapshots" /\ fill[b].todo = {} /\ txn[b].want = None
      BY <1>1, <2>6 DEF Set, Ask, TxnType, FillClose, FillStep
    <3>2. Covered(b) \subseteq Covered(b)'
      BY <1>3, <1>4, <3>1 DEF Covered, Recorded
    <3>3. \A p \in Orders : Snapped(b, p) => Snapped(b, p)'
      BY <1>2, <1>4, <3>1 DEF Snapped
    <3> QED BY <1>3, <3>1, <3>2, <3>3 DEF Progress
  <2> QED BY <2>1, <2>2, <2>3, <2>4, <2>5, <2>6
<1> QED BY <1>2, <1>5, AsideAdvancing

LEMMA InitAdvancing == ASSUME Init PROVE Advancing
<1>1. CompletionIsTrue
  <2>1. chain[Global] = <<>>
    BY DEF Init, Chains
  <2> QED BY <2>1 DEF CompletionIsTrue, Completed, InSeq
<1>2. \A b \in Backfills : fill[b].phase = "idle"
  BY DEF Init, Resting
<1> QED BY <1>1, <1>2 DEF Advancing, Progress

LEMMA NextAdvancing == ASSUME Inv, Accounted, Advancing, [Next]_vars PROVE Advancing'
<1>1. CASE UNCHANGED vars
  <2>1. UNCHANGED <<chain, txn, fill>>
    BY <1>1 DEF vars
  <2>2. \A b \in Backfills : Progress(b)'
    BY <2>1, ProgressStays, SameCompletion DEF Advancing
  <2> QED BY <2>1, <2>2, SameCompletion DEF Advancing
<1>2. ASSUME NEW s \in Sessions, Live(s)
      PROVE  Advancing'
  <2>1. CASE GuardOrder(s)
    BY <2>1, UndoAdvancing DEF GuardOrder, Clients
  <2> QED BY <1>2, <2>1, LiveAdvancing, CommitAdvancing DEF Live
<1>3. ASSUME NEW b \in Backfills, Fill(b)
      PROVE  Advancing'
  BY <1>3, FillAdvancing, FillCommitAdvancing DEF Fill
<1>4. ASSUME NEW s \in Clients, Record(s) \/ Rollback(s) \/ Deadlock(s) \/ Fail(s)
      PROVE  Advancing'
  BY <1>4, RecordAdvancing, UndoAdvancing DEF Rollback, Deadlock, Fail
<1> QED BY <1>1, <1>2, <1>3, <1>4 DEF Next

\* Every row written since the log exists has its event, whichever hook was
\* forgotten, and a backfill that reported completion has anchored each older
\* row and taken each older order's snapshot, though it ran beside live sessions
\* and may have died and been started again (recorder.py, backfill.py).
THEOREM EveryRowAnchored == Spec => []RowsAnchored
<1>1. Spec => [](Inv /\ Accounted /\ Advancing)
  BY InitInv, NextInv, InitAccounted, NextAccounted, InitAdvancing, NextAdvancing, PTL DEF Spec
<1>2. Accounted /\ Advancing => RowsAnchored
  BY DEF Accounted, Truthful, Advancing, CompletionIsTrue, RowsAnchored
<1> QED BY <1>1, <1>2, PTL
=============================================================================
