---------------------------- MODULE PayoutProofs ----------------------------
(***************************************************************************)
(* Proofs about PayoutExecutor, for every set of executors, escrows and    *)
(* attempts, every batch size and every behaviour of the rails: columns    *)
(* and sessions keep their types; the ledger has a payout at most once,    *)
(* has it when the attempt succeeded, and only if the rail got it; it      *)
(* moves no more out of an escrow than was booked in; without overlap and  *)
(* death of sessions it agrees with the escrow's counters; and it keeps    *)
(* the account that EscrowAccount promises.                                *)
(***************************************************************************)
EXTENDS PayoutExecutor, TLAPS

\* A session that is past its call to the rail has an attempt in hand.
InHand == \A x \in Executors :
    run[x].step \in {"record", "key", "post"} => run[x].at \in Attempts

TypeInv == TypeOK /\ InHand

\* From Record to the commit the attempt's row is locked, and what the look-up
\* of the ledger key found stays true.
KeyHeld == \A x \in Executors :
    /\ run[x].step \in {"key", "post"} => holder[run[x].at] = x
    /\ run[x].step = "post" => (run[x].fresh <=> posted[run[x].at] = 0)

\* A success about to be written is posted, or is the one being posted.
WriteCovered == \A x \in Executors : \A a \in Attempts :
    run[x].write[a].outcome = "succeeded" =>
        posted[a] = 1 \/ (run[x].step \in {"key", "post"} /\ run[x].at = a)

Safe    == PostedOnce /\ KeyHeld /\ WriteCovered /\ SucceededIsPosted
PostInv == TypeInv /\ Safe
-----------------------------------------------------------------------------
(***************************************************************************)
(* Types.                                                                  *)
(***************************************************************************)
LEMMA IdleType == Idle \in Session
BY DEF Idle, Session, Steps, Results, NoWrite, Write, NotRead, Book, Counters, NoAttempt

LEMMA InitType == Init => TypeInv
<1> SUFFICES ASSUME Init PROVE TypeInv
  OBVIOUS
<1>1. disturbed \in BOOLEAN
  BY DEF Init
<1>2. TypeOK
  BY <1>1, IdleType DEF Init, TypeOK, Outcomes, Counters, AtRail
<1>3. InHand
  BY DEF Init, InHand, Idle
<1> QED BY <1>2, <1>3 DEF TypeInv

\* Whatever a rail answers, the session knows what to make of it.
LEMMA ReplyType ==
    ASSUME TypeOK, NEW x \in Executors, NEW a \in Attempts, NEW reply \in Replies(x, a)
    PROVE  reply.rail \in AtRail /\ reply.result \in Results /\ reply.gotRef \in BOOLEAN
<1> DEFINE Good == \E r \in AtRail, res \in Results, got \in BOOLEAN : reply = Reply(r, res, got)
<1>1. rail[a] \in AtRail /\ Told(rail[a]) \in Results
  BY DEF TypeOK, Told, Results
<1>2. ASSUME reply \in KeyedRequest(a) PROVE Good
  <2>1. CASE reply \in Unclear(a)
    <3>1. PICK r \in IF rail[a] = "none" THEN AtRail ELSE {rail[a]}, got \in BOOLEAN :
            reply = Reply(r, "unknown", got)
      BY <2>1 DEF Unclear
    <3> QED BY <1>1, <3>1 DEF Results
  <2>2. CASE reply \in KeyedAnswer(a)
    <3>1. CASE rail[a] = "none"
      BY <2>2, <3>1 DEF KeyedAnswer, AtRail, Results
    <3>2. CASE rail[a] = "refused"
      BY <2>2, <3>2 DEF KeyedAnswer, AtRail, Results
    <3>3. CASE rail[a] \notin {"none", "refused"}
      BY <1>1, <2>2, <3>3 DEF KeyedAnswer, Results
    <3> QED BY <3>1, <3>2, <3>3
  <2> QED BY <1>2, <2>1, <2>2 DEF KeyedRequest
<1>3. ASSUME reply \in KeyedInquiry(a) PROVE Good
  BY <1>1, <1>3 DEF KeyedInquiry, Results
<1>4. ASSUME reply \in WholeRequest(a) PROVE Good
  <2>1. CASE \E b \in Siblings(a) : rail[b] = "paid"
    BY <1>1, <1>4, <2>1 DEF WholeRequest, Results
  <2>2. CASE ~\E b \in Siblings(a) : rail[b] = "paid"
    <3>1. CASE \E b \in Siblings(a) : rail[b] = "pending"
      BY <1>1, <1>4, <2>2, <3>1 DEF WholeRequest, Results
    <3>2. CASE ~\E b \in Siblings(a) : rail[b] = "pending"
      BY <1>1, <1>4, <2>2, <3>2 DEF WholeRequest, Results, AtRail
    <3> QED BY <3>1, <3>2
  <2> QED BY <2>1, <2>2
<1>5. ASSUME reply \in WholeInquiry(a) PROVE Good
  <2>1. CASE \E b \in Siblings(a) : rail[b] = "paid"
    BY <1>1, <1>5, <2>1 DEF WholeInquiry, Results
  <2>2. CASE ~\E b \in Siblings(a) : rail[b] = "paid"
    BY <1>1, <1>5, <2>2 DEF WholeInquiry, Results
  <2> QED BY <2>1, <2>2
<1>6. Good
  BY <1>2, <1>3, <1>4, <1>5, Zenon DEF Replies
<1> QED BY <1>6 DEF Reply

LEMMA LoadedType ==
    ASSUME TypeOK, NEW x \in Executors, NEW e \in Escrows
    PROVE  Loaded(x, e) \in Book
BY DEF TypeOK, Session, Loaded, Book

\* A commit writes values of the columns' types.
LEMMA CommitType ==
    ASSUME TypeOK, NEW x \in Executors, CommitWrites(x)
    PROVE  /\ outcome' \in [Attempts -> Outcomes]
           /\ ref' \in [Attempts -> BOOLEAN]
           /\ old' \in [Attempts -> BOOLEAN]
           /\ holder' \in [Attempts -> Executors \cup {NoExecutor}]
           /\ paidOut' \in [Escrows -> Counters]
<1>1. /\ run[x].write \in [Attempts -> Write]
      /\ run[x].book \in [Escrows -> Book]
  BY DEF TypeOK, Session
<1>2. outcome' \in [Attempts -> Outcomes]
  BY <1>1 DEF TypeOK, CommitWrites, Write, Outcomes
<1>3. ref' \in [Attempts -> BOOLEAN]
  BY DEF CommitWrites
<1>4. old' \in [Attempts -> BOOLEAN]
  BY DEF CommitWrites
<1>5. holder' \in [Attempts -> Executors \cup {NoExecutor}]
  BY DEF TypeOK, CommitWrites
<1>6. \A e \in Escrows : CountersOf(x, e) \in Counters
  BY <1>1 DEF TypeOK, CountersOf, Counters, Book
<1>7. paidOut' \in [Escrows -> Counters]
  BY <1>6 DEF CommitWrites
<1> QED BY <1>2, <1>3, <1>4, <1>5, <1>7

\* A step of one session that keeps the session's type keeps InHand if that
\* session has an attempt in hand or none to work on.
LEMMA SessionStep ==
    ASSUME TypeInv, NEW x \in Executors, NEW r \in Session,
           Becomes(x, r),
           r.step \in {"record", "key", "post"} => r.at \in Attempts
    PROVE  run' \in [Executors -> Session] /\ InHand'
BY DEF TypeInv, TypeOK, InHand, Becomes

\* A session's columns, and what may be put in their place.
LEMMA SessionFields ==
    ASSUME NEW r \in Session
    PROVE  /\ r.step \in Steps /\ r.todo \in SUBSET Attempts
           /\ r.at \in Attempts \cup {NoAttempt} /\ r.known \in SUBSET Attempts
           /\ r.result \in Results /\ r.gotRef \in BOOLEAN /\ r.fresh \in BOOLEAN
           /\ r.write \in [Attempts -> Write] /\ r.book \in [Escrows -> Book]
           /\ r.raised \in SUBSET (Escrows \X Kinds)
BY DEF Session

\* The session after a call to the rail, and after a piece of its work.
LEMMA SessionAsked ==
    ASSUME NEW r \in Session, NEW at \in Attempts, NEW result \in Results,
           NEW got \in BOOLEAN, NEW book \in [Escrows -> Book]
    PROVE  [r EXCEPT !.step = "record", !.at = at, !.result = result,
                     !.gotRef = got, !.book = book] \in Session
BY DEF Session, Steps

LEMMA SessionWorked ==
    ASSUME NEW r \in Session, NEW todo \in SUBSET Attempts,
           NEW write \in [Attempts -> Write], NEW book \in [Escrows -> Book]
    PROVE  [r EXCEPT !.todo = todo, !.write = write, !.book = book] \in Session
BY DEF Session

LEMMA SessionRecorded ==
    ASSUME NEW r \in Session, NEW step \in {"key", "next"}, NEW todo \in SUBSET Attempts,
           NEW write \in [Attempts -> Write]
    PROVE  [r EXCEPT !.step = step, !.todo = todo, !.write = write] \in Session
BY DEF Session, Steps

LEMMA SessionPosted ==
    ASSUME NEW r \in Session, NEW raised \in SUBSET (Escrows \X Kinds)
    PROVE  [r EXCEPT !.step = "next", !.raised = raised] \in Session
BY DEF Session, Steps

LEMMA SessionOf ==
    ASSUME TypeInv, NEW x \in Executors
    PROVE  run[x] \in Session
BY DEF TypeInv, TypeOK

LEMMA ClaimType ==
    ASSUME TypeInv, NEW x \in Executors, Claim(x)
    PROVE  TypeInv'
<1> DEFINE claimed == Oldest({a \in Attempts : outcome[a] = "unknown" /\ holder[a] = NoExecutor})
           r == [Idle EXCEPT !.step = "next", !.todo = claimed,
                             !.known = {a \in claimed : ref[a]}]
<1>1. claimed \subseteq Attempts
  BY DEF Oldest
<1>2. r \in Session /\ r.step = "next"
  BY <1>1, IdleType DEF Session, Steps, Idle
<1>3. Becomes(x, r) /\ UNCHANGED <<db, rail, alerted>>
  BY DEF Claim
<1>4. run' \in [Executors -> Session] /\ InHand'
  BY <1>2, <1>3, SessionStep
<1>5. holder' \in [Attempts -> Executors \cup {NoExecutor}]
  BY DEF Claim, TypeInv, TypeOK
<1>6. disturbed' \in BOOLEAN
  BY DEF Claim, TypeInv, TypeOK
<1> QED BY <1>3, <1>4, <1>5, <1>6 DEF TypeInv, TypeOK, db

LEMMA AskType ==
    ASSUME TypeInv, NEW x \in Executors, NEW a \in Attempts, Ask(x, a)
    PROVE  TypeInv'
<1> DEFINE e == EscrowOf[a]
<1>1. PICK reply \in Replies(x, a) :
        /\ rail' = [rail EXCEPT ![a] = reply.rail]
        /\ Becomes(x, [run[x] EXCEPT !.step = "record", !.at = a,
                                     !.result = reply.result,
                                     !.gotRef = reply.gotRef,
                                     !.book[e] = Loaded(x, e)])
  BY DEF Ask
<1>2. reply.rail \in AtRail /\ reply.result \in Results /\ reply.gotRef \in BOOLEAN
  BY ReplyType DEF TypeInv
<1>3. e \in Escrows /\ Loaded(x, e) \in Book
  BY PayoutAssumption, LoadedType DEF TypeInv
<1> DEFINE r == [run[x] EXCEPT !.step = "record", !.at = a, !.result = reply.result,
                               !.gotRef = reply.gotRef, !.book[e] = Loaded(x, e)]
<1>4. r \in Session /\ r.at \in Attempts
  <2> DEFINE book == [run[x].book EXCEPT ![e] = Loaded(x, e)]
  <2>1. book \in [Escrows -> Book]
    BY <1>3, SessionOf, SessionFields
  <2>2. r = [run[x] EXCEPT !.step = "record", !.at = a, !.result = reply.result,
                           !.gotRef = reply.gotRef, !.book = book]
    OBVIOUS
  <2>3. run[x] \in Session
    BY SessionOf
  <2> HIDE DEF book, r
  <2>4. r \in Session
    BY <1>2, <2>1, <2>2, <2>3, SessionAsked
  <2>5. r.at = a
    BY <2>2, <2>3 DEF Session
  <2> QED BY <2>4, <2>5
<1>5. Becomes(x, r)
  BY <1>1
<1>6. run' \in [Executors -> Session] /\ InHand'
  BY <1>4, <1>5, SessionStep
<1> QED BY <1>1, <1>2, <1>6 DEF Ask, TypeInv, TypeOK, db

LEMMA RailUnavailableType ==
    ASSUME TypeInv, NEW x \in Executors, NEW a \in Attempts, RailUnavailable(x, a)
    PROVE  TypeInv'
<1> DEFINE e == EscrowOf[a]
           r == [run[x] EXCEPT !.todo = @ \ {a}, !.write[a].tried = TRUE,
                               !.book[e] = Loaded(x, e)]
<1>1. e \in Escrows /\ Loaded(x, e) \in Book
  BY PayoutAssumption, LoadedType DEF TypeInv
<1>2. [run[x].write EXCEPT ![a].tried = TRUE] \in [Attempts -> Write]
  <2>1. run[x].write \in [Attempts -> Write]
    BY SessionOf, SessionFields
  <2>2. [run[x].write[a] EXCEPT !.tried = TRUE] \in Write
    BY <2>1 DEF Write
  <2> QED BY <2>1, <2>2
<1>3. r \in Session /\ r.step = "next"
  <2>1. [run[x].book EXCEPT ![e] = Loaded(x, e)] \in [Escrows -> Book]
    BY <1>1, SessionOf, SessionFields
  <2> DEFINE book  == [run[x].book EXCEPT ![e] = Loaded(x, e)]
             write == [run[x].write EXCEPT ![a].tried = TRUE]
  <2>2. r = [run[x] EXCEPT !.todo = @ \ {a}, !.write = write, !.book = book]
    OBVIOUS
  <2>3. book \in [Escrows -> Book] /\ write \in [Attempts -> Write]
    BY <1>2, <2>1
  <2>4. run[x].step = "next"
    BY DEF RailUnavailable, Turn
  <2> DEFINE todo == run[x].todo \ {a}
  <2>5. todo \in SUBSET Attempts /\ run[x] \in Session
    BY SessionOf, SessionFields
  <2>6. r = [run[x] EXCEPT !.todo = todo, !.write = write, !.book = book]
    BY <2>2
  <2> HIDE DEF book, write, todo, r
  <2>7. r \in Session
    BY <2>3, <2>5, <2>6, SessionWorked
  <2> QED BY <2>4, <2>5, <2>6, <2>7 DEF Session
<1>4. Becomes(x, r)
  BY DEF RailUnavailable
<1>5. run' \in [Executors -> Session] /\ InHand'
  BY <1>3, <1>4, SessionStep
<1> QED BY <1>5 DEF RailUnavailable, TypeInv, TypeOK, db

LEMMA RecordType ==
    ASSUME TypeInv, NEW x \in Executors, Record(x)
    PROVE  TypeInv'
<1> DEFINE a     == run[x].at
           short == run[x].result = "succeeded" /\ Short(run[x].book[EscrowOf[a]], a)
           w     == [outcome |-> IF short THEN "unknown" ELSE Changed(run[x].result),
                     ref |-> run[x].gotRef, tried |-> TRUE]
           r     == IF run[x].result = "succeeded" /\ ~short
                    THEN [run[x] EXCEPT !.write[a] = w, !.step = "key"]
                    ELSE [run[x] EXCEPT !.write[a] = w, !.step = "next", !.todo = @ \ {a}]
<1>1. a \in Attempts
  BY DEF TypeInv, InHand, Record
<1>2. w \in Write
  BY SessionOf, SessionFields DEF Write, Results, Changed
<1>3. r \in Session /\ r.at = a
  <2>1. [run[x].write EXCEPT ![a] = w] \in [Attempts -> Write]
    BY <1>2, SessionOf, SessionFields
  <2> DEFINE write == [run[x].write EXCEPT ![a] = w]
             kept  == [run[x] EXCEPT !.step = "key", !.todo = @, !.write = write]
             done  == [run[x] EXCEPT !.step = "next", !.todo = @ \ {a}, !.write = write]
  <2>2. r \in {kept, done}
    <3>1. run[x] \in Session
      BY SessionOf
    <3>2. kept = [run[x] EXCEPT !.step = "key", !.write = write]
      BY <3>1 DEF Session
    <3> HIDE DEF short
    <3> QED BY <3>2
  <2>3. /\ run[x] \in Session /\ run[x].todo \in SUBSET Attempts
        /\ run[x].todo \ {a} \in SUBSET Attempts
    BY SessionOf, SessionFields
  <2> HIDE DEF a, w, short, r, write
  <2>4. kept \in Session /\ done \in Session
    BY <2>1, <2>3, SessionRecorded DEF write
  <2>5. kept.at = run[x].at /\ done.at = run[x].at
    BY <2>3 DEF Session
  <2> QED BY <2>2, <2>4, <2>5 DEF a
<1>4. Becomes(x, r)
  BY DEF Record
<1>5. run' \in [Executors -> Session] /\ InHand'
  BY <1>1, <1>3, <1>4, SessionStep
<1> QED BY <1>1, <1>5 DEF Record, TypeInv, TypeOK, db

LEMMA LookUpKeyType ==
    ASSUME TypeInv, NEW x \in Executors, LookUpKey(x)
    PROVE  TypeInv'
<1> DEFINE found == posted[run[x].at] = 0
           r     == [run[x] EXCEPT !.step = "post", !.fresh = found]
<1>1. r \in Session /\ r.at \in Attempts
  <2>1. found \in BOOLEAN
    OBVIOUS
  <2>2. run[x].at \in Attempts
    BY DEF LookUpKey, TypeInv, InHand
  <2> HIDE DEF found
  <2> QED BY <2>1, <2>2, SessionOf, SessionFields DEF Session, Steps
<1>2. Becomes(x, r)
  BY DEF LookUpKey
<1>3. run' \in [Executors -> Session] /\ InHand'
  BY <1>1, <1>2, SessionStep
<1> QED BY <1>3 DEF LookUpKey, TypeInv, TypeOK, db

\* What a posting adds to a counter.
LEMMA RaisedType ==
    ASSUME NEW c \in Counters, NEW k \in Kinds, NEW n \in Nat
    PROVE  [c EXCEPT ![k] = c[k] + n] \in Counters
BY DEF Counters

LEMMA PostType ==
    ASSUME TypeInv, NEW x \in Executors, Post(x)
    PROVE  TypeInv'
<1> DEFINE a == run[x].at
           e == EscrowOf[a]
           k == Kind[a]
           r == [run[x] EXCEPT !.step = "next", !.todo = @ \ {a}, !.write = Idle.write,
                               !.book[e].out[k] = @ + Amount[a], !.raised = {<<e, k>>}]
<1>1. a \in Attempts /\ e \in Escrows /\ k \in Kinds /\ Amount[a] \in Nat
  BY PayoutAssumption DEF TypeInv, InHand, Post
<1>2. run[x].book[e] \in Book
  BY <1>1, SessionOf, SessionFields
<1>3. [run[x].book EXCEPT ![e].out[k] = @ + Amount[a]] \in [Escrows -> Book]
  <2>1. [run[x].book[e].out EXCEPT ![k] = @ + Amount[a]] \in Counters
    <3>1. run[x].book[e].out \in Counters
      BY <1>2 DEF Book
    <3> HIDE DEF e, k
    <3> QED BY <1>1, <3>1, RaisedType
  <2>2. [run[x].book[e] EXCEPT !.out = [run[x].book[e].out EXCEPT ![k] = @ + Amount[a]]] \in Book
    BY <1>2, <2>1 DEF Book
  <2>3. [run[x].book[e] EXCEPT !.out[k] = @ + Amount[a]] \in Book
    BY <2>2
  <2> QED BY <2>3, SessionOf, SessionFields
<1>4. Idle.write \in [Attempts -> Write]
  BY IdleType DEF Session
<1>5. r \in Session /\ r.step = "next"
  <2> DEFINE book  == [run[x].book EXCEPT ![e].out[k] = @ + Amount[a]]
             write == Idle.write
             raised == {<<e, k>>}
             todo == run[x].todo \ {a}
             worked == [run[x] EXCEPT !.todo = todo, !.write = write, !.book = book]
  <2>1. r = [worked EXCEPT !.step = "next", !.raised = raised]
    OBVIOUS
  <2>2. book \in [Escrows -> Book]
    BY ONLY <1>3
  <2>3. write \in [Attempts -> Write]
    BY ONLY <1>4
  <2>4. raised \in SUBSET (Escrows \X Kinds)
    <3> HIDE DEF e, k
    <3> QED BY ONLY <1>1
  <2>5. todo \in SUBSET Attempts /\ run[x] \in Session
    BY SessionOf, SessionFields
  <2> HIDE DEF book, write, raised, todo, r
  <2>6. worked \in Session
    BY <2>2, <2>3, <2>5, SessionWorked
  <2> HIDE DEF worked
  <2>7. r \in Session
    BY <2>1, <2>4, <2>6, SessionPosted
  <2> QED BY <2>1, <2>6, <2>7 DEF Session
<1>6. Becomes(x, r)
  BY DEF Post
<1>7. run' \in [Executors -> Session] /\ InHand'
  BY <1>5, <1>6, SessionStep
<1>8. posted' \in [Attempts -> Nat]
  <2>1. posted \in [Attempts -> Nat] /\ posted' = [posted EXCEPT ![a] = posted[a] + 1]
    BY DEF Post, TypeInv, TypeOK
  <2> HIDE DEF a
  <2> QED BY ONLY <1>1, <2>1
<1>9. moved' \in [Escrows -> Counters]
  <2>1. /\ moved \in [Escrows -> Counters]
        /\ moved' = [moved EXCEPT ![e] = [moved[e] EXCEPT ![k] = moved[e][k] + Amount[a]]]
    BY DEF Post, TypeInv, TypeOK
  <2> HIDE DEF e, k
  <2>2. [moved[e] EXCEPT ![k] = moved[e][k] + Amount[a]] \in Counters
    BY <1>1, <2>1, RaisedType
  <2> QED BY ONLY <1>1, <2>1, <2>2
<1>10. CommitWrites(x) /\ UNCHANGED <<funded, rail, alerted, disturbed>>
  BY DEF Post
<1> QED BY <1>7, <1>8, <1>9, <1>10, CommitType DEF TypeInv, TypeOK

LEMMA ReplayType ==
    ASSUME TypeInv, NEW x \in Executors, Replay(x)
    PROVE  TypeInv'
<1> DEFINE r == [run[x] EXCEPT !.step = "next", !.todo = @ \ {run[x].at}]
<1>1. r \in Session /\ r.step = "next"
  BY SessionOf, SessionFields DEF Session, Steps
<1>2. Becomes(x, r)
  BY DEF Replay
<1>3. run' \in [Executors -> Session] /\ InHand'
  BY <1>1, <1>2, SessionStep
<1> QED BY <1>3 DEF Replay, TypeInv, TypeOK, db

LEMMA EndType ==
    ASSUME TypeInv, NEW x \in Executors, Finish(x) \/ Interrupt(x)
    PROVE  TypeInv'
<1>1. Becomes(x, Idle) /\ Idle.step = "idle"
  BY DEF Finish, Interrupt, Idle
<1>2. run' \in [Executors -> Session] /\ InHand'
  BY <1>1, IdleType, SessionStep
<1>3. CASE Finish(x)
  BY <1>2, <1>3, CommitType DEF Finish, TypeInv, TypeOK
<1>4. CASE Interrupt(x)
  BY <1>2, <1>4 DEF Interrupt, TypeInv, TypeOK, db
<1> QED BY <1>3, <1>4

\* What the sessions' surroundings do to the rows.
Around == \/ \E e \in Escrows : Fund(e)
          \/ \E a \in Attempts : Queue(a) \/ RailDecides(a) \/ TimePasses(a)
          \/ Reconcile

LEMMA AroundType ==
    ASSUME TypeInv, Around
    PROVE  TypeInv'
<1>1. UNCHANGED <<run, holder, posted, paidOut>>
  BY DEF Around, Fund, Queue, RailDecides, TimePasses, Reconcile, db
<1>2. ASSUME NEW e \in Escrows, Fund(e) PROVE TypeInv'
  BY <1>1, <1>2, PayoutAssumption DEF Fund, TypeInv, TypeOK, InHand
<1>3. ASSUME NEW a \in Attempts, Queue(a) PROVE TypeInv'
  BY <1>1, <1>3 DEF Queue, TypeInv, TypeOK, InHand, Outcomes, Results
<1>4. ASSUME NEW a \in Attempts, RailDecides(a) PROVE TypeInv'
  BY <1>1, <1>4 DEF RailDecides, TypeInv, TypeOK, InHand, AtRail, db
<1>5. ASSUME NEW a \in Attempts, TimePasses(a) PROVE TypeInv'
  BY <1>1, <1>5 DEF TimePasses, TypeInv, TypeOK, InHand
<1>6. ASSUME Reconcile PROVE TypeInv'
  BY <1>1, <1>6 DEF Reconcile, Unresolved, TypeInv, TypeOK, InHand, db
<1> QED BY <1>2, <1>3, <1>4, <1>5, <1>6 DEF Around

LEMMA StepType == TypeInv /\ [Next]_vars => TypeInv'
<1> SUFFICES ASSUME TypeInv, [Next]_vars PROVE TypeInv'
  OBVIOUS
<1>1. CASE UNCHANGED vars
  BY <1>1 DEF vars, TypeInv, TypeOK, InHand
<1>2. CASE Around
  BY <1>2, AroundType
<1>3. ASSUME NEW x \in Executors, Claim(x) \/ Work(x) \/ Interrupt(x) PROVE TypeInv'
  BY <1>3, ClaimType, AskType, RailUnavailableType, RecordType, LookUpKeyType,
     PostType, ReplayType, EndType DEF Work
<1> QED BY <1>1, <1>2, <1>3 DEF Next, Around

\* The columns of the payout tables and the sessions' data keep their types.
THEOREM PayoutTypeCorrect == Spec => []TypeOK
<1>1. TypeInv => TypeOK
  BY DEF TypeInv
<1> QED BY <1>1, InitType, StepType, PTL DEF Spec
-----------------------------------------------------------------------------
(***************************************************************************)
(* A payout is posted once, and posted when it is shown as succeeded.      *)
(***************************************************************************)
LEMMA InitSafe == Init => Safe
BY DEF Init, Safe, PostedOnce, KeyHeld, WriteCovered, SucceededIsPosted, Idle, NoWrite

\* Only one session moves in a step.
LEMMA OneMoves ==
    ASSUME TypeInv, NEW x \in Executors, NEW r, Becomes(x, r)
    PROVE  run'[x] = r /\ \A y \in Executors \ {x} : run'[y] = run[y]
BY DEF TypeInv, TypeOK, Becomes

LEMMA ClaimSafe ==
    ASSUME PostInv, NEW x \in Executors, Claim(x)
    PROVE  Safe'
<1> DEFINE claimed == Oldest({a \in Attempts : outcome[a] = "unknown" /\ holder[a] = NoExecutor})
           r == [Idle EXCEPT !.step = "next", !.todo = claimed,
                             !.known = {a \in claimed : ref[a]}]
<1>1. Becomes(x, r) /\ UNCHANGED <<outcome, posted>>
  BY DEF Claim, db
<1>2. r.step = "next" /\ \A a \in Attempts : r.write[a].outcome = "same"
  BY DEF Idle, NoWrite
<1>3. run'[x] = r /\ \A y \in Executors \ {x} : run'[y] = run[y]
  BY <1>1, OneMoves DEF PostInv
<1>4. \A a \in Attempts : holder[a] \in Executors => holder'[a] = holder[a]
  BY PayoutAssumption DEF Claim, Oldest
<1> HIDE DEF r, claimed
<1>5. KeyHeld'
  <2> SUFFICES ASSUME NEW y \in Executors, run'[y].step \in {"key", "post"}
               PROVE  /\ holder'[run'[y].at] = y
                      /\ run'[y].step = "post" => (run'[y].fresh <=> posted'[run'[y].at] = 0)
    BY DEF KeyHeld
  <2>1. y # x /\ run'[y] = run[y]
    BY <1>2, <1>3
  <2>2. run[y].at \in Attempts
    BY <2>1 DEF PostInv, TypeInv, InHand
  <2> QED BY <1>1, <1>4, <2>1, <2>2 DEF PostInv, Safe, KeyHeld
<1>6. WriteCovered'
  BY <1>1, <1>2, <1>3 DEF PostInv, Safe, WriteCovered
<1> QED BY <1>1, <1>5, <1>6 DEF PostInv, Safe, PostedOnce, SucceededIsPosted

\* A step that writes nothing and leaves the session between two attempts.
LEMMA WorkSafe ==
    ASSUME PostInv, NEW x \in Executors, NEW r, Becomes(x, r),
           UNCHANGED <<outcome, posted, holder>>,
           r.step \notin {"key", "post"},
           \A a \in Attempts : r.write[a].outcome = "succeeded" => posted[a] = 1
    PROVE  Safe'
<1>1. run'[x] = r /\ \A y \in Executors \ {x} : run'[y] = run[y]
  BY OneMoves DEF PostInv
<1>2. KeyHeld'
  BY <1>1 DEF PostInv, Safe, KeyHeld
<1>3. WriteCovered'
  BY <1>1 DEF PostInv, Safe, WriteCovered
<1> QED BY <1>2, <1>3 DEF PostInv, Safe, PostedOnce, SucceededIsPosted

LEMMA AskSafe ==
    ASSUME PostInv, NEW x \in Executors, NEW a \in Attempts,
           Ask(x, a) \/ RailUnavailable(x, a)
    PROVE  Safe'
<1>1. run[x].step = "next"
  BY DEF Ask, RailUnavailable, Turn
<1>2. \A b \in Attempts : run[x].write[b].outcome = "succeeded" => posted[b] = 1
  BY <1>1 DEF PostInv, Safe, WriteCovered
<1>3. run[x].write \in [Attempts -> Write] /\ run[x] \in Session
  BY SessionOf, SessionFields DEF PostInv
<1>4. CASE Ask(x, a)
  <2>1. PICK reply \in Replies(x, a) :
          Becomes(x, [run[x] EXCEPT !.step = "record", !.at = a,
                                    !.result = reply.result,
                                    !.gotRef = reply.gotRef,
                                    !.book[EscrowOf[a]] = Loaded(x, EscrowOf[a])])
    BY <1>4 DEF Ask
  <2> DEFINE r == [run[x] EXCEPT !.step = "record", !.at = a, !.result = reply.result,
                                 !.gotRef = reply.gotRef,
                                 !.book[EscrowOf[a]] = Loaded(x, EscrowOf[a])]
  <2>2. r.step = "record" /\ r.write = run[x].write
    BY <1>3 DEF Session
  <2>3. UNCHANGED <<outcome, posted, holder>>
    BY <1>4 DEF Ask, db
  <2> HIDE DEF r
  <2> QED BY <1>2, <2>1, <2>2, <2>3, WorkSafe DEF r
<1>5. CASE RailUnavailable(x, a)
  <2> DEFINE r == [run[x] EXCEPT !.todo = @ \ {a}, !.write[a].tried = TRUE,
                                 !.book[EscrowOf[a]] = Loaded(x, EscrowOf[a])]
  <2>1. r.step = "next"
    BY <1>1, <1>3 DEF Session
  <2>2. \A b \in Attempts : r.write[b].outcome = run[x].write[b].outcome
    BY <1>3 DEF Session, Write
  <2>3. Becomes(x, r) /\ UNCHANGED <<outcome, posted, holder>>
    BY <1>5 DEF RailUnavailable, db
  <2> HIDE DEF r
  <2> QED BY <1>2, <2>1, <2>2, <2>3, WorkSafe
<1> QED BY <1>4, <1>5

LEMMA RecordSafe ==
    ASSUME PostInv, NEW x \in Executors, Record(x)
    PROVE  Safe'
<1> DEFINE a     == run[x].at
           short == run[x].result = "succeeded" /\ Short(run[x].book[EscrowOf[a]], a)
           w     == [outcome |-> IF short THEN "unknown" ELSE Changed(run[x].result),
                     ref |-> run[x].gotRef, tried |-> TRUE]
           keep  == run[x].result = "succeeded" /\ ~short
           r     == IF keep
                    THEN [run[x] EXCEPT !.write[a] = w, !.step = "key"]
                    ELSE [run[x] EXCEPT !.write[a] = w, !.step = "next", !.todo = @ \ {a}]
<1>1. /\ Becomes(x, r) /\ run[x].step = "record"
      /\ holder[a] \in {NoExecutor, x} /\ holder' = [holder EXCEPT ![a] = x]
      /\ UNCHANGED <<outcome, posted>>
  BY DEF Record, db
<1>2. run[x] \in Session /\ run[x].write \in [Attempts -> Write] /\ a \in Attempts
  BY <1>1, SessionOf, SessionFields DEF PostInv, TypeInv, InHand
<1>3. w.outcome = "succeeded" => keep
  BY DEF Changed
<1> HIDE DEF keep, w
<1>4. /\ r.at = a
      /\ r.step \in {"key", "post"} <=> keep
      /\ r.step # "post"
      /\ r.write = [run[x].write EXCEPT ![a] = w]
  BY <1>2 DEF Session
<1>5. run'[x] = r /\ \A y \in Executors \ {x} : run'[y] = run[y]
  BY <1>1, OneMoves DEF PostInv
<1> HIDE DEF r
<1>6. holder \in [Attempts -> Executors \cup {NoExecutor}] /\ NoExecutor \notin Executors
  BY PayoutAssumption DEF PostInv, TypeInv, TypeOK
<1>7. KeyHeld'
  <2> SUFFICES ASSUME NEW y \in Executors, run'[y].step \in {"key", "post"}
               PROVE  /\ holder'[run'[y].at] = y
                      /\ run'[y].step = "post" => (run'[y].fresh <=> posted'[run'[y].at] = 0)
    BY DEF KeyHeld
  <2>1. CASE y = x
    BY <1>1, <1>2, <1>4, <1>5, <1>6, <2>1
  <2>2. CASE y # x
    <3>1. run'[y] = run[y] /\ run[y].at \in Attempts /\ holder[run[y].at] = y
      BY <1>5, <2>2 DEF PostInv, TypeInv, InHand, Safe, KeyHeld
    <3>2. run[y].at # a
      BY <1>1, <1>6, <2>2, <3>1
    <3> QED BY <1>1, <3>1, <3>2 DEF PostInv, Safe, KeyHeld
  <2> QED BY <2>1, <2>2
<1>8. WriteCovered'
  <2> SUFFICES ASSUME NEW y \in Executors, NEW b \in Attempts,
                      run'[y].write[b].outcome = "succeeded"
               PROVE  posted[b] = 1 \/ (run'[y].step \in {"key", "post"} /\ run'[y].at = b)
    BY <1>1 DEF WriteCovered
  <2>1. CASE y = x /\ b = a
    BY <1>2, <1>3, <1>4, <1>5, <2>1
  <2>2. CASE y = x /\ b # a
    BY <1>1, <1>2, <1>4, <1>5, <2>2 DEF PostInv, Safe, WriteCovered
  <2>3. CASE y # x
    BY <1>5, <2>3 DEF PostInv, Safe, WriteCovered
  <2> QED BY <2>1, <2>2, <2>3
<1> QED BY <1>1, <1>7, <1>8 DEF PostInv, Safe, PostedOnce, SucceededIsPosted

LEMMA LookUpKeySafe ==
    ASSUME PostInv, NEW x \in Executors, LookUpKey(x)
    PROVE  Safe'
<1> DEFINE found == posted[run[x].at] = 0
           r     == [run[x] EXCEPT !.step = "post", !.fresh = found]
<1>1. Becomes(x, r) /\ run[x].step = "key" /\ UNCHANGED <<outcome, posted, holder>>
  BY DEF LookUpKey, db
<1>2. run[x] \in Session
  BY SessionOf DEF PostInv
<1>3. /\ r.step = "post" /\ r.at = run[x].at /\ r.write = run[x].write
      /\ r.fresh <=> found
  BY <1>2 DEF Session
<1>4. run'[x] = r /\ \A y \in Executors \ {x} : run'[y] = run[y]
  BY <1>1, OneMoves DEF PostInv
<1> HIDE DEF r
<1>5. KeyHeld'
  BY <1>1, <1>3, <1>4 DEF PostInv, Safe, KeyHeld
<1>6. WriteCovered'
  BY <1>1, <1>3, <1>4 DEF PostInv, Safe, WriteCovered
<1> QED BY <1>1, <1>5, <1>6 DEF PostInv, Safe, PostedOnce, SucceededIsPosted

LEMMA ReplaySafe ==
    ASSUME PostInv, NEW x \in Executors, Replay(x)
    PROVE  Safe'
<1> DEFINE a == run[x].at
           r == [run[x] EXCEPT !.step = "next", !.todo = @ \ {run[x].at}]
<1>1. Becomes(x, r) /\ UNCHANGED <<outcome, posted, holder>>
  BY DEF Replay, db
<1>2. run[x] \in Session /\ a \in Attempts
  BY SessionOf DEF PostInv, TypeInv, InHand, Replay
<1>3. posted[a] = 1
  BY <1>2 DEF PostInv, Safe, KeyHeld, PostedOnce, Replay, TypeInv, TypeOK
<1>4. \A b \in Attempts : run[x].write[b].outcome = "succeeded" => posted[b] = 1
  BY <1>3 DEF PostInv, Safe, WriteCovered
<1>5. r.step = "next" /\ r.write = run[x].write
  BY <1>2 DEF Session
<1> HIDE DEF r, a
<1> QED BY <1>1, <1>4, <1>5, WorkSafe

\* What is committed as succeeded is in the ledger.
LEMMA CommitSucceeded ==
    ASSUME PostInv, NEW x \in Executors, CommitWrites(x),
           NEW b \in Attempts, outcome'[b] = "succeeded"
    PROVE  posted[b] = 1 \/ (run[x].step \in {"key", "post"} /\ run[x].at = b)
<1>1. CASE run[x].write[b].outcome = "same"
  <2>1. outcome[b] = "succeeded"
    BY <1>1 DEF CommitWrites
  <2> QED BY <2>1 DEF PostInv, Safe, SucceededIsPosted
<1>2. CASE run[x].write[b].outcome # "same"
  <2>1. run[x].write[b].outcome = "succeeded"
    BY <1>2 DEF CommitWrites
  <2> QED BY <2>1 DEF PostInv, Safe, WriteCovered
<1> QED BY <1>1, <1>2

LEMMA PostSafe ==
    ASSUME PostInv, NEW x \in Executors, Post(x)
    PROVE  Safe'
<1> DEFINE a == run[x].at
           e == EscrowOf[a]
           k == Kind[a]
           r == [run[x] EXCEPT !.step = "next", !.todo = @ \ {a}, !.write = Idle.write,
                               !.book[e].out[k] = @ + Amount[a], !.raised = {<<e, k>>}]
<1>1. /\ Becomes(x, r) /\ CommitWrites(x) /\ run[x].step = "post" /\ run[x].fresh
      /\ posted' = [posted EXCEPT ![a] = @ + 1]
  BY DEF Post
<1>2. run[x] \in Session /\ a \in Attempts
  BY <1>1, SessionOf DEF PostInv, TypeInv, InHand
<1>3. holder[a] = x /\ posted[a] = 0 /\ posted \in [Attempts -> Nat]
  BY <1>1 DEF PostInv, Safe, KeyHeld, TypeInv, TypeOK
<1>4. r.step = "next" /\ \A b \in Attempts : r.write[b].outcome = "same"
  BY <1>2 DEF Session, Idle, NoWrite
<1>5. run'[x] = r /\ \A y \in Executors \ {x} : run'[y] = run[y]
  BY <1>1, OneMoves DEF PostInv
<1> HIDE DEF r, a
<1>6. posted'[a] = 1 /\ \A b \in Attempts \ {a} : posted'[b] = posted[b]
  BY <1>1, <1>2, <1>3
<1>7. KeyHeld'
  <2> SUFFICES ASSUME NEW y \in Executors, run'[y].step \in {"key", "post"}
               PROVE  /\ holder'[run'[y].at] = y
                      /\ run'[y].step = "post" => (run'[y].fresh <=> posted'[run'[y].at] = 0)
    BY DEF KeyHeld
  <2>1. y # x /\ run'[y] = run[y]
    BY <1>4, <1>5
  <2>2. run[y].at \in Attempts /\ holder[run[y].at] = y
    BY <2>1 DEF PostInv, TypeInv, InHand, Safe, KeyHeld
  <2>3. run[y].at # a /\ holder'[run[y].at] = y
    BY <1>1, <1>3, <2>1, <2>2 DEF CommitWrites
  <2> QED BY <1>6, <2>1, <2>2, <2>3 DEF PostInv, Safe, KeyHeld
<1>8. WriteCovered'
  BY <1>4, <1>5, <1>6 DEF PostInv, Safe, WriteCovered
<1>9. PostedOnce'
  BY <1>6 DEF PostInv, Safe, PostedOnce
<1>10. SucceededIsPosted'
  BY <1>1, <1>6, CommitSucceeded DEF SucceededIsPosted, a
<1> QED BY <1>7, <1>8, <1>9, <1>10 DEF Safe

LEMMA EndSafe ==
    ASSUME PostInv, NEW x \in Executors, Finish(x) \/ Interrupt(x)
    PROVE  Safe'
<1>1. /\ Becomes(x, Idle) /\ UNCHANGED posted
      /\ holder' = [b \in Attempts |-> IF holder[b] = x THEN NoExecutor ELSE holder[b]]
  BY DEF Finish, Interrupt, CommitWrites, db
<1>2. Idle.step = "idle" /\ \A b \in Attempts : Idle.write[b].outcome = "same"
  BY DEF Idle, NoWrite
<1>3. run'[x] = Idle /\ \A y \in Executors \ {x} : run'[y] = run[y]
  BY <1>1, OneMoves DEF PostInv
<1>4. KeyHeld'
  <2> SUFFICES ASSUME NEW y \in Executors, run'[y].step \in {"key", "post"}
               PROVE  /\ holder'[run'[y].at] = y
                      /\ run'[y].step = "post" => (run'[y].fresh <=> posted'[run'[y].at] = 0)
    BY DEF KeyHeld
  <2>1. y # x /\ run'[y] = run[y]
    BY <1>2, <1>3
  <2>2. run[y].at \in Attempts /\ holder[run[y].at] = y
    BY <2>1 DEF PostInv, TypeInv, InHand, Safe, KeyHeld
  <2> QED BY <1>1, <2>1, <2>2 DEF PostInv, Safe, KeyHeld
<1>5. WriteCovered'
  BY <1>1, <1>2, <1>3 DEF PostInv, Safe, WriteCovered
<1>6. SucceededIsPosted'
  <2>1. CASE Finish(x)
    <3>1. CommitWrites(x) /\ run[x].step = "next"
      BY <2>1 DEF Finish
    <3> QED BY <1>1, <3>1, CommitSucceeded DEF SucceededIsPosted
  <2>2. CASE Interrupt(x)
    BY <1>1, <2>2 DEF Interrupt, db, PostInv, Safe, SucceededIsPosted
  <2> QED BY <2>1, <2>2
<1> QED BY <1>1, <1>4, <1>5, <1>6 DEF PostInv, Safe, PostedOnce

LEMMA AroundSafe ==
    ASSUME PostInv, Around
    PROVE  Safe'
<1>1. UNCHANGED <<run, holder, posted>>
  BY DEF Around, Fund, Queue, RailDecides, TimePasses, Reconcile, db
<1>2. \A b \in Attempts : outcome'[b] = "succeeded" => outcome[b] = "succeeded"
  <2>1. ASSUME NEW a \in Attempts, Queue(a)
        PROVE  \A b \in Attempts : outcome'[b] = "succeeded" => outcome[b] = "succeeded"
    BY <2>1 DEF Queue, PostInv, TypeInv, TypeOK
  <2> QED BY <2>1 DEF Around, Fund, RailDecides, TimePasses, Reconcile, db
<1> QED BY <1>1, <1>2 DEF PostInv, Safe, PostedOnce, KeyHeld, WriteCovered, SucceededIsPosted

LEMMA StepSafe == PostInv /\ [Next]_vars => PostInv'
<1> SUFFICES ASSUME PostInv, [Next]_vars PROVE PostInv'
  OBVIOUS
<1>1. TypeInv'
  BY StepType DEF PostInv
<1>2. CASE UNCHANGED vars
  BY <1>2 DEF vars, PostInv, Safe, PostedOnce, KeyHeld, WriteCovered, SucceededIsPosted,
              TypeInv, TypeOK, InHand
<1>3. CASE Around
  BY <1>1, <1>3, AroundSafe DEF PostInv
<1>4. ASSUME NEW x \in Executors, Claim(x) \/ Work(x) \/ Interrupt(x) PROVE Safe'
  BY <1>4, ClaimSafe, AskSafe, RecordSafe, LookUpKeySafe, PostSafe, ReplaySafe, EndSafe
     DEF Work
<1> QED BY <1>1, <1>2, <1>3, <1>4 DEF Next, Around, PostInv

\* The invariant that carries both: the row lock from the flush to the commit
\* and what the key's look-up found.
THEOREM PostInvariant == Spec => []PostInv
<1>1. Init => PostInv
  BY InitType, InitSafe DEF PostInv
<1> QED BY <1>1, StepSafe, PTL DEF Spec

\* However many sessions overlap, are interrupted and take up each other's
\* attempts after a commit in mid-batch, the ledger has one movement for each.
THEOREM PostedOnceCorrect == Spec => []PostedOnce
<1>1. PostInv => PostedOnce
  BY DEF PostInv, Safe
<1> QED BY <1>1, PostInvariant, PTL

\* No session shows an attempt as succeeded that the ledger has not booked.
THEOREM SucceededCorrect == Spec => []SucceededIsPosted
<1>1. PostInv => SucceededIsPosted
  BY DEF PostInv, Safe
<1> QED BY <1>1, PostInvariant, PTL
-----------------------------------------------------------------------------
(***************************************************************************)
(* What each step of a session leaves in its memory.                       *)
(***************************************************************************)
Others(x) == \A y \in Executors \ {x} : run'[y] = run[y]

LEMMA ClaimDoes ==
    ASSUME TypeInv, NEW x \in Executors, Claim(x)
    PROVE  /\ run[x].step = "idle" /\ run'[x].step = "next" /\ run'[x].raised = {}
           /\ \A e \in Escrows : ~run'[x].book[e].loaded
           /\ Others(x) /\ UNCHANGED <<db, rail>>
           /\ disturbed' = (disturbed \/ \E y \in Executors : run[y].step # "idle")
<1> DEFINE claimed == Oldest({a \in Attempts : outcome[a] = "unknown" /\ holder[a] = NoExecutor})
           r == [Idle EXCEPT !.step = "next", !.todo = claimed,
                             !.known = {a \in claimed : ref[a]}]
<1>1. Becomes(x, r)
  BY DEF Claim
<1>2. r.step = "next" /\ r.raised = {} /\ \A e \in Escrows : ~r.book[e].loaded
  BY DEF Idle, NotRead
<1> HIDE DEF r
<1>3. run'[x] = r /\ Others(x)
  BY <1>1, OneMoves DEF Others
<1> QED BY <1>2, <1>3 DEF Claim

\* The rail's answer reaches the attempt and the session.
Answered(x, a, reply) ==
    rail' = [rail EXCEPT ![a] = reply.rail] /\ run'[x].result = reply.result

LEMMA AskDoes ==
    ASSUME TypeInv, NEW x \in Executors, NEW a \in Attempts, Ask(x, a)
    PROVE  /\ run[x].step = "next" /\ run'[x].step = "record" /\ run'[x].at = a
           /\ run'[x].raised = run[x].raised
           /\ run'[x].book = [run[x].book EXCEPT ![EscrowOf[a]] = Loaded(x, EscrowOf[a])]
           /\ Others(x) /\ UNCHANGED <<db, disturbed>>
           /\ \E reply \in Replies(x, a) : Answered(x, a, reply)
<1> DEFINE e == EscrowOf[a]
<1>1. PICK reply \in Replies(x, a) :
        /\ rail' = [rail EXCEPT ![a] = reply.rail]
        /\ Becomes(x, [run[x] EXCEPT !.step = "record", !.at = a,
                                     !.result = reply.result,
                                     !.gotRef = reply.gotRef,
                                     !.book[e] = Loaded(x, e)])
  BY DEF Ask
<1> DEFINE r == [run[x] EXCEPT !.step = "record", !.at = a, !.result = reply.result,
                               !.gotRef = reply.gotRef, !.book[e] = Loaded(x, e)]
<1>2. /\ r.step = "record" /\ r.at = a /\ r.raised = run[x].raised /\ r.result = reply.result
      /\ r.book = [run[x].book EXCEPT ![e] = Loaded(x, e)]
  BY SessionOf DEF Session
<1>3. Becomes(x, r)
  BY <1>1
<1> HIDE DEF r
<1>4. run'[x] = r /\ Others(x)
  BY <1>3, OneMoves DEF Others
<1>5. Answered(x, a, reply)
  BY <1>1, <1>2, <1>4 DEF Answered
<1> QED BY <1>2, <1>4, <1>5 DEF Ask, Turn

LEMMA RailUnavailableDoes ==
    ASSUME TypeInv, NEW x \in Executors, NEW a \in Attempts, RailUnavailable(x, a)
    PROVE  /\ run[x].step = "next" /\ run'[x].step = "next"
           /\ run'[x].raised = run[x].raised
           /\ run'[x].book = [run[x].book EXCEPT ![EscrowOf[a]] = Loaded(x, EscrowOf[a])]
           /\ Others(x) /\ UNCHANGED <<db, rail, disturbed>>
<1> DEFINE e == EscrowOf[a]
           r == [run[x] EXCEPT !.todo = @ \ {a}, !.write[a].tried = TRUE,
                               !.book[e] = Loaded(x, e)]
<1>1. run[x].step = "next" /\ Becomes(x, r)
  BY DEF RailUnavailable, Turn
<1>2. /\ r.step = "next" /\ r.raised = run[x].raised
      /\ r.book = [run[x].book EXCEPT ![e] = Loaded(x, e)]
  BY <1>1, SessionOf DEF Session
<1> HIDE DEF r
<1>3. run'[x] = r /\ Others(x)
  BY <1>1, OneMoves DEF Others
<1> QED BY <1>1, <1>2, <1>3 DEF RailUnavailable

LEMMA RecordDoes ==
    ASSUME TypeInv, NEW x \in Executors, Record(x)
    PROVE  /\ run[x].step = "record" /\ run'[x].step \in {"next", "key"}
           /\ run'[x].step = "key" =>
                run[x].result = "succeeded" /\ ~Short(run[x].book[EscrowOf[run[x].at]], run[x].at)
           /\ run'[x].at = run[x].at /\ run'[x].raised = run[x].raised
           /\ run'[x].book = run[x].book
           /\ Others(x) /\ UNCHANGED <<db, rail, disturbed>>
<1> DEFINE a     == run[x].at
           short == run[x].result = "succeeded" /\ Short(run[x].book[EscrowOf[a]], a)
           w     == [outcome |-> IF short THEN "unknown" ELSE Changed(run[x].result),
                     ref |-> run[x].gotRef, tried |-> TRUE]
           keep  == run[x].result = "succeeded" /\ ~short
           r     == IF keep
                    THEN [run[x] EXCEPT !.write[a] = w, !.step = "key"]
                    ELSE [run[x] EXCEPT !.write[a] = w, !.step = "next", !.todo = @ \ {a}]
<1>1. Becomes(x, r) /\ run[x].step = "record"
  BY DEF Record
<1> HIDE DEF keep, w
<1>2. /\ r.at = run[x].at /\ r.raised = run[x].raised /\ r.book = run[x].book
      /\ r.step \in {"next", "key"} /\ (r.step = "key" => keep)
  BY SessionOf DEF Session
<1> HIDE DEF r
<1>3. run'[x] = r /\ Others(x)
  BY <1>1, OneMoves DEF Others
<1> QED BY <1>1, <1>2, <1>3 DEF Record, keep

LEMMA LookUpKeyDoes ==
    ASSUME TypeInv, NEW x \in Executors, LookUpKey(x)
    PROVE  /\ run[x].step = "key" /\ run'[x].step = "post"
           /\ run'[x].at = run[x].at /\ run'[x].raised = run[x].raised
           /\ run'[x].book = run[x].book
           /\ Others(x) /\ UNCHANGED <<db, rail, disturbed>>
<1> DEFINE found == posted[run[x].at] = 0
           r     == [run[x] EXCEPT !.step = "post", !.fresh = found]
<1>1. Becomes(x, r)
  BY DEF LookUpKey
<1>2. /\ r.step = "post" /\ r.at = run[x].at /\ r.raised = run[x].raised
      /\ r.book = run[x].book
  BY SessionOf DEF Session
<1> HIDE DEF r
<1>3. run'[x] = r /\ Others(x)
  BY <1>1, OneMoves DEF Others
<1> QED BY <1>2, <1>3 DEF LookUpKey

\* A counter after a posting.
Plus(c, k, n) == [c EXCEPT ![k] = c[k] + n]

LEMMA PostDoes ==
    ASSUME TypeInv, NEW x \in Executors, Post(x),
           NEW e, e = EscrowOf[run[x].at], NEW k, k = Kind[run[x].at]
    PROVE  /\ run[x].at \in Attempts /\ e \in Escrows /\ k \in Kinds
           /\ run[x].step = "post" /\ run'[x].step = "next" /\ run'[x].raised = {<<e, k>>}
           /\ \A d \in Escrows : /\ run'[x].book[d].loaded = run[x].book[d].loaded
                                 /\ run'[x].book[d].funded = run[x].book[d].funded
                                 /\ d # e => run'[x].book[d].out = run[x].book[d].out
           /\ run'[x].book[e].out = Plus(run[x].book[e].out, k, Amount[run[x].at])
           /\ moved'[e] = Plus(moved[e], k, Amount[run[x].at])
           /\ \A d \in Escrows : d # e => moved'[d] = moved[d]
           /\ posted' = [posted EXCEPT ![run[x].at] = posted[run[x].at] + 1]
           /\ \A d \in Escrows : paidOut'[d] = CountersOf(x, d)
           /\ Others(x) /\ UNCHANGED <<funded, rail, disturbed>>
<1> DEFINE a == run[x].at
           r == [run[x] EXCEPT !.step = "next", !.todo = @ \ {a}, !.write = Idle.write,
                               !.book[e].out[k] = @ + Amount[a], !.raised = {<<e, k>>}]
<1>1. a \in Attempts /\ e \in Escrows /\ k \in Kinds
  BY PayoutAssumption DEF TypeInv, InHand, Post
<1>2. /\ run[x].book \in [Escrows -> Book] /\ run[x] \in Session
      /\ run[x].book[e] \in Book
  BY <1>1, SessionOf, SessionFields
<1>3. Becomes(x, r)
  BY DEF Post
<1> DEFINE page == [run[x].book[e] EXCEPT !.out[k] = @ + Amount[a]]
<1>4. r.step = "next" /\ r.raised = {<<e, k>>} /\ r.book = [run[x].book EXCEPT ![e] = page]
  BY <1>2 DEF Session
<1>5. /\ page.loaded = run[x].book[e].loaded /\ page.funded = run[x].book[e].funded
      /\ page.out = Plus(run[x].book[e].out, k, Amount[a])
  BY <1>2 DEF Book, Plus
<1> HIDE DEF r, page
<1>6. run'[x] = r /\ Others(x)
  BY <1>3, OneMoves DEF Others
<1>7. run'[x].book[e] = page /\ \A d \in Escrows : d # e => run'[x].book[d] = run[x].book[d]
  BY <1>1, <1>2, <1>4, <1>6
<1>8. /\ moved'[e] = Plus(moved[e], k, Amount[a])
      /\ \A d \in Escrows : d # e => moved'[d] = moved[d]
  BY <1>1 DEF Post, TypeInv, TypeOK, Plus
<1>9. /\ posted' = [posted EXCEPT ![a] = posted[a] + 1]
      /\ \A d \in Escrows : paidOut'[d] = CountersOf(x, d)
      /\ run[x].step = "post" /\ UNCHANGED <<funded, rail, disturbed>>
  BY DEF Post, CommitWrites
<1> QED BY <1>1, <1>4, <1>5, <1>6, <1>7, <1>8, <1>9

LEMMA ReplayDoes ==
    ASSUME TypeInv, NEW x \in Executors, Replay(x)
    PROVE  /\ run[x].step = "post" /\ run'[x].step = "next"
           /\ run'[x].raised = run[x].raised /\ run'[x].book = run[x].book
           /\ Others(x) /\ UNCHANGED <<db, rail, disturbed>>
<1> DEFINE r == [run[x] EXCEPT !.step = "next", !.todo = @ \ {run[x].at}]
<1>1. Becomes(x, r)
  BY DEF Replay
<1>2. r.step = "next" /\ r.raised = run[x].raised /\ r.book = run[x].book
  BY SessionOf DEF Session
<1> HIDE DEF r
<1>3. run'[x] = r /\ Others(x)
  BY <1>1, OneMoves DEF Others
<1> QED BY <1>2, <1>3 DEF Replay

LEMMA EndDoes ==
    ASSUME TypeInv, NEW x \in Executors, Finish(x) \/ Interrupt(x)
    PROVE  /\ run'[x] = Idle /\ Others(x)
           /\ UNCHANGED <<posted, moved, funded, rail>>
           /\ Finish(x) => /\ \A d \in Escrows : paidOut'[d] = CountersOf(x, d)
                           /\ run[x].step = "next" /\ UNCHANGED disturbed
           /\ Interrupt(x) => disturbed'
<1>1. Becomes(x, Idle)
  BY DEF Finish, Interrupt
<1>2. run'[x] = Idle /\ Others(x)
  BY <1>1, OneMoves DEF Others
<1> QED BY <1>2 DEF Finish, Interrupt, CommitWrites, db

LEMMA IdleFields ==
    /\ Idle.step = "idle" /\ Idle.raised = {}
    /\ \A e \in Escrows : ~Idle.book[e].loaded
BY DEF Idle, NotRead

LEMMA AroundDoes ==
    ASSUME TypeInv, Around
    PROVE  /\ UNCHANGED <<run, posted, moved, paidOut, disturbed>>
           /\ \A e \in Escrows : funded'[e] = funded[e] \/ (funded[e] = 0 /\ funded'[e] = Total[e])
           /\ \A a \in Attempts : rail'[a] = "none" => rail[a] = "none"
<1>1. UNCHANGED <<run, posted, moved, paidOut, disturbed>>
  BY DEF Around, Fund, Queue, RailDecides, TimePasses, Reconcile, db
<1>2. ASSUME NEW e \in Escrows, NEW d \in Escrows, Fund(d)
      PROVE  funded'[e] = funded[e] \/ (funded[e] = 0 /\ funded'[e] = Total[e])
  BY <1>2 DEF Fund, TypeInv, TypeOK
<1>3. ASSUME NEW a \in Attempts, NEW b \in Attempts, RailDecides(b), rail'[a] = "none"
      PROVE  rail[a] = "none"
  BY <1>3 DEF RailDecides, TypeInv, TypeOK
<1>4. UNCHANGED funded \/ \E e \in Escrows : Fund(e)
  BY DEF Around, Queue, RailDecides, TimePasses, Reconcile, db
<1>5. UNCHANGED rail \/ \E a \in Attempts : RailDecides(a)
  BY DEF Around, Queue, Fund, TimePasses, Reconcile, db
<1> QED BY <1>1, <1>2, <1>3, <1>4, <1>5
-----------------------------------------------------------------------------
(***************************************************************************)
(* The ledger follows the rail.                                            *)
(***************************************************************************)
\* The rail has the attempt's payout; under an escrow's single reference, the
\* payout of an attempt of that escrow.
Sent(a) == \E b \in Siblings(a) :
    rail[b] # "none" /\ (RailOf[EscrowOf[a]] = "keyed" => b = a)

\* A session takes no payout for made that the rail has not got.
Asked == \A x \in Executors :
    \/ run[x].step \in {"key", "post"}
    \/ run[x].step = "record" /\ run[x].result = "succeeded"
    => Sent(run[x].at)

SentInv == TypeInv /\ Asked /\ PostedWasSent

\* A rail never forgets.
LEMMA SentStays ==
    ASSUME NEW a, Sent(a), \A b \in Attempts : rail'[b] = "none" => rail[b] = "none"
    PROVE  Sent(a)'
BY DEF Sent, Siblings

\* A rail that answers that it paid has the payout, and an answer never sets a
\* payout back.
LEMMA ReplySent ==
    ASSUME TypeOK, NEW x \in Executors, NEW a \in Attempts, NEW reply \in Replies(x, a),
           rail' = [rail EXCEPT ![a] = reply.rail]
    PROVE  /\ \A b \in Attempts : rail'[b] = "none" => rail[b] = "none"
           /\ reply.result = "succeeded" => Sent(a)'
<1> DEFINE keeps == reply.rail = rail[a] \/ reply.rail # "none" \/ rail[a] = "none"
           own   == reply.result = "succeeded" => reply.rail # "none"
           any   == reply.result = "succeeded" =>
                      reply.rail # "none" \/ \E b \in Siblings(a) : rail[b] = "paid"
<1>1. rail[a] \in AtRail /\ rail \in [Attempts -> AtRail]
  BY DEF TypeOK
<1>2. ASSUME reply \in KeyedRequest(a) PROVE keeps /\ own
  <2>1. CASE reply \in Unclear(a)
    <3>1. PICK r \in IF rail[a] = "none" THEN AtRail ELSE {rail[a]}, got \in BOOLEAN :
            reply = Reply(r, "unknown", got)
      BY <2>1 DEF Unclear
    <3> QED BY <3>1 DEF Reply
  <2>2. CASE reply \in KeyedAnswer(a)
    <3>1. CASE rail[a] = "none"
      BY <2>2, <3>1 DEF KeyedAnswer, Reply
    <3>2. CASE rail[a] = "refused"
      BY <2>2, <3>2 DEF KeyedAnswer, Reply
    <3>3. CASE rail[a] \notin {"none", "refused"}
      BY <2>2, <3>3 DEF KeyedAnswer, Reply
    <3> QED BY <3>1, <3>2, <3>3
  <2> QED BY <1>2, <2>1, <2>2 DEF KeyedRequest
<1>3. ASSUME reply \in KeyedInquiry(a) PROVE keeps /\ own
  BY <1>1, <1>3 DEF KeyedInquiry, Reply, Told, AtRail
<1>4. ASSUME reply \in WholeRequest(a) PROVE keeps /\ any
  <2>1. CASE \E b \in Siblings(a) : rail[b] = "paid"
    BY <1>4, <2>1 DEF WholeRequest, Reply
  <2>2. CASE ~\E b \in Siblings(a) : rail[b] = "paid"
    <3>1. CASE \E b \in Siblings(a) : rail[b] = "pending"
      BY <1>4, <2>2, <3>1 DEF WholeRequest, Reply
    <3>2. CASE ~\E b \in Siblings(a) : rail[b] = "pending"
      BY <1>4, <2>2, <3>2 DEF WholeRequest, Reply
    <3> QED BY <3>1, <3>2
  <2> QED BY <2>1, <2>2
<1>5. ASSUME reply \in WholeInquiry(a) PROVE keeps /\ any
  <2>1. CASE \E b \in Siblings(a) : rail[b] = "paid"
    BY <1>5, <2>1 DEF WholeInquiry, Reply
  <2>2. CASE ~\E b \in Siblings(a) : rail[b] = "paid"
    BY <1>5, <2>2 DEF WholeInquiry, Reply
  <2> QED BY <2>1, <2>2
<1>6. /\ keeps
      /\ RailOf[EscrowOf[a]] = "keyed" => own
      /\ RailOf[EscrowOf[a]] # "keyed" => any
  <2> DEFINE keyed == RailOf[EscrowOf[a]] = "keyed"
             known == a \in run[x].known
  <2>1. \/ keyed /\ reply \in KeyedInquiry(a)
        \/ keyed /\ reply \in KeyedRequest(a)
        \/ ~keyed /\ reply \in WholeInquiry(a)
        \/ ~keyed /\ reply \in WholeRequest(a)
    <3>1. CASE keyed /\ known
      BY <3>1, Zenon DEF Replies
    <3>2. CASE keyed /\ ~known
      BY <3>2, Zenon DEF Replies
    <3>3. CASE ~keyed /\ known
      BY <3>3, Zenon DEF Replies
    <3>4. CASE ~keyed /\ ~known
      BY <3>4, Zenon DEF Replies
    <3> QED BY <3>1, <3>2, <3>3, <3>4
  <2> HIDE DEF keeps, own, any
  <2> QED BY <1>2, <1>3, <1>4, <1>5, <2>1
<1>7. \A b \in Attempts : rail'[b] = "none" => rail[b] = "none"
  BY <1>1, <1>6
<1>8. ASSUME reply.result = "succeeded" PROVE Sent(a)'
  <2>1. CASE reply.rail # "none"
    <3>1. a \in Siblings(a) /\ rail'[a] # "none"
      BY <1>1, <2>1 DEF Siblings
    <3> QED BY <3>1 DEF Sent, Siblings
  <2>2. CASE reply.rail = "none"
    <3>1. PICK b \in Siblings(a) : rail[b] = "paid"
      BY <1>6, <1>8, <2>2
    <3>2. RailOf[EscrowOf[a]] # "keyed"
      BY <1>6, <1>8, <2>2
    <3>3. b \in Attempts /\ rail'[b] # "none"
      BY <1>7, <3>1 DEF Siblings
    <3> QED BY <3>1, <3>2, <3>3 DEF Sent, Siblings
  <2> QED BY <2>1, <2>2
<1> QED BY <1>7, <1>8

\* The step of a session that has asked, as long as the rail forgets nothing
\* and the ledger has nothing new but the session's own attempt.
LEMMA SessionSent ==
    ASSUME SentInv, NEW x \in Executors, Others(x), TypeInv',
           \A b \in Attempts : rail'[b] = "none" => rail[b] = "none",
           \A b \in Attempts : posted'[b] > 0 => posted[b] > 0 \/ Sent(b),
           \/ run'[x].step \in {"key", "post"}
           \/ run'[x].step = "record" /\ run'[x].result = "succeeded"
           => Sent(run[x].at)'
    PROVE  Asked' /\ PostedWasSent'
<1>1. Asked'
  <2> SUFFICES ASSUME NEW y \in Executors,
                      \/ run'[y].step \in {"key", "post"}
                      \/ run'[y].step = "record" /\ run'[y].result = "succeeded"
               PROVE  Sent(run[y].at)'
    BY DEF Asked
  <2>1. CASE y = x
    BY <2>1
  <2>2. CASE y # x
    <3> DEFINE a == run[y].at
    <3>1. run'[y] = run[y] /\ Sent(a)
      BY <2>2 DEF Others, SentInv, Asked
    <3>2. PICK b \in Siblings(a) : rail[b] # "none" /\ (RailOf[EscrowOf[a]] = "keyed" => b = a)
      BY <3>1 DEF Sent
    <3>3. b \in Attempts /\ rail'[b] # "none"
      BY <3>2 DEF Siblings
    <3> QED BY <3>1, <3>2, <3>3 DEF Sent, Siblings
  <2> QED BY <2>1, <2>2
<1>2. PostedWasSent'
  <2> SUFFICES ASSUME NEW b \in Attempts, posted'[b] > 0 PROVE Sent(b)'
    BY DEF PostedWasSent, Sent
  <2>1. Sent(b)
    BY DEF SentInv, PostedWasSent, Sent
  <2> QED BY <2>1, SentStays
<1> QED BY <1>1, <1>2

LEMMA AskSent ==
    ASSUME SentInv, NEW x \in Executors, NEW a \in Attempts, Ask(x, a), TypeInv'
    PROVE  Asked' /\ PostedWasSent'
<1>1. run'[x].step = "record" /\ run'[x].at = a /\ Others(x) /\ UNCHANGED posted
  BY AskDoes DEF SentInv, db
<1>2. PICK reply \in Replies(x, a) : Answered(x, a, reply)
  BY AskDoes DEF SentInv
<1>3. /\ \A b \in Attempts : rail'[b] = "none" => rail[b] = "none"
      /\ reply.result = "succeeded" => Sent(a)'
  BY <1>2, ReplySent DEF SentInv, TypeInv, Answered
<1>4. reply.result = "succeeded" => Sent(run[x].at)'
  BY <1>1, <1>3 DEF Sent
<1> QED BY <1>1, <1>2, <1>3, <1>4, SessionSent DEF Answered

\* The other steps of a session leave the rail alone.
LEMMA WorkSent ==
    ASSUME SentInv, NEW x \in Executors, TypeInv', Others(x), UNCHANGED rail,
           \A b \in Attempts : posted'[b] > 0 => posted[b] > 0 \/ Sent(b),
           run'[x].step # "record",
           run'[x].step \in {"key", "post"} => Sent(run[x].at) /\ run'[x].at = run[x].at
    PROVE  Asked' /\ PostedWasSent'
<1>1. run'[x].step \in {"key", "post"} => Sent(run[x].at)'
  BY DEF Sent, Siblings
<1> QED BY <1>1, SessionSent

LEMMA StepSent == SentInv /\ [Next]_vars => SentInv'
<1> SUFFICES ASSUME SentInv, [Next]_vars PROVE SentInv'
  OBVIOUS
<1> USE DEF SentInv
<1>1. TypeInv'
  BY StepType
<1>2. CASE UNCHANGED vars
  BY <1>1, <1>2 DEF vars, Asked, PostedWasSent, Sent, Siblings
<1>3. CASE Around
  <2>1. /\ UNCHANGED <<run, posted>>
        /\ \A b \in Attempts : rail'[b] = "none" => rail[b] = "none"
    BY <1>3, AroundDoes
  <2> QED BY <1>1, <2>1 DEF Asked, PostedWasSent, Sent, Siblings
<1>4. ASSUME NEW x \in Executors, Claim(x) PROVE Asked' /\ PostedWasSent'
  BY <1>1, <1>4, ClaimDoes, WorkSent DEF db
<1>5. ASSUME NEW x \in Executors, NEW a \in Attempts, Ask(x, a) PROVE Asked' /\ PostedWasSent'
  BY <1>1, <1>5, AskSent
<1>6. ASSUME NEW x \in Executors, NEW a \in Attempts, RailUnavailable(x, a)
      PROVE  Asked' /\ PostedWasSent'
  BY <1>1, <1>6, RailUnavailableDoes, WorkSent DEF db
<1>7. ASSUME NEW x \in Executors, Record(x) PROVE Asked' /\ PostedWasSent'
  <2>1. /\ run'[x].step \in {"next", "key"} /\ run'[x].at = run[x].at
        /\ Others(x) /\ UNCHANGED <<rail, posted>>
    BY <1>7, RecordDoes DEF db
  <2>2. run'[x].step = "key" => Sent(run[x].at)
    BY <1>7, RecordDoes DEF Asked
  <2> QED BY <1>1, <2>1, <2>2, WorkSent
<1>8. ASSUME NEW x \in Executors, LookUpKey(x) PROVE Asked' /\ PostedWasSent'
  BY <1>1, <1>8, LookUpKeyDoes, WorkSent DEF db, Asked
<1>9. ASSUME NEW x \in Executors, Post(x) PROVE Asked' /\ PostedWasSent'
  <2>1. /\ run[x].at \in Attempts /\ run[x].step = "post" /\ run'[x].step = "next"
        /\ posted' = [posted EXCEPT ![run[x].at] = posted[run[x].at] + 1]
        /\ Others(x) /\ UNCHANGED rail
    BY <1>9, PostDoes
  <2>2. Sent(run[x].at)
    BY <2>1 DEF Asked
  <2>3. \A b \in Attempts : posted'[b] > 0 => posted[b] > 0 \/ Sent(b)
    BY <2>1, <2>2 DEF TypeInv, TypeOK
  <2> QED BY <1>1, <2>1, <2>3, WorkSent
<1>10. ASSUME NEW x \in Executors, Replay(x) PROVE Asked' /\ PostedWasSent'
  BY <1>1, <1>10, ReplayDoes, WorkSent DEF db
<1>11. ASSUME NEW x \in Executors, Finish(x) \/ Interrupt(x) PROVE Asked' /\ PostedWasSent'
  BY <1>1, <1>11, EndDoes, IdleFields, WorkSent
<1> QED BY <1>1, <1>2, <1>3, <1>4, <1>5, <1>6, <1>7, <1>8, <1>9, <1>10, <1>11
        DEF Next, Work, Around

\* Whatever requests and answers are lost, and whichever sessions overlap or
\* die, the ledger moves money only for a payout that the rail has got.
THEOREM PostedSentCorrect == Spec => []PostedWasSent
<1>1. Init => SentInv
  BY InitType DEF Init, SentInv, Asked, PostedWasSent, Idle
<1>2. SentInv => PostedWasSent
  BY DEF SentInv
<1> QED BY <1>1, <1>2, StepSent, PTL DEF Spec
-----------------------------------------------------------------------------
(***************************************************************************)
(* What a session remembers of the escrows, and the books of sessions that *)
(* neither overlap nor die.                                                *)
(***************************************************************************)
\* A session works on escrows it has loaded, and takes a payout for made only
\* within the funding it read.
Remembers(x) ==
    /\ run[x].step = "idle" => run[x] = Idle
    /\ run[x].step \in {"record", "key", "post"} => run[x].book[EscrowOf[run[x].at]].loaded
    /\ \A e \in Escrows : \A k \in Kinds : <<e, k>> \in run[x].raised => run[x].book[e].loaded
    /\ \A e \in Escrows : run[x].book[e].loaded => run[x].book[e].funded <= funded[e]
    /\ run[x].step \in {"key", "post"} => ~Short(run[x].book[EscrowOf[run[x].at]], run[x].at)

MemoryInv == TypeInv /\ \A x \in Executors : Remembers(x)

LEMMA BookOf ==
    ASSUME TypeInv, NEW x \in Executors, NEW e \in Escrows
    PROVE  /\ run[x].book \in [Escrows -> Book] /\ run[x].book[e] \in Book
           /\ run[x].book[e].loaded \in BOOLEAN /\ run[x].book[e].funded \in Nat
           /\ run[x].book[e].out \in Counters
<1>1. run[x].book \in [Escrows -> Book]
  BY SessionOf, SessionFields
<1> QED BY <1>1 DEF Book

LEMMA FundedOf ==
    ASSUME TypeInv, NEW e \in Escrows
    PROVE  funded[e] \in Nat /\ paidOut[e] \in Counters /\ moved[e] \in Counters
BY DEF TypeInv, TypeOK

\* A session that is idle remembers nothing.
LEMMA IdleForgets ==
    ASSUME MemoryInv, NEW x \in Executors, run[x].step = "idle"
    PROVE  run[x].raised = {} /\ \A e \in Escrows : ~run[x].book[e].loaded
BY IdleFields DEF MemoryInv, Remembers

LEMMA IdleRemembers ==
    ASSUME NEW x \in Executors, run[x] = Idle
    PROVE  Remembers(x)
BY IdleFields DEF Remembers

\* The sessions that do not move remember what they did.
LEMMA OthersRemember ==
    ASSUME MemoryInv, TypeInv', NEW x \in Executors, Others(x), Remembers(x)',
           UNCHANGED funded
    PROVE  MemoryInv'
<1>1. ASSUME NEW y \in Executors PROVE Remembers(y)'
  <2>1. CASE y = x
    BY <2>1
  <2>2. CASE y # x
    BY <2>2 DEF Others, MemoryInv, Remembers, Short
  <2> QED BY <2>1, <2>2
<1> QED BY <1>1 DEF MemoryInv

\* The step of a session that keeps its memory.
LEMMA WorkRemembers ==
    ASSUME MemoryInv, TypeInv', NEW x \in Executors, Others(x), UNCHANGED funded,
           run'[x].step # "idle", run'[x].book = run[x].book, run'[x].raised = run[x].raised,
           run'[x].step \in {"record", "key", "post"} =>
               run'[x].at = run[x].at /\ run[x].book[EscrowOf[run[x].at]].loaded,
           run'[x].step \in {"key", "post"} =>
               ~Short(run[x].book[EscrowOf[run[x].at]], run[x].at)
    PROVE  MemoryInv'
<1>1. Remembers(x)'
  BY DEF MemoryInv, Remembers, Short
<1> QED BY <1>1, OthersRemember

\* The step of a session that takes an escrow up.
LEMMA LoadRemembers ==
    ASSUME MemoryInv, TypeInv', NEW x \in Executors, Others(x), UNCHANGED funded,
           NEW a \in Attempts, run'[x].step \in {"next", "record"}, run'[x].raised = run[x].raised,
           run'[x].step = "record" => run'[x].at = a,
           run'[x].book = [run[x].book EXCEPT ![EscrowOf[a]] = Loaded(x, EscrowOf[a])]
    PROVE  MemoryInv'
<1> DEFINE e == EscrowOf[a]
<1>1. e \in Escrows /\ TypeInv
  BY PayoutAssumption DEF MemoryInv
<1>2. run[x].book \in [Escrows -> Book]
  BY <1>1, BookOf
<1>3. Loaded(x, e).loaded /\ Loaded(x, e).funded <= funded[e]
  <2>1. CASE run[x].book[e].loaded
    BY <1>1, <2>1 DEF Loaded, MemoryInv, Remembers
  <2>2. CASE ~run[x].book[e].loaded
    BY <1>1, <2>2, FundedOf DEF Loaded
  <2> QED BY <2>1, <2>2
<1>4. \A d \in Escrows : run'[x].book[d] = IF d = e THEN Loaded(x, e) ELSE run[x].book[d]
  BY <1>1, <1>2
<1> HIDE DEF e
<1>5. \A d \in Escrows : /\ run[x].book[d].loaded => run'[x].book[d].loaded
                         /\ run'[x].book[d].loaded => run'[x].book[d].funded <= funded[d]
  BY <1>3, <1>4 DEF MemoryInv, Remembers
<1>6. run'[x].step \in {"record", "key", "post"} => run'[x].book[EscrowOf[run'[x].at]].loaded
  BY <1>1, <1>3, <1>4 DEF e
<1>7. \A d \in Escrows : \A k \in Kinds : <<d, k>> \in run'[x].raised => run'[x].book[d].loaded
  BY <1>5 DEF MemoryInv, Remembers
<1>8. Remembers(x)'
  BY <1>5, <1>6, <1>7 DEF Remembers
<1> QED BY <1>8, OthersRemember

LEMMA PostRemembers ==
    ASSUME MemoryInv, TypeInv', NEW x \in Executors, Post(x)
    PROVE  MemoryInv'
<1> DEFINE e == EscrowOf[run[x].at]
           k == Kind[run[x].at]
<1>1. TypeInv
  BY DEF MemoryInv
<1>2. /\ e \in Escrows /\ k \in Kinds
      /\ run[x].step = "post" /\ run'[x].step = "next" /\ run'[x].raised = {<<e, k>>}
      /\ \A d \in Escrows : /\ run'[x].book[d].loaded = run[x].book[d].loaded
                            /\ run'[x].book[d].funded = run[x].book[d].funded
      /\ Others(x) /\ UNCHANGED funded
  BY <1>1, PostDoes
<1>3. run[x].book[e].loaded
  BY <1>2 DEF MemoryInv, Remembers
<1> HIDE DEF e, k
<1>4. Remembers(x)'
  BY <1>2, <1>3 DEF MemoryInv, Remembers
<1> QED BY <1>2, <1>4, OthersRemember

LEMMA StepRemembers == MemoryInv /\ [Next]_vars => MemoryInv'
<1> SUFFICES ASSUME MemoryInv, [Next]_vars PROVE MemoryInv'
  OBVIOUS
<1>1. TypeInv /\ TypeInv' /\ \A x \in Executors : Remembers(x)
  BY StepType DEF MemoryInv
<1>2. CASE UNCHANGED vars
  BY <1>1, <1>2 DEF vars, MemoryInv, Remembers, Short
<1>3. CASE Around
  <2>1. UNCHANGED run /\ \A e \in Escrows : funded[e] <= funded'[e]
    BY <1>1, <1>3, AroundDoes, FundedOf, PayoutAssumption
  <2>2. ASSUME NEW x \in Executors PROVE Remembers(x)'
    <3>1. ASSUME NEW e \in Escrows, run[x].book[e].loaded
          PROVE  run[x].book[e].funded <= funded'[e]
      <4>1. /\ run[x].book[e].funded \in Nat /\ funded[e] \in Nat /\ funded'[e] \in Nat
            /\ run[x].book[e].funded <= funded[e]
        BY <1>1, <3>1, BookOf, FundedOf DEF Remembers, TypeInv, TypeOK
      <4> QED BY <2>1, <4>1
    <3> QED BY <1>1, <2>1, <3>1 DEF Remembers, Short
  <2> QED BY <1>1, <2>2 DEF MemoryInv
<1>4. ASSUME NEW x \in Executors, Claim(x) PROVE MemoryInv'
  <2>1. /\ run'[x].step = "next" /\ run'[x].raised = {}
        /\ \A e \in Escrows : ~run'[x].book[e].loaded
        /\ Others(x) /\ UNCHANGED db
    BY <1>1, <1>4, ClaimDoes
  <2>2. Remembers(x)'
    BY <2>1 DEF Remembers
  <2> QED BY <1>1, <2>1, <2>2, OthersRemember DEF db
<1>5. ASSUME NEW x \in Executors, NEW a \in Attempts, Ask(x, a) PROVE MemoryInv'
  <2>1. /\ run'[x].step = "record" /\ run'[x].at = a /\ run'[x].raised = run[x].raised
        /\ run'[x].book = [run[x].book EXCEPT ![EscrowOf[a]] = Loaded(x, EscrowOf[a])]
        /\ Others(x) /\ UNCHANGED db
    BY <1>1, <1>5, AskDoes
  <2> QED BY <1>1, <2>1, LoadRemembers DEF db
<1>6. ASSUME NEW x \in Executors, NEW a \in Attempts, RailUnavailable(x, a) PROVE MemoryInv'
  BY <1>1, <1>6, RailUnavailableDoes, LoadRemembers DEF db
<1>7. ASSUME NEW x \in Executors, Record(x) PROVE MemoryInv'
  BY <1>1, <1>7, RecordDoes, WorkRemembers DEF db, Remembers
<1>8. ASSUME NEW x \in Executors, LookUpKey(x) PROVE MemoryInv'
  BY <1>1, <1>8, LookUpKeyDoes, WorkRemembers DEF db, Remembers
<1>9. ASSUME NEW x \in Executors, Post(x) PROVE MemoryInv'
  BY <1>1, <1>9, PostRemembers
<1>10. ASSUME NEW x \in Executors, Replay(x) PROVE MemoryInv'
  BY <1>1, <1>10, ReplayDoes, WorkRemembers DEF db
<1>11. ASSUME NEW x \in Executors, Finish(x) \/ Interrupt(x) PROVE MemoryInv'
  <2>1. run'[x] = Idle /\ Others(x) /\ UNCHANGED funded
    BY <1>1, <1>11, EndDoes
  <2>2. Remembers(x)'
    BY <2>1, IdleFields DEF Remembers
  <2> QED BY <1>1, <2>1, <2>2, OthersRemember
<1> QED BY <1>1, <1>2, <1>3, <1>4, <1>5, <1>6, <1>7, <1>8, <1>9, <1>10, <1>11
        DEF Next, Work, Around

\* Without overlap one session is at work, and what is not in the columns yet
\* is in its memory, which is the ledger's own account.
OneAtWork == \A x, y \in Executors :
    run[x].step # "idle" /\ run[y].step # "idle" => x = y

Counted == \A e \in Escrows, k \in Kinds :
    paidOut[e][k] = moved[e][k] \/ \E x \in Executors : <<e, k>> \in run[x].raised

InStep == \A x \in Executors : \A e \in Escrows :
    run[x].book[e].loaded => run[x].book[e].out = moved[e]

Balanced == OneAtWork /\ Counted /\ InStep /\ NotOverdrawn
BookInv  == MemoryInv /\ (~disturbed => Balanced)

\* Two counters that agree kind by kind are one.
LEMMA SameCounters ==
    ASSUME NEW c \in Counters, NEW d \in Counters, \A k \in Kinds : c[k] = d[k]
    PROVE  c = d
BY DEF Counters

\* The session at work has the ledger's account of an escrow in its memory or
\* finds it in the columns.
LEMMA OnlyOneRaises ==
    ASSUME MemoryInv, Balanced, NEW x \in Executors, run[x].step # "idle",
           NEW e \in Escrows, NEW k \in Kinds, <<e, k>> \notin run[x].raised
    PROVE  paidOut[e][k] = moved[e][k]
<1>1. ASSUME NEW y \in Executors, <<e, k>> \in run[y].raised PROVE FALSE
  <2>1. run[y].step # "idle"
    BY <1>1, IdleForgets
  <2> QED BY <1>1, <2>1 DEF Balanced, OneAtWork
<1> QED BY <1>1 DEF Balanced, Counted

LEMMA LoadedInStep ==
    ASSUME MemoryInv, Balanced, NEW x \in Executors, run[x].step # "idle", NEW e \in Escrows
    PROVE  Loaded(x, e).out = moved[e]
<1>1. CASE run[x].book[e].loaded
  BY <1>1 DEF Loaded, Balanced, InStep
<1>2. CASE ~run[x].book[e].loaded
  <2>1. \A k \in Kinds : <<e, k>> \notin run[x].raised
    BY <1>2 DEF MemoryInv, Remembers
  <2>2. \A k \in Kinds : paidOut[e][k] = moved[e][k]
    BY <2>1, OnlyOneRaises
  <2>3. paidOut[e] = moved[e]
    BY <2>2, FundedOf, SameCounters DEF MemoryInv
  <2> QED BY <1>2, <2>3 DEF Loaded
<1> QED BY <1>1, <1>2

\* A commit brings the columns up to the ledger as it was before.
LEMMA CommitBalances ==
    ASSUME MemoryInv, Balanced, NEW x \in Executors, run[x].step # "idle",
           \A d \in Escrows : paidOut'[d] = CountersOf(x, d),
           NEW e \in Escrows, NEW k \in Kinds
    PROVE  paidOut'[e][k] = moved[e][k]
<1>1. paidOut'[e][k] = IF <<e, k>> \in run[x].raised THEN run[x].book[e].out[k] ELSE paidOut[e][k]
  BY DEF CountersOf
<1>2. CASE <<e, k>> \in run[x].raised
  <2>1. run[x].book[e].out = moved[e]
    BY <1>2 DEF MemoryInv, Remembers, Balanced, InStep
  <2> QED BY <1>1, <1>2, <2>1
<1>3. CASE <<e, k>> \notin run[x].raised
  BY <1>1, <1>3, OnlyOneRaises
<1> QED BY <1>2, <1>3

\* The step of a session that neither posts nor commits.
LEMMA WorkBalances ==
    ASSUME BookInv, ~disturbed, NEW x \in Executors, run[x].step # "idle", Others(x),
           UNCHANGED db, run'[x].raised = run[x].raised,
           \A e \in Escrows : run'[x].book[e].loaded =>
               run'[x].book[e].out = moved[e]
    PROVE  Balanced'
<1>1. OneAtWork'
  BY DEF BookInv, Balanced, OneAtWork, Others
<1>2. Counted'
  BY DEF BookInv, Balanced, Counted, Others, db
<1>3. InStep'
  BY DEF BookInv, Balanced, InStep, Others, db
<1> QED BY <1>1, <1>2, <1>3 DEF BookInv, Balanced, NotOverdrawn, db

LEMMA LoadBalances ==
    ASSUME BookInv, ~disturbed, NEW x \in Executors, run[x].step # "idle", Others(x),
           UNCHANGED db, run'[x].raised = run[x].raised, NEW a \in Attempts,
           run'[x].book = [run[x].book EXCEPT ![EscrowOf[a]] = Loaded(x, EscrowOf[a])]
    PROVE  Balanced'
<1>1. ASSUME NEW e \in Escrows, run'[x].book[e].loaded
      PROVE  run'[x].book[e].out = moved[e]
  <2>1. run[x].book \in [Escrows -> Book] /\ EscrowOf[a] \in Escrows
    BY BookOf, PayoutAssumption DEF BookInv, MemoryInv
  <2>2. CASE e = EscrowOf[a]
    BY <2>1, <2>2, LoadedInStep DEF BookInv
  <2>3. CASE e # EscrowOf[a]
    <3>1. run'[x].book[e] = run[x].book[e]
      BY <2>1, <2>3
    <3> QED BY <1>1, <3>1 DEF BookInv, Balanced, InStep
  <2> QED BY <2>2, <2>3
<1> QED BY <1>1, WorkBalances

LEMMA ClaimBalances ==
    ASSUME BookInv, NEW x \in Executors, Claim(x), ~disturbed'
    PROVE  Balanced'
<1>1. /\ run[x].step = "idle" /\ run'[x].raised = {}
      /\ \A e \in Escrows : ~run'[x].book[e].loaded
      /\ Others(x) /\ UNCHANGED <<moved, paidOut, funded>>
      /\ ~disturbed /\ \A y \in Executors : run[y].step = "idle"
  BY ClaimDoes DEF BookInv, MemoryInv, db
<1>2. OneAtWork'
  BY <1>1 DEF OneAtWork, Others
<1>3. \A y \in Executors : run[y].raised = {}
  BY <1>1, IdleForgets DEF BookInv
<1>4. Counted'
  BY <1>1, <1>3 DEF BookInv, Balanced, Counted
<1>5. InStep'
  BY <1>1 DEF BookInv, Balanced, InStep, Others
<1> QED BY <1>1, <1>2, <1>4, <1>5 DEF BookInv, Balanced, NotOverdrawn

LEMMA FinishBalances ==
    ASSUME BookInv, NEW x \in Executors, Finish(x), ~disturbed'
    PROVE  Balanced'
<1>1. /\ run'[x] = Idle /\ Others(x) /\ UNCHANGED <<moved, funded>>
      /\ \A d \in Escrows : paidOut'[d] = CountersOf(x, d)
      /\ run[x].step = "next" /\ ~disturbed
  BY EndDoes DEF BookInv, MemoryInv
<1>2. OneAtWork'
  BY <1>1, IdleFields DEF BookInv, Balanced, OneAtWork, Others
<1>3. Counted'
  BY <1>1, CommitBalances DEF BookInv, Counted
<1>4. InStep'
  BY <1>1, IdleFields DEF BookInv, Balanced, InStep, Others
<1> QED BY <1>1, <1>2, <1>3, <1>4 DEF BookInv, Balanced, NotOverdrawn

\* What a posting adds stays within what the session read of the funding, and
\* what it read is what there is.
LEMMA PostBalances ==
    ASSUME BookInv, NEW x \in Executors, Post(x), ~disturbed'
    PROVE  Balanced'
<1> DEFINE a == run[x].at
           e == EscrowOf[a]
           k == Kind[a]
<1>1. /\ a \in Attempts /\ e \in Escrows /\ k \in Kinds
      /\ run[x].step = "post" /\ run'[x].step = "next" /\ run'[x].raised = {<<e, k>>}
      /\ \A d \in Escrows : /\ run'[x].book[d].loaded = run[x].book[d].loaded
                            /\ d # e => run'[x].book[d].out = run[x].book[d].out
      /\ run'[x].book[e].out = Plus(run[x].book[e].out, k, Amount[a])
      /\ moved'[e] = Plus(moved[e], k, Amount[a])
      /\ \A d \in Escrows : d # e => moved'[d] = moved[d]
      /\ \A d \in Escrows : paidOut'[d] = CountersOf(x, d)
      /\ Others(x) /\ UNCHANGED <<funded, disturbed>>
  <2>1. TypeInv
    BY DEF BookInv, MemoryInv
  <2>2. e = EscrowOf[run[x].at] /\ k = Kind[run[x].at]
    OBVIOUS
  <2> HIDE DEF e, k
  <2>3. /\ a \in Attempts /\ e \in Escrows /\ k \in Kinds
        /\ run[x].step = "post" /\ run'[x].step = "next" /\ run'[x].raised = {<<e, k>>}
        /\ Others(x) /\ UNCHANGED <<funded, disturbed>>
    BY <2>1, <2>2, PostDoes
  <2>4. /\ \A d \in Escrows : /\ run'[x].book[d].loaded = run[x].book[d].loaded
                              /\ d # e => run'[x].book[d].out = run[x].book[d].out
        /\ \A d \in Escrows : paidOut'[d] = CountersOf(x, d)
    BY <2>1, <2>2, PostDoes
  <2>5. run'[x].book[e].out = Plus(run[x].book[e].out, k, Amount[a])
    BY <2>1, <2>2, PostDoes
  <2>6. /\ moved'[e] = Plus(moved[e], k, Amount[a])
        /\ \A d \in Escrows : d # e => moved'[d] = moved[d]
    BY <2>1, <2>2, PostDoes
  <2> QED BY <2>3, <2>4, <2>5, <2>6
<1>2. /\ MemoryInv /\ Balanced /\ moved \in [Escrows -> Counters] /\ Amount[a] \in Nat
      /\ run[x].book[e].loaded /\ run[x].book[e].funded <= funded[e]
      /\ ~Short(run[x].book[e], a)
  BY <1>1, PayoutAssumption DEF BookInv, MemoryInv, Remembers, TypeInv, TypeOK
<1>3. run[x].book[e].out = moved[e]
  BY <1>1, <1>2 DEF Balanced, InStep
<1> HIDE DEF a, e, k
<1>4. moved'[e] = [moved[e] EXCEPT ![k] = moved[e][k] + Amount[a]]
  BY <1>1 DEF Plus
<1>5. \A y \in Executors : run'[y].step # "idle" => y = x
  BY <1>1, <1>2 DEF Balanced, OneAtWork, Others
<1>6. OneAtWork'
  BY <1>5 DEF OneAtWork
<1>7. Counted'
  <2> SUFFICES ASSUME NEW d \in Escrows, NEW j \in Kinds, <<d, j>> # <<e, k>>
               PROVE  paidOut'[d][j] = moved'[d][j]
    BY <1>1 DEF Counted
  <2>1. paidOut'[d][j] = moved[d][j]
    BY <1>1, <1>2, CommitBalances
  <2>2. moved'[d][j] = moved[d][j]
    BY <1>1, <1>2, <1>4 DEF Counters
  <2> QED BY <2>1, <2>2
<1>8. InStep'
  <2> SUFFICES ASSUME NEW y \in Executors, NEW d \in Escrows, run'[y].book[d].loaded
               PROVE  run'[y].book[d].out = moved'[d]
    BY DEF InStep
  <2>1. CASE y = x
    <3>1. CASE d = e
      BY <1>1, <1>3, <2>1, <3>1
    <3>2. CASE d # e
      BY <1>1, <1>2, <2>1, <3>2 DEF Balanced, InStep
    <3> QED BY <3>1, <3>2
  <2>2. CASE y # x
    <3>1. run'[y] = run[y] /\ run[y].step = "idle"
      BY <1>1, <1>5, <2>2 DEF Others
    <3> QED BY <1>2, <3>1, IdleForgets
  <2> QED BY <2>1, <2>2
<1>9. NotOverdrawn'
  <2> SUFFICES ASSUME NEW d \in Escrows
               PROVE  moved'[d]["release"] + moved'[d]["refund"] <= funded[d]
    BY <1>1 DEF NotOverdrawn
  <2>1. CASE d # e
    BY <1>1, <1>2, <2>1 DEF Balanced, NotOverdrawn
  <2>2. CASE d = e
    <3>1. /\ moved[e] \in [Kinds -> Nat] /\ funded[e] \in Nat /\ run[x].book[e].funded \in Nat
      BY <1>1, <1>2, BookOf, FundedOf DEF MemoryInv, Counters
    <3>2. moved[e]["release"] + moved[e]["refund"] + Amount[a] <= run[x].book[e].funded
      <4>1. EscrowOf[a] = e
        BY DEF e
      <4> QED BY <1>2, <1>3, <3>1 DEF Short, Kinds
    <3>3. moved'[e]["release"] + moved'[e]["refund"]
            = moved[e]["release"] + moved[e]["refund"] + Amount[a]
      BY <1>1, <1>2, <1>4, <3>1 DEF Kinds
    <3>4. /\ moved[e]["release"] \in Nat /\ moved[e]["refund"] \in Nat
      BY <3>1 DEF Kinds
    <3> QED BY <1>2, <2>2, <3>1, <3>2, <3>3, <3>4
  <2> QED BY <2>1, <2>2
<1> QED BY <1>6, <1>7, <1>8, <1>9 DEF Balanced
LEMMA StepBalances == BookInv /\ [Next]_vars => BookInv'
<1> SUFFICES ASSUME BookInv, [Next]_vars PROVE BookInv'
  OBVIOUS
<1>1. MemoryInv /\ TypeInv /\ MemoryInv'
  BY StepRemembers DEF BookInv, MemoryInv
<1> SUFFICES ASSUME ~disturbed' PROVE Balanced'
  BY <1>1 DEF BookInv
<1>2. CASE UNCHANGED vars
  BY <1>2 DEF vars, BookInv, Balanced, OneAtWork, Counted, InStep, NotOverdrawn
<1>3. CASE Around
  <2>1. /\ UNCHANGED <<run, moved, paidOut, disturbed>>
        /\ \A e \in Escrows : funded[e] <= funded'[e]
    BY <1>1, <1>3, AroundDoes, FundedOf, PayoutAssumption
  <2>2. NotOverdrawn'
    <3> SUFFICES ASSUME NEW e \in Escrows
                 PROVE  moved[e]["release"] + moved[e]["refund"] <= funded'[e]
      BY <2>1 DEF NotOverdrawn
    <3>1. moved[e] \in [Kinds -> Nat] /\ funded[e] \in Nat /\ funded'[e] \in Nat
      BY <1>1, FundedOf DEF Counters, MemoryInv, TypeInv, TypeOK
    <3>2. moved[e]["release"] \in Nat /\ moved[e]["refund"] \in Nat
      BY <3>1 DEF Kinds
    <3>3. moved[e]["release"] + moved[e]["refund"] <= funded[e]
      BY <2>1 DEF BookInv, Balanced, NotOverdrawn
    <3> QED BY <2>1, <3>1, <3>2, <3>3
  <2> QED BY <2>1, <2>2 DEF BookInv, Balanced, OneAtWork, Counted, InStep
<1>4. ASSUME NEW x \in Executors, Claim(x) PROVE Balanced'
  BY <1>4, ClaimBalances
<1>5. ASSUME NEW x \in Executors, NEW a \in Attempts, Ask(x, a) PROVE Balanced'
  <2>1. /\ run[x].step = "next" /\ run'[x].raised = run[x].raised
        /\ run'[x].book = [run[x].book EXCEPT ![EscrowOf[a]] = Loaded(x, EscrowOf[a])]
        /\ Others(x) /\ UNCHANGED <<db, disturbed>>
    BY <1>1, <1>5, AskDoes
  <2> QED BY <2>1, LoadBalances
<1>6. ASSUME NEW x \in Executors, NEW a \in Attempts, RailUnavailable(x, a) PROVE Balanced'
  BY <1>1, <1>6, RailUnavailableDoes, LoadBalances
<1>7. ASSUME NEW x \in Executors, Record(x) \/ LookUpKey(x) \/ Replay(x) PROVE Balanced'
  <2>1. /\ run[x].step # "idle" /\ run'[x].raised = run[x].raised
        /\ run'[x].book = run[x].book /\ Others(x) /\ UNCHANGED <<db, disturbed>>
    BY <1>1, <1>7, RecordDoes, LookUpKeyDoes, ReplayDoes
  <2>2. ~disturbed /\ \A e \in Escrows : run'[x].book[e].loaded => run'[x].book[e].out = moved[e]
    BY <2>1 DEF BookInv, Balanced, InStep
  <2> QED BY <2>1, <2>2, WorkBalances
<1>8. ASSUME NEW x \in Executors, Post(x) PROVE Balanced'
  BY <1>8, PostBalances
<1>9. ASSUME NEW x \in Executors, Finish(x) PROVE Balanced'
  BY <1>9, FinishBalances
<1>10. ASSUME NEW x \in Executors, Interrupt(x) PROVE FALSE
  BY <1>1, <1>10, EndDoes
<1> QED BY <1>2, <1>3, <1>4, <1>5, <1>6, <1>7, <1>8, <1>9, <1>10 DEF Next, Work, Around

LEMMA InitBalances == Init => BookInv
<1> SUFFICES ASSUME Init PROVE BookInv
  OBVIOUS
<1>1. TypeInv
  BY InitType
<1>2. \A x \in Executors : run[x] = Idle
  BY DEF Init
<1>3. MemoryInv
  BY <1>1, <1>2, IdleRemembers DEF MemoryInv
<1>4. OneAtWork /\ InStep
  BY <1>2, IdleFields DEF OneAtWork, InStep
<1>5. Counted /\ NotOverdrawn
  BY DEF Init, Counted, NotOverdrawn, Kinds
<1> QED BY <1>3, <1>4, <1>5 DEF BookInv, Balanced

\* Without overlap or death the columns, what the session at work has not
\* committed yet and the ledger are one account, and it is covered.
THEOREM BookInvariant == Spec => []BookInv
BY InitBalances, StepBalances, PTL DEF Spec

\* When no run has died and no two have overlapped, an escrow's counters are
\* what the ledger moved out of it, as soon as no run is at work.
THEOREM BooksCorrect == Spec => []BooksMatchCounters
<1>1. BookInv => BooksMatchCounters
  <2> SUFFICES ASSUME BookInv, ~disturbed, \A x \in Executors : run[x].step = "idle",
                      NEW e \in Escrows, NEW k \in Kinds
               PROVE  moved[e][k] = paidOut[e][k]
    BY DEF BooksMatchCounters
  <2>1. \A x \in Executors : <<e, k>> \notin run[x].raised
    BY IdleForgets DEF BookInv
  <2> QED BY <2>1 DEF BookInv, Balanced, Counted
<1> QED BY <1>1, BookInvariant, PTL

\* Whatever payouts an escrow has, the sessions that neither overlap nor die
\* never move more out of it than was booked in.
THEOREM UndisturbedNotOverdrawn == Spec => [](~disturbed => NotOverdrawn)
<1>1. BookInv => (~disturbed => NotOverdrawn)
  BY DEF BookInv, Balanced
<1> QED BY <1>1, BookInvariant, PTL
-----------------------------------------------------------------------------
(***************************************************************************)
(* The payouts of one settlement: an order is released, refunded or split  *)
(* once, so an escrow has at most one payout of each kind and together     *)
(* they are no more than its total.                                        *)
(***************************************************************************)
OneSettlement ==
    \A a \in Attempts :
        /\ Amount[a] <= Total[EscrowOf[a]]
        /\ \A b \in Siblings(a) \ {a} : /\ Kind[b] # Kind[a]
                                        /\ Amount[a] + Amount[b] <= Total[EscrowOf[a]]

FundedInFull == \A e \in Escrows : funded[e] \in {0, Total[e]}

\* What the ledger moved, it moved for one attempt and out of a funded escrow.
MovedFor(e, k, a) ==
    EscrowOf[a] = e /\ Kind[a] = k /\ posted[a] = 1 /\ moved[e][k] = Amount[a]

EachMoved == \A e \in Escrows, k \in Kinds :
    moved[e][k] = 0 \/ (funded[e] = Total[e] /\ \E a \in Attempts : MovedFor(e, k, a))

SettleInv == PostInv /\ MemoryInv /\ FundedInFull /\ EachMoved

LEMMA SettledWithin ==
    ASSUME OneSettlement, SettleInv
    PROVE  NotOverdrawn
<1> SUFFICES ASSUME NEW e \in Escrows
             PROVE  moved[e]["release"] + moved[e]["refund"] <= funded[e]
  BY DEF NotOverdrawn
<1>1. /\ moved[e]["release"] \in Nat /\ moved[e]["refund"] \in Nat /\ funded[e] \in Nat
      /\ Total[e] \in Nat
  BY FundedOf, PayoutAssumption DEF SettleInv, MemoryInv, Counters, Kinds
<1>2. ASSUME NEW k \in Kinds, moved[e][k] # 0
      PROVE  funded[e] = Total[e] /\ \E a \in Attempts : MovedFor(e, k, a)
  BY <1>2 DEF SettleInv, EachMoved
<1>3. ASSUME NEW k \in Kinds, moved[e][k] # 0
      PROVE  moved[e][k] <= funded[e]
  <2>1. PICK a \in Attempts : MovedFor(e, k, a)
    BY <1>2, <1>3
  <2> QED BY <1>2, <1>3, <2>1 DEF MovedFor, OneSettlement
<1>4. CASE moved[e]["release"] = 0
  BY <1>1, <1>3, <1>4 DEF Kinds
<1>5. CASE moved[e]["refund"] = 0
  BY <1>1, <1>3, <1>5 DEF Kinds
<1>6. CASE moved[e]["release"] # 0 /\ moved[e]["refund"] # 0
  <2>1. PICK a \in Attempts : MovedFor(e, "release", a)
    BY <1>2, <1>6 DEF Kinds
  <2>2. PICK b \in Attempts : MovedFor(e, "refund", b)
    BY <1>2, <1>6 DEF Kinds
  <2>3. b \in Siblings(a) \ {a}
    BY <2>1, <2>2 DEF MovedFor, Siblings
  <2>4. Amount[a] + Amount[b] <= Total[e]
    BY <2>1, <2>3 DEF MovedFor, OneSettlement
  <2>5. funded[e] = Total[e]
    BY <1>2, <1>6 DEF Kinds
  <2> QED BY <2>1, <2>2, <2>4, <2>5 DEF MovedFor
<1> QED BY <1>4, <1>5, <1>6

LEMMA PostSettles ==
    ASSUME OneSettlement, SettleInv, NEW x \in Executors, Post(x)
    PROVE  FundedInFull' /\ EachMoved'
<1> DEFINE a == run[x].at
           e == EscrowOf[a]
           k == Kind[a]
<1>1. TypeInv /\ e = EscrowOf[run[x].at] /\ k = Kind[run[x].at]
  BY DEF SettleInv, PostInv
<1>2. posted[a] = 0
  BY DEF Post, SettleInv, PostInv, Safe, KeyHeld
<1> HIDE DEF e, k
<1>3. /\ a \in Attempts /\ e \in Escrows /\ k \in Kinds /\ run[x].step = "post"
      /\ posted' = [posted EXCEPT ![a] = posted[a] + 1]
      /\ moved'[e] = Plus(moved[e], k, Amount[a])
      /\ \A d \in Escrows : d # e => moved'[d] = moved[d]
      /\ UNCHANGED funded
  BY <1>1, PostDoes
<1>4. e = EscrowOf[a] /\ k = Kind[a]
  BY DEF e, k
<1> HIDE DEF a
<1>5. /\ posted'[a] = 1 /\ \A b \in Attempts : b # a => posted'[b] = posted[b]
  BY <1>1, <1>2, <1>3 DEF TypeInv, TypeOK
<1>6. /\ moved[e] \in [Kinds -> Nat] /\ Amount[a] \in Nat \ {0}
      /\ Total[e] \in Nat /\ funded[e] \in Nat
  BY <1>1, <1>3, FundedOf, PayoutAssumption DEF Counters
<1>7. moved[e][k] = 0
  <2> SUFFICES ASSUME moved[e][k] # 0 PROVE FALSE
    OBVIOUS
  <2>1. PICK b \in Attempts : MovedFor(e, k, b)
    BY <1>3 DEF SettleInv, EachMoved
  <2>2. b # a
    BY <1>2, <2>1 DEF MovedFor
  <2>3. b \in Siblings(a) \ {a}
    BY <1>4, <2>1, <2>2 DEF MovedFor, Siblings
  <2> QED BY <1>3, <1>4, <2>1, <2>3 DEF MovedFor, OneSettlement
<1>8. moved'[e][k] = Amount[a] /\ \A j \in Kinds : j # k => moved'[e][j] = moved[e][j]
  BY <1>3, <1>6, <1>7 DEF Plus
<1>9. funded[e] = Total[e]
  <2>1. /\ run[x].book[e].loaded /\ run[x].book[e].funded <= funded[e]
        /\ ~Short(run[x].book[e], a)
    BY <1>3, <1>4 DEF SettleInv, MemoryInv, Remembers, a
  <2>2. /\ run[x].book[e].funded \in Nat /\ run[x].book[e].out["release"] \in Nat
        /\ run[x].book[e].out["refund"] \in Nat
    BY <1>1, <1>3, BookOf DEF Counters, Kinds
  <2>3. funded[e] # 0
    BY <1>6, <2>1, <2>2 DEF Short
  <2> QED BY <1>3, <2>3 DEF SettleInv, FundedInFull
<1>10. FundedInFull'
  BY <1>3 DEF SettleInv, FundedInFull
<1>11. EachMoved'
  <2> SUFFICES ASSUME NEW d \in Escrows, NEW j \in Kinds, moved'[d][j] # 0
               PROVE  funded'[d] = Total[d] /\ \E b \in Attempts : MovedFor(d, j, b)'
    BY DEF EachMoved
  <2>1. CASE d = e /\ j = k
    <3>1. PICK b \in Attempts : b = a
      BY <1>3
    <3>2. MovedFor(d, j, b)'
      BY <1>4, <1>5, <1>8, <2>1, <3>1 DEF MovedFor
    <3> QED BY <1>3, <1>9, <2>1, <3>2
  <2>2. CASE d # e \/ j # k
    <3>1. moved'[d][j] = moved[d][j]
      BY <1>3, <1>8, <2>2
    <3>2. funded[d] = Total[d] /\ \E b \in Attempts : MovedFor(d, j, b)
      BY <3>1 DEF SettleInv, EachMoved
    <3>3. PICK b \in Attempts : MovedFor(d, j, b)
      BY <3>2
    <3>4. b # a
      BY <1>2, <3>3 DEF MovedFor
    <3>5. MovedFor(d, j, b)'
      BY <1>5, <3>1, <3>3, <3>4 DEF MovedFor
    <3> QED BY <1>3, <3>2, <3>5
  <2> QED BY <2>1, <2>2
<1> QED BY <1>10, <1>11

LEMMA StepSettles ==
    ASSUME OneSettlement
    PROVE  SettleInv /\ [Next]_vars => SettleInv'
<1> SUFFICES ASSUME SettleInv, [Next]_vars PROVE SettleInv'
  OBVIOUS
<1>1. PostInv' /\ MemoryInv' /\ TypeInv
  BY StepSafe, StepRemembers DEF SettleInv, MemoryInv
<1>2. ASSUME UNCHANGED <<posted, moved, funded>> PROVE FundedInFull' /\ EachMoved'
  BY <1>2 DEF SettleInv, FundedInFull, EachMoved, MovedFor
<1>3. CASE UNCHANGED vars
  BY <1>1, <1>2, <1>3 DEF vars, SettleInv
<1>4. CASE Around
  <2>1. /\ UNCHANGED <<posted, moved>>
        /\ \A e \in Escrows : funded'[e] = funded[e] \/ (funded[e] = 0 /\ funded'[e] = Total[e])
    BY <1>1, <1>4, AroundDoes
  <2>2. FundedInFull'
    BY <2>1 DEF SettleInv, FundedInFull
  <2>3. EachMoved'
    <3> SUFFICES ASSUME NEW e \in Escrows, NEW k \in Kinds, moved[e][k] # 0
                 PROVE  funded'[e] = Total[e] /\ \E a \in Attempts : MovedFor(e, k, a)'
      BY <2>1 DEF EachMoved
    <3>1. funded[e] = Total[e] /\ \E a \in Attempts : MovedFor(e, k, a)
      BY DEF SettleInv, EachMoved
    <3>2. PICK a \in Attempts : MovedFor(e, k, a)
      BY <3>1
    <3>3. MovedFor(e, k, a)'
      BY <2>1, <3>2 DEF MovedFor
    <3> QED BY <2>1, <3>1, <3>3
  <2> QED BY <1>1, <2>2, <2>3 DEF SettleInv
<1>5. ASSUME NEW x \in Executors, Post(x) PROVE FundedInFull' /\ EachMoved'
  BY <1>5, PostSettles
<1>6. ASSUME NEW x \in Executors, Claim(x) PROVE UNCHANGED <<posted, moved, funded>>
  BY <1>6 DEF Claim, db
<1>7. ASSUME NEW x \in Executors, Finish(x) \/ Interrupt(x)
      PROVE  UNCHANGED <<posted, moved, funded>>
  BY <1>1, <1>7, EndDoes
<1>8. ASSUME NEW x \in Executors,
             (\E a \in Attempts : Ask(x, a) \/ RailUnavailable(x, a))
                \/ Record(x) \/ LookUpKey(x) \/ Replay(x)
      PROVE  UNCHANGED <<posted, moved, funded>>
  BY <1>8 DEF Ask, RailUnavailable, Record, LookUpKey, Replay, db
<1>9. ASSUME NEW x \in Executors, Claim(x) \/ Work(x) \/ Interrupt(x)
      PROVE  FundedInFull' /\ EachMoved'
  BY <1>2, <1>5, <1>6, <1>7, <1>8, <1>9 DEF Work
<1> QED BY <1>1, <1>3, <1>4, <1>9 DEF Next, Around, SettleInv

LEMMA InitSettles == Init => SettleInv
<1> SUFFICES ASSUME Init PROVE SettleInv
  OBVIOUS
<1>1. PostInv /\ MemoryInv
  BY InitType, InitSafe, InitBalances DEF PostInv, BookInv
<1>2. FundedInFull /\ EachMoved
  BY DEF Init, FundedInFull, EachMoved
<1> QED BY <1>1, <1>2 DEF SettleInv

\* No overlap and no death of a session, and no stale counter it worked from,
\* makes the payouts of one settlement move more than was booked in: the row
\* lock and the ledger's key keep each to one posting, and none is posted
\* before the funding.
THEOREM SettlementNotOverdrawn ==
    ASSUME OneSettlement
    PROVE  Spec => []NotOverdrawn
<1>1. Init => SettleInv
  BY InitSettles
<1>2. SettleInv /\ [Next]_vars => SettleInv'
  BY StepSettles
<1>3. SettleInv => NotOverdrawn
  BY SettledWithin
<1> QED BY <1>1, <1>2, <1>3, PTL DEF Spec
-----------------------------------------------------------------------------
(***************************************************************************)
(* The executors implement EscrowAccount: the only steps that move the     *)
(* balance are the booking of the funding and a session's posting.         *)
(***************************************************************************)
HeldOf(e) == funded[e] - (moved[e]["release"] + moved[e]["refund"])

\* A step that neither funds nor posts is a stutter of the account.
LEMMA AccountStutters ==
    ASSUME UNCHANGED <<posted, moved, funded>>
    PROVE  UNCHANGED <<Held, Booked, Paid>>
BY DEF Held, Booked, Paid

\* The funding is booked in once and in full.
LEMMA FundBooksIn ==
    ASSUME SettleInv, NEW e \in Escrows, Fund(e)
    PROVE  Account!BookIn(e)
<1>1. /\ funded[e] = 0 /\ funded' = [funded EXCEPT ![e] = Total[e]]
      /\ UNCHANGED <<posted, moved>>
  BY DEF Fund
<1>2. \A d \in Escrows : /\ funded[d] \in Nat
                         /\ moved[d]["release"] \in Nat /\ moved[d]["refund"] \in Nat
  BY FundedOf DEF SettleInv, MemoryInv, Counters, Kinds
<1>3. Total[e] \in Nat \ {0}
  BY PayoutAssumption
<1>4. \A d \in Escrows : funded'[d] = IF d = e THEN Total[e] ELSE funded[d]
  BY <1>1 DEF SettleInv, PostInv, TypeInv, TypeOK
<1>5. e \notin Booked /\ Booked' = Booked \cup {e}
  BY <1>1, <1>2, <1>3, <1>4 DEF Booked
<1>6. UNCHANGED Paid
  BY <1>1 DEF Paid
<1>7. \A d \in Escrows : HeldOf(d)' = IF d = e THEN HeldOf(d) + Total[e] ELSE HeldOf(d)
  BY <1>1, <1>2, <1>3, <1>4 DEF HeldOf
<1>8. Held' = [Held EXCEPT ![e] = @ + Total[e]]
  BY <1>7 DEF Held, HeldOf
<1> QED BY <1>5, <1>6, <1>8 DEF Account!BookIn

\* A posting books out the session's attempt, which was not, and is covered.
LEMMA PostBooksOut ==
    ASSUME SettleInv, NotOverdrawn', NEW x \in Executors, Post(x)
    PROVE  \E a \in Attempts : Account!BookOut(a)
<1>1. TypeInv
  BY DEF SettleInv, PostInv
<1>2. PICK a \in Attempts : a = run[x].at
  BY <1>1 DEF TypeInv, InHand, Post
<1>3. PICK e \in Escrows, k \in Kinds : e = EscrowOf[a] /\ k = Kind[a]
  BY PayoutAssumption
<1>4. /\ posted' = [posted EXCEPT ![a] = posted[a] + 1]
      /\ moved'[e] = Plus(moved[e], k, Amount[a])
      /\ \A d \in Escrows : d # e => moved'[d] = moved[d]
      /\ UNCHANGED funded
  BY <1>1, <1>2, <1>3, PostDoes
<1>5. posted[a] = 0
  BY <1>2 DEF Post, SettleInv, PostInv, Safe, KeyHeld
<1>6. a \notin Paid /\ Paid' = Paid \cup {a}
  BY <1>1, <1>4, <1>5 DEF Paid, TypeInv, TypeOK
<1>7. /\ \A d \in Escrows : /\ funded[d] \in Nat
                            /\ moved[d]["release"] \in Nat /\ moved[d]["refund"] \in Nat
      /\ moved[e] \in [Kinds -> Nat] /\ Amount[a] \in Nat \ {0}
  BY <1>1, FundedOf, PayoutAssumption DEF Counters, Kinds
<1>8. moved'[e]["release"] + moved'[e]["refund"]
         = (moved[e]["release"] + moved[e]["refund"]) + Amount[a]
  <2>1. CASE k = "release"
    BY <1>4, <1>7, <2>1 DEF Plus, Kinds
  <2>2. CASE k = "refund"
    BY <1>4, <1>7, <2>2 DEF Plus, Kinds
  <2> QED BY <2>1, <2>2 DEF Kinds
<1>9. moved'[e]["release"] + moved'[e]["refund"] <= funded[e]
  BY <1>4 DEF NotOverdrawn
<1>10. HeldOf(e) >= Amount[a] /\ HeldOf(e)' = HeldOf(e) - Amount[a] /\ funded[e] > 0
  BY <1>4, <1>7, <1>8, <1>9 DEF HeldOf
<1>11. \A d \in Escrows : d # e => HeldOf(d)' = HeldOf(d)
  BY <1>4 DEF HeldOf
<1>12. Held' = [Held EXCEPT ![e] = @ - Amount[a]] /\ Held[e] = HeldOf(e)
  BY <1>10, <1>11 DEF Held, HeldOf
<1>13. UNCHANGED Booked /\ e \in Booked
  BY <1>4, <1>10 DEF Booked
<1>14. Amount[a] <= Held[e]
  BY <1>7, <1>10, <1>12 DEF HeldOf
<1>15. Account!BookOut(a)
  BY <1>3, <1>6, <1>12, <1>13, <1>14 DEF Account!BookOut
<1> QED BY <1>2, <1>15

\* Where an escrow's payouts are those of one settlement, the executors implement
\* EscrowAccount: whatever overlaps or dies, the ledger's account of an escrow
\* moves by one booking at a time, each once, by its amount, and covered.
THEOREM AccountKept ==
    ASSUME OneSettlement
    PROVE  Spec => KeepsAccount
<1>1. Init => SettleInv /\ Account!Init
  <2> SUFFICES ASSUME Init PROVE SettleInv /\ Account!Init
    OBVIOUS
  <2>1. SettleInv
    BY InitSettles
  <2>2. Held = [e \in Escrows |-> 0]
    BY DEF Init, Held, Kinds
  <2>3. Booked = {} /\ Paid = {}
    BY DEF Init, Booked, Paid
  <2> QED BY <2>1, <2>2, <2>3 DEF Account!Init
<1>2. SettleInv /\ [Next]_vars => SettleInv'
  BY StepSettles
<1>3. SettleInv => NotOverdrawn
  BY SettledWithin
<1>4. SettleInv /\ NotOverdrawn' /\ [Next]_vars => [Account!Next]_<<Held, Booked, Paid>>
  <2> SUFFICES ASSUME SettleInv, NotOverdrawn', [Next]_vars
               PROVE  Account!Next \/ UNCHANGED <<Held, Booked, Paid>>
    OBVIOUS
  <2>1. ASSUME NEW e \in Escrows, Fund(e) PROVE Account!Next
    BY <2>1, FundBooksIn DEF Account!Next
  <2>2. ASSUME NEW x \in Executors, Post(x) PROVE Account!Next
    BY <2>2, PostBooksOut DEF Account!Next
  <2>3. ASSUME UNCHANGED vars
               \/ Reconcile
               \/ \E a \in Attempts : Queue(a) \/ RailDecides(a) \/ TimePasses(a)
        PROVE  UNCHANGED <<posted, moved, funded>>
    BY <2>3 DEF vars, Reconcile, Queue, RailDecides, TimePasses, db
  <2>4. ASSUME NEW x \in Executors, Claim(x) \/ Interrupt(x) \/ (Work(x) /\ ~Post(x))
        PROVE  UNCHANGED <<posted, moved, funded>>
    BY <2>4 DEF Claim, Interrupt, Work, Ask, RailUnavailable, Record, LookUpKey, Replay,
                Finish, db
  <2> QED BY <2>1, <2>2, <2>3, <2>4, AccountStutters DEF Next
<1> QED BY <1>1, <1>2, <1>3, <1>4, PTL DEF Spec, KeepsAccount, Account!Spec
-----------------------------------------------------------------------------
(***************************************************************************)
(* The amounts that the handlers queue.                                    *)
(***************************************************************************)
\* The rounded release is never more than the amount that is split.
LEMMA ReleaseWithin ==
    ASSUME NEW amount \in Nat \ {0}, NEW ratio \in 1..(Scale - 1)
    PROVE  HalfEven(amount * ratio) \in 0..amount
<1> DEFINE n == amount * ratio
           q == n \div Scale
           r == n % Scale
<1>1. n \in Nat /\ n < amount * Scale
  BY DEF Scale
<1> HIDE DEF n
<1>2. q \in Nat /\ r \in 0..(Scale - 1) /\ n = Scale * q + r
  BY <1>1 DEF Scale
<1> HIDE DEF q, r
<1>3. q < amount
  <2>1. n < 10000 * amount /\ 10000 * q <= n
    BY <1>1, <1>2 DEF Scale
  <2> QED BY <1>2, <2>1
<1>4. HalfEven(n) = q \/ HalfEven(n) = q + 1
  BY DEF HalfEven, q, r
<1> QED BY <1>2, <1>3, <1>4 DEF n

\* What queue_release_full and queue_refund_full queue, or queue_split_payout:
\* the one payout of an escrow, or the two of a split that has two.
InFull(a) == Siblings(a) = {a} /\ Amount[a] = Total[EscrowOf[a]]

InShares(a) ==
    \E b \in Attempts, ratio \in 1..(Scale - 1) :
        LET shares == Shares(Total[EscrowOf[a]], ratio)
        IN  /\ Siblings(a) = {a, b} /\ Kind[b] # Kind[a]
            /\ Amount[a] = shares[Kind[a]] /\ Amount[b] = shares[Kind[b]]

\* However a split is rounded, its two payouts are one settlement of the order.
THEOREM QueuedSettles ==
    ASSUME \A a \in Attempts : InFull(a) \/ InShares(a)
    PROVE  OneSettlement
<1> SUFFICES ASSUME NEW a \in Attempts
             PROVE  /\ Amount[a] <= Total[EscrowOf[a]]
                    /\ \A b \in Siblings(a) \ {a} :
                         Kind[b] # Kind[a] /\ Amount[a] + Amount[b] <= Total[EscrowOf[a]]
  BY DEF OneSettlement
<1>1. Total[EscrowOf[a]] \in Nat \ {0} /\ Kind[a] \in Kinds
  BY PayoutAssumption
<1>2. CASE InFull(a)
  BY <1>1, <1>2 DEF InFull
<1>3. CASE InShares(a)
  <2> DEFINE total == Total[EscrowOf[a]]
  <2>1. PICK b \in Attempts, ratio \in 1..(Scale - 1) :
             /\ Siblings(a) = {a, b} /\ Kind[b] # Kind[a]
             /\ Amount[a] = Shares(total, ratio)[Kind[a]]
             /\ Amount[b] = Shares(total, ratio)[Kind[b]]
    BY <1>3 DEF InShares
  <2> DEFINE release == HalfEven(total * ratio)
  <2>2. release \in 0..total
    BY <1>1, ReleaseWithin
  <2>3. Kind[b] \in Kinds
    BY PayoutAssumption
  <2>4. \A k \in Kinds : Shares(total, ratio)[k] = IF k = "release" THEN release ELSE total - release
    BY DEF Shares
  <2> HIDE DEF release, total
  <2>5. total \in Nat
    BY <1>1 DEF total
  <2>6. Amount[a] <= total /\ Amount[a] + Amount[b] <= total
    BY <1>1, <2>1, <2>2, <2>3, <2>4, <2>5 DEF Kinds
  <2> QED BY <2>1, <2>6 DEF total
<1> QED BY <1>2, <1>3
=============================================================================
