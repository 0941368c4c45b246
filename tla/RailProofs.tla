------------------------------ MODULE RailProofs ------------------------------
(***************************************************************************)
(* What the breaker's rows keep true although no session locks a row       *)
(* before it reads it, and what they tell when sessions take turns: for any *)
(* rails, sessions, threshold and cooldown.                                *)
(***************************************************************************)
EXTENDS RailBreaker, TLAPS

Tripped == {"open", "half_open"}

\* As many failures happened to v as c, an earlier or later version, counts.
Covers(v, c) ==
    /\ c.fails <= v.total
    /\ c.state \in Tripped => v.total >= Threshold

\* What a session read, or made of it, is covered by the version it writes to:
\* failures are never forgotten by total, though fails may lose some.
Covered ==
    /\ \A r \in Rails : Covers(row[r], row[r])
    /\ \A r \in Rails : lock[r] # "none" =>
         Covers(pend[r], pend[r]) /\ pend[r].total >= row[r].total
    /\ \A s \in Sessions, r \in Rails : Covers(Base(s, r), copy[s][r])

\* A session that closes an open breaker recorded a success, and counts what
\* failed since then itself.
Healing ==
    \A s \in Sessions, r \in Rails :
        lock[r] = s /\ pend[r].state = "closed" /\ row[r].state \in Tripped =>
          /\ copy[s][r].state = "closed"
          /\ pend[r].streak = copy[s][r].fails
          /\ copy[s][r].fails < Threshold

RailInv == TypeOK /\ Covered /\ Healing

-----------------------------------------------------------------------------
(***************************************************************************)
(* Versions of a row.                                                      *)
(***************************************************************************)
LEMMA AbsentType == Absent \in Row /\ Created \in Row
BY DEF Absent, Created, Row, States

LEMMA RefreshedType ==
    ASSUME NEW v \in Row, NEW now \in Nat
    PROVE  /\ Refreshed(v, now) \in Row
           /\ Refreshed(v, now).fails = v.fails
           /\ Refreshed(v, now).state = "closed" <=> v.state = "closed"
           /\ Refreshed(v, now).state \in Tripped <=> v.state \in Tripped
           /\ v.state = "closed" => Refreshed(v, now) = v
BY DEF Refreshed, Row, States, Tripped

LEMMA FailureType ==
    ASSUME NEW v \in Row, NEW now \in Nat
    PROVE  /\ Failure(v, now) \in Row
           /\ Failure(v, now).fails = v.fails + 1
           /\ Failure(v, now).state = IF Opens(v) THEN "open" ELSE v.state
<1>1. now + Cooldown \in Nat /\ v.fails + 1 \in Nat /\ "open" \in States
  BY BreakerAssumption DEF Row, States
<1>2. CASE Opens(v)
  BY <1>1, <1>2 DEF Failure, Row
<1>3. CASE ~Opens(v)
  BY <1>1, <1>3 DEF Failure, Row
<1> QED BY <1>2, <1>3

LEMMA FailedType ==
    ASSUME NEW v \in Row, NEW now \in Nat
    PROVE  /\ Failed(v, now) \in Row /\ Healed(v) \in Row
           /\ Failed(v, now).total = v.total + 1 /\ Healed(v).total = v.total
           /\ Failed(v, now).streak = v.streak + 1 /\ Healed(v).streak = 0
           /\ Failed(v, now).fails = v.fails /\ Healed(v).fails = v.fails
           /\ Failed(v, now).state = v.state /\ Healed(v).state = v.state
<1>1. v.streak + 1 \in Nat /\ v.total + 1 \in Nat
  BY DEF Row
<1> QED BY <1>1 DEF Failed, Healed, Row

\* What an UPDATE makes of the version it applies to.
LEMMA WrittenType ==
    ASSUME TypeOK, NEW s \in Sessions, NEW r \in Rails, NEW new \in Row, NEW opened \in BOOLEAN
    PROVE  LET w == Written(s, r, new, opened)
               b == Base(s, r)
               c == copy[s][r]
           IN  /\ b \in Row /\ w \in Row
               /\ w.total = b.total /\ w.streak = b.streak
               /\ w.fails = IF new.fails # c.fails THEN new.fails ELSE b.fails
               /\ w.state = IF new.state # c.state THEN new.state ELSE b.state
<1>1. Base(s, r) \in Row /\ copy[s][r] \in Row
  BY DEF Base, TypeOK
<1> QED BY <1>1 DEF Written, Row

LEMMA BaseCovered ==
    ASSUME RailInv, NEW s \in Sessions, NEW r \in Rails
    PROVE  /\ Base(s, r) \in Row /\ copy[s][r] \in Row
           /\ Covers(Base(s, r), Base(s, r))
           /\ Covers(Base(s, r), copy[s][r])
           /\ Base(s, r).total >= row[r].total
<1>1. row[r] \in Row /\ pend[r] \in Row /\ copy[s][r] \in Row
  BY DEF RailInv, TypeOK
<1>2. lock[r] = s => lock[r] # "none"
  BY BreakerAssumption
<1>3. row[r].total >= row[r].total
  BY <1>1 DEF Row
<1> QED BY <1>1, <1>2, <1>3 DEF RailInv, Covered, Base

-----------------------------------------------------------------------------
(***************************************************************************)
(* The types.                                                              *)
(***************************************************************************)
LEMMA InitType == Init => TypeOK
BY AbsentType, BreakerAssumption DEF Init, TypeOK, Unread, Idle, Session

LEMMA LoadType ==
    ASSUME TypeOK, NEW s \in Sessions, NEW r \in Rails, Load(s, r)
    PROVE  TypeOK'
<1>1. Columns(row[r]) \in Row
  BY DEF TypeOK, Columns, Row
<1>2. UNCHANGED <<overlap, clock, row, sess>>
  BY DEF Load
<1>3. PICK v \in Row : copy' = [copy EXCEPT ![s][r] = v]
  BY <1>1, AbsentType DEF Load
<1>4. copy' \in [Sessions -> [Rails -> Row]]
  BY <1>3 DEF TypeOK
<1>5. lock' \in [Rails -> Sessions \cup {"none"}] /\ pend' \in [Rails -> Row]
  BY AbsentType DEF Load, TypeOK
<1> QED BY <1>2, <1>4, <1>5 DEF TypeOK

LEMMA WriteType ==
    ASSUME TypeOK, NEW s \in Sessions, NEW r \in Rails, NEW new \in Row, NEW version \in Row,
           Write(s, r, new, version), UNCHANGED <<overlap, clock, row, sess>>
    PROVE  TypeOK'
BY DEF Write, TypeOK

LEMMA RecordFailureWrites ==
    ASSUME TypeOK, NEW s \in Sessions, NEW r \in Rails, RecordFailure(s, r)
    PROVE  \E now \in Nat :
             LET old == Refreshed(copy[s][r], now)
                 new == Failure(old, now)
                 w   == Written(s, r, new, Opens(old))
             IN  /\ old \in Row /\ new \in Row /\ w \in Row /\ Failed(w, now) \in Row
                 /\ Write(s, r, new, Failed(w, now))
                 /\ UNCHANGED <<overlap, clock, row, sess>>
<1> DEFINE now == sess[s].now
           old == Refreshed(copy[s][r], now)
           new == Failure(old, now)
           w   == Written(s, r, new, Opens(old))
<1>1. now \in Nat /\ copy[s][r] \in Row
  BY DEF TypeOK, Session
<1>2. old \in Row
  BY <1>1, RefreshedType
<1>3. new \in Row
  BY <1>1, <1>2, FailureType
<1>4. Opens(old) \in BOOLEAN
  BY <1>2 DEF Opens
<1>5. w \in Row
  BY <1>3, <1>4, WrittenType
<1>6. Failed(w, now) \in Row
  BY <1>1, <1>5, FailedType
<1>7. Write(s, r, new, Failed(w, now)) /\ UNCHANGED <<overlap, clock, row, sess>>
  BY DEF RecordFailure
<1> QED BY <1>1, <1>2, <1>3, <1>5, <1>6, <1>7

\* The copy after a success.
Closed(v) == [v EXCEPT !.state = "closed", !.fails = 0, !.until = 0]

LEMMA RecordSuccessWrites ==
    ASSUME TypeOK, NEW s \in Sessions, NEW r \in Rails, RecordSuccess(s, r)
    PROVE  LET new == Closed(copy[s][r])
               w   == Written(s, r, new, FALSE)
           IN  /\ new \in Row /\ w \in Row /\ Healed(w) \in Row
               /\ Write(s, r, new, Healed(w))
               /\ UNCHANGED <<overlap, clock, row, sess>>
<1> \A v \in Row : Closed(v) \in Row /\ Healed(v) \in Row
  BY DEF Closed, Healed, Row, States
<1>1. Closed(copy[s][r]) \in Row
  BY DEF TypeOK
<1>2. Written(s, r, Closed(copy[s][r]), FALSE) \in Row
  BY <1>1, WrittenType
<1> QED BY <1>1, <1>2 DEF RecordSuccess, Closed

LEMMA LookType ==
    ASSUME TypeOK, NEW s \in Sessions, NEW asked \in SUBSET Rails, Look(s, asked)
    PROVE  /\ lock' \in [Rails -> Sessions \cup {"none"}]
           /\ pend' \in [Rails -> Row]
           /\ copy' \in [Sessions -> [Rails -> Row]]
           /\ UNCHANGED <<overlap, clock, row>>
<1> DEFINE new(r) == Refreshed(copy[s][r], sess[s].now)
<1>1. \A r \in Rails : new(r) \in Row
  BY RefreshedType DEF TypeOK, Session
<1>2. \A r \in Rails : Written(s, r, new(r), FALSE) \in Row
  BY <1>1, WrittenType
<1> HIDE DEF new
<1>3. lock' \in [Rails -> Sessions \cup {"none"}]
  BY DEF Look, TypeOK
<1>4. pend' \in [Rails -> Row]
  BY <1>2 DEF Look, TypeOK, new
<1>5. copy' \in [Sessions -> [Rails -> Row]]
  BY <1>1 DEF Look, TypeOK, new
<1> QED BY <1>3, <1>4, <1>5 DEF Look

LEMMA RouteType ==
    ASSUME TypeOK, NEW s \in Sessions, RoutePayout(s) \/ SelectCustody(s)
    PROVE  /\ \E asked \in SUBSET Rails : Look(s, asked)
           /\ TypeOK'
<1>1. PICK asked \in SUBSET Rails, pick \in Rails \cup {"none"} :
        Look(s, asked) /\ sess' = [sess EXCEPT ![s].pick = pick]
  <2>1. CASE RoutePayout(s)
    BY <2>1 DEF RoutePayout
  <2>2. CASE SelectCustody(s)
    <3>1. "econfirm" \in Rails /\ {"econfirm"} \in SUBSET Rails
      BY BreakerAssumption
    <3>2. PICK pick \in Rails \cup {"none"} : sess' = [sess EXCEPT ![s].pick = pick]
      BY <2>2, <3>1 DEF SelectCustody
    <3> QED BY <2>2, <3>1, <3>2 DEF SelectCustody
  <2> QED BY <2>1, <2>2
<1>2. sess' \in [Sessions -> Session]
  BY <1>1 DEF TypeOK, Session
<1> QED BY <1>1, <1>2, LookType DEF TypeOK

LEMMA EndType ==
    ASSUME TypeOK, NEW s \in Sessions, Commit(s) \/ Rollback(s)
    PROVE  TypeOK'
<1>1. End(s)
  BY DEF Commit, Rollback
<1>2. row' \in [Rails -> Row]
  BY DEF Commit, Rollback, TypeOK
<1>3. Idle \in Session /\ Unread \in [Rails -> Row]
  BY AbsentType DEF Idle, Session, Unread, TypeOK
<1>4. /\ lock' \in [Rails -> Sessions \cup {"none"}]
      /\ pend' \in [Rails -> Row]
  BY <1>1, AbsentType DEF End, TypeOK
<1>5. /\ copy' \in [Sessions -> [Rails -> Row]]
      /\ sess' \in [Sessions -> Session]
  BY <1>1, <1>3 DEF End, TypeOK
<1> QED BY <1>1, <1>2, <1>4, <1>5 DEF End, TypeOK

LEMMA BeginType ==
    ASSUME TypeOK, NEW s \in Sessions, NEW kind \in {"executor", "router"}, Begin(s, kind)
    PROVE  TypeOK'
<1>1. clock \in Nat
  BY BreakerAssumption DEF TypeOK
<1>2. [Idle EXCEPT !.kind = kind, !.now = clock] \in Session
  BY <1>1 DEF Idle, Session
<1> QED BY <1>2 DEF Begin, TypeOK

LEMMA TickType == TypeOK /\ Tick => TypeOK'
BY BreakerAssumption DEF TypeOK, Tick

LEMMA TypeStep == TypeOK /\ [Next]_vars => TypeOK'
<1> SUFFICES ASSUME TypeOK, [Next]_vars PROVE TypeOK'
  OBVIOUS
<1>1. CASE Tick
  BY <1>1, TickType
<1>2. CASE \E s \in Sessions, kind \in {"executor", "router"} : Begin(s, kind)
  BY <1>2, BeginType
<1>3. CASE \E s \in Sessions, r \in Rails : Load(s, r)
  BY <1>3, LoadType
<1>4. CASE \E s \in Sessions, r \in Rails : RecordFailure(s, r)
  <2> PICK s \in Sessions, r \in Rails : RecordFailure(s, r)
    BY <1>4
  <2> QED BY RecordFailureWrites, WriteType
<1>5. CASE \E s \in Sessions, r \in Rails : RecordSuccess(s, r)
  <2> PICK s \in Sessions, r \in Rails : RecordSuccess(s, r)
    BY <1>5
  <2> QED BY RecordSuccessWrites, WriteType
<1>6. CASE \E s \in Sessions : RoutePayout(s) \/ SelectCustody(s)
  BY <1>6, RouteType
<1>7. CASE \E s \in Sessions : Commit(s) \/ Rollback(s)
  BY <1>7, EndType
<1>8. CASE UNCHANGED vars
  BY <1>8 DEF vars, TypeOK
<1> QED BY <1>1, <1>2, <1>3, <1>4, <1>5, <1>6, <1>7, <1>8 DEF Next

\* Every row, copy and session keeps its type, whatever the settings are
\* (rail_health, _get_or_create_rail_health).
THEOREM RailTypes == Spec => []TypeOK
BY InitType, TypeStep, PTL DEF Spec

-----------------------------------------------------------------------------
(***************************************************************************)
(* What counts failures.                                                   *)
(***************************************************************************)
\* What is covered stays covered by later versions.
LEMMA CoversLater ==
    ASSUME NEW v \in Row, NEW w \in Row, NEW c \in Row, Covers(v, c), w.total >= v.total
    PROVE  Covers(w, c)
BY BreakerAssumption DEF Covers, Row

\* A session that writes the rails of W, each under its lock, keeps all this if
\* what it writes is covered, counts no less than before and closes no breaker
\* but after a success.
LEMMA WritesKeep ==
    ASSUME RailInv, TypeOK', UNCHANGED row, NEW s \in Sessions, NEW W \in SUBSET Rails,
           \A r \in W : MayHold(s, r),
           \A r \in Rails : lock'[r] = IF r \in W THEN s ELSE lock[r],
           \A r \in Rails \ W : pend'[r] = pend[r],
           \A r \in Rails, t \in Sessions : ~(r \in W /\ t = s) => copy'[t][r] = copy[t][r],
           \A r \in W : /\ Covers(pend'[r], pend'[r])
                        /\ Covers(pend'[r], copy'[s][r])
                        /\ pend'[r].total >= row[r].total
                        /\ pend'[r].state = "closed" /\ row[r].state \in Tripped =>
                             /\ copy'[s][r].state = "closed"
                             /\ pend'[r].streak = copy'[s][r].fails
                             /\ copy'[s][r].fails < Threshold
    PROVE  Covered' /\ Healing'
<1>1. \A r \in Rails : Covers(row'[r], row'[r])
  BY DEF RailInv, Covered
<1>2. ASSUME NEW r \in Rails, lock'[r] # "none"
      PROVE  Covers(pend'[r], pend'[r]) /\ pend'[r].total >= row'[r].total
  <2>1. CASE r \in W
    BY <2>1
  <2>2. CASE r \notin W
    BY <1>2, <2>2 DEF RailInv, Covered
  <2> QED BY <2>1, <2>2
<1>3. ASSUME NEW t \in Sessions, NEW r \in Rails
      PROVE  Covers(Base(t, r)', copy'[t][r])
  <2>1. CASE r \in W /\ t = s
    BY <2>1 DEF Base
  <2>2. CASE ~(r \in W /\ t = s)
    <3>1. Base(t, r)' = Base(t, r)
      <4>1. CASE r \notin W
        BY <4>1 DEF Base
      <4>2. CASE r \in W
        BY <2>2, <4>2, BreakerAssumption DEF Base, MayHold
      <4> QED BY <4>1, <4>2
    <3> QED BY <2>2, <3>1 DEF RailInv, Covered
  <2> QED BY <2>1, <2>2
<1>4. Healing'
  <2> SUFFICES ASSUME NEW t \in Sessions, NEW r \in Rails,
                      lock'[r] = t, pend'[r].state = "closed", row'[r].state \in Tripped
               PROVE  /\ copy'[t][r].state = "closed"
                      /\ pend'[r].streak = copy'[t][r].fails
                      /\ copy'[t][r].fails < Threshold
    BY DEF Healing
  <2>1. CASE r \in W
    BY <2>1
  <2>2. CASE r \notin W
    BY <2>2 DEF RailInv, Healing
  <2> QED BY <2>1, <2>2
<1> QED BY <1>1, <1>2, <1>3, <1>4 DEF Covered

\* Insert or update one row.
Replace(s, r, new, version) ==
    /\ MayHold(s, r)
    /\ lock' = [lock EXCEPT ![r] = s]
    /\ pend' = [pend EXCEPT ![r] = version]
    /\ copy' = [copy EXCEPT ![s][r] = new]

\* The same for one rail, inserted or updated.
LEMMA WriteKeeps ==
    ASSUME RailInv, TypeOK', UNCHANGED row, NEW s \in Sessions, NEW r \in Rails,
           NEW new \in Row, NEW version \in Row, Replace(s, r, new, version),
           Covers(version, version), Covers(version, new), version.total >= row[r].total,
           version.state = "closed" /\ row[r].state \in Tripped =>
             /\ new.state = "closed" /\ version.streak = new.fails /\ new.fails < Threshold
    PROVE  Covered' /\ Healing'
<1>2. /\ copy'[s][r] = new /\ pend'[r] = version
      /\ \A q \in Rails : lock'[q] = IF q \in {r} THEN s ELSE lock[q]
      /\ \A q \in Rails \ {r} : pend'[q] = pend[q]
      /\ \A q \in Rails, t \in Sessions : ~(q \in {r} /\ t = s) => copy'[t][q] = copy[t][q]
  BY DEF Replace, RailInv, TypeOK
<1>3. {r} \in SUBSET Rails /\ \A q \in {r} : MayHold(s, q)
  BY DEF Replace
<1>4. \A q \in {r} : /\ Covers(pend'[q], pend'[q])
                    /\ Covers(pend'[q], copy'[s][q])
                    /\ pend'[q].total >= row[q].total
                    /\ pend'[q].state = "closed" /\ row[q].state \in Tripped =>
                         /\ copy'[s][q].state = "closed"
                         /\ pend'[q].streak = copy'[s][q].fails
                         /\ copy'[s][q].fails < Threshold
  <2> SUFFICES ASSUME NEW q \in {r}, q = r
               PROVE  /\ Covers(version, version)
                      /\ Covers(version, new)
                      /\ version.total >= row[r].total
                      /\ version.state = "closed" /\ row[r].state \in Tripped =>
                           /\ new.state = "closed"
                           /\ version.streak = new.fails
                           /\ new.fails < Threshold
    BY <1>2
  <2> QED OBVIOUS
<1> HIDE DEF Covers
<1> QED BY <1>2, <1>3, <1>4, WritesKeep

LEMMA LoadKeeps ==
    ASSUME RailInv, TypeOK', NEW s \in Sessions, NEW r \in Rails, Load(s, r)
    PROVE  Covered' /\ Healing'
<1>1. UNCHANGED row
  BY DEF Load
<1>2. CASE row[r] # Absent
  <2>1. UNCHANGED <<lock, pend>> /\ copy' = [copy EXCEPT ![s][r] = Columns(row[r])]
    BY <1>2 DEF Load
  <2>2. copy'[s][r] = Columns(row[r]) /\ copy[s][r] = Absent
    BY <2>1 DEF Load, RailInv, TypeOK
  <2>3. \A t \in Sessions, q \in Rails : ~(t = s /\ q = r) => copy'[t][q] = copy[t][q]
    BY <2>1 DEF RailInv, TypeOK
  <2>4. \A t \in Sessions, q \in Rails : Base(t, q)' = Base(t, q)
    BY <1>1, <2>1 DEF Base
  <2>5. Covers(Base(s, r), Columns(row[r]))
    <3>1. row[r] \in Row /\ Base(s, r) \in Row /\ Base(s, r).total >= row[r].total
      BY BaseCovered DEF RailInv, TypeOK
    <3>2. Covers(Base(s, r), row[r])
      BY <3>1, CoversLater DEF RailInv, Covered
    <3>3. Columns(row[r]).fails = row[r].fails /\ Columns(row[r]).state = row[r].state
      BY <3>1 DEF Columns, Row
    <3> QED BY <3>2, <3>3 DEF Covers
  <2>6. Covered'
    BY <1>1, <2>1, <2>2, <2>3, <2>4, <2>5 DEF RailInv, Covered
  <2>7. Healing'
    <3> SUFFICES ASSUME NEW t \in Sessions, NEW q \in Rails,
                        lock[q] = t, pend[q].state = "closed", row[q].state \in Tripped
                 PROVE  /\ copy'[t][q].state = "closed"
                        /\ pend[q].streak = copy'[t][q].fails
                        /\ copy'[t][q].fails < Threshold
      BY <1>1, <2>1 DEF Healing
    <3>1. copy[t][q].state = "closed"
      BY DEF RailInv, Healing
    <3>2. ~(t = s /\ q = r)
      BY <2>2, <3>1 DEF Absent
    <3> QED BY <2>3, <3>2 DEF RailInv, Healing
  <2> QED BY <2>6, <2>7
<1>3. CASE row[r] = Absent
  <2>1. Replace(s, r, Created, Created)
    BY <1>3 DEF Load, Replace
  <2>2. Created.fails = 0 /\ Created.total = 0 /\ Created.state = "closed"
    BY DEF Created, Absent
  <2>3. /\ Covers(Created, Created) /\ Created.total >= row[r].total
        /\ row[r].state \notin Tripped
    BY <1>3, <2>2 DEF Covers, Tripped, Absent
  <2> QED BY <1>1, <2>1, <2>3, AbsentType, WriteKeeps
<1> QED BY <1>2, <1>3

\* What a session holds that closes a breaker it found open.
LEMMA BaseHealing ==
    ASSUME RailInv, NEW s \in Sessions, NEW r \in Rails,
           Base(s, r).state = "closed", row[r].state \in Tripped
    PROVE  /\ copy[s][r].state = "closed"
           /\ Base(s, r).streak = copy[s][r].fails
           /\ copy[s][r].fails < Threshold
<1>1. lock[r] = s
  BY DEF Base, Tripped
<1> QED BY <1>1 DEF RailInv, Healing, Base

LEMMA FailureKeeps ==
    ASSUME RailInv, TypeOK', NEW s \in Sessions, NEW r \in Rails, RecordFailure(s, r)
    PROVE  Covered' /\ Healing'
<1>1. PICK now \in Nat :
        LET old == Refreshed(copy[s][r], now)
            new == Failure(old, now)
            w   == Written(s, r, new, Opens(old))
        IN  /\ old \in Row /\ new \in Row /\ w \in Row /\ Failed(w, now) \in Row
            /\ Write(s, r, new, Failed(w, now))
            /\ UNCHANGED <<overlap, clock, row, sess>>
  BY RecordFailureWrites DEF RailInv
<1> DEFINE c   == copy[s][r]
           b   == Base(s, r)
           old == Refreshed(c, now)
           new == Failure(old, now)
           w   == Written(s, r, new, Opens(old))
           v   == Failed(w, now)
<1>2. /\ b \in Row /\ c \in Row /\ old \in Row /\ new \in Row /\ w \in Row /\ v \in Row
      /\ Covers(b, b) /\ Covers(b, c) /\ b.total >= row[r].total
  BY <1>1, BaseCovered
<1>3. /\ old.fails = c.fails
      /\ old.state \in Tripped <=> c.state \in Tripped
      /\ c.state = "closed" => old = c
      /\ old.state = "closed" <=> c.state = "closed"
  BY <1>2, RefreshedType
<1>4. /\ new.fails = c.fails + 1
      /\ new.state = IF Opens(old) THEN "open" ELSE old.state
  BY <1>2, <1>3, FailureType
<1>5. Opens(old) <=> c.fails + 1 >= Threshold \/ old.state = "half_open"
  BY <1>3 DEF Opens
<1>6. /\ v.total = b.total + 1 /\ v.streak = b.streak + 1
      /\ v.fails = IF new.fails # c.fails THEN new.fails ELSE b.fails
      /\ v.state = IF new.state # c.state THEN new.state ELSE b.state
  <2>1. Opens(old) \in BOOLEAN
    BY DEF Opens
  <2>2. /\ w.total = b.total /\ w.streak = b.streak
        /\ w.fails = IF new.fails # c.fails THEN new.fails ELSE b.fails
        /\ w.state = IF new.state # c.state THEN new.state ELSE b.state
    BY <1>2, <2>1, WrittenType DEF RailInv
  <2> HIDE DEF w, new, old, b, c
  <2>3. /\ v.total = w.total + 1 /\ v.streak = w.streak + 1
        /\ v.fails = w.fails /\ v.state = w.state
    BY <1>2, FailedType
  <2> QED BY <2>2, <2>3
<1>7. UNCHANGED row /\ Replace(s, r, new, v)
  BY <1>1 DEF Write, Replace
<1>8. /\ c.fails \in Nat /\ b.total \in Nat /\ row[r].total \in Nat /\ b.fails \in Nat
      /\ Threshold \in Nat
  BY <1>2, BreakerAssumption DEF Row, RailInv, TypeOK
<1> HIDE DEF v, w, new, old, b, c
<1>9. Covers(v, new)
  BY <1>2, <1>3, <1>4, <1>5, <1>6, <1>8 DEF Covers, Tripped
<1>10. Covers(v, v)
  BY <1>2, <1>4, <1>6, <1>8, <1>9 DEF Covers
<1>11. v.total >= row[r].total
  BY <1>2, <1>6, <1>8
<1>12. ASSUME v.state = "closed", row[r].state \in Tripped
       PROVE  new.state = "closed" /\ v.streak = new.fails /\ new.fails < Threshold
  <2>1. new.state # "closed" \/ new.state = c.state
    BY <1>3, <1>4
  <2>2. b.state = "closed"
    BY <1>6, <1>12, <2>1
  <2>3. c.state = "closed" /\ b.streak = c.fails /\ c.fails < Threshold
    BY <1>12, <2>2, BaseHealing DEF b, c
  <2>4. new.state = "closed"
    BY <1>4, <1>6, <1>12, <2>3
  <2>5. ~Opens(old)
    BY <1>4, <2>4
  <2> QED BY <1>4, <1>5, <1>6, <1>8, <2>3, <2>4, <2>5
<1> QED BY <1>2, <1>7, <1>9, <1>10, <1>11, <1>12, WriteKeeps

LEMMA SuccessKeeps ==
    ASSUME RailInv, TypeOK', NEW s \in Sessions, NEW r \in Rails, RecordSuccess(s, r)
    PROVE  Covered' /\ Healing'
<1> DEFINE c   == copy[s][r]
           b   == Base(s, r)
           new == Closed(c)
           w   == Written(s, r, new, FALSE)
           v   == Healed(w)
<1>1. /\ new \in Row /\ w \in Row /\ v \in Row
      /\ UNCHANGED row /\ Replace(s, r, new, v)
  BY RecordSuccessWrites DEF RailInv, Write, Replace
<1>2. /\ b \in Row /\ c \in Row
      /\ Covers(b, b) /\ Covers(b, c) /\ b.total >= row[r].total
  BY BaseCovered
<1>3. new.fails = 0 /\ new.state = "closed"
  BY <1>2 DEF Closed, Row
<1>4. /\ w.total = b.total
      /\ w.fails = IF new.fails # c.fails THEN new.fails ELSE b.fails
      /\ w.state = IF new.state # c.state THEN new.state ELSE b.state
  BY <1>1, WrittenType DEF RailInv
<1> HIDE DEF w, new, b, c
<1>5. v.total = w.total /\ v.streak = 0 /\ v.fails = w.fails /\ v.state = w.state
  BY <1>1, FailedType, BreakerAssumption
<1>6. b.total \in Nat /\ Threshold \in Nat \ {0}
  BY <1>2, BreakerAssumption DEF Row
<1> HIDE DEF v
<1>7. Covers(v, new) /\ Covers(v, v)
  BY <1>2, <1>3, <1>4, <1>5, <1>6 DEF Covers, Tripped
<1>8. v.total >= row[r].total
  BY <1>2, <1>4, <1>5
<1> QED BY <1>1, <1>3, <1>5, <1>6, <1>7, <1>8, WriteKeeps

LEMMA LookKeeps ==
    ASSUME RailInv, TypeOK', NEW s \in Sessions, NEW asked \in SUBSET Rails, Look(s, asked)
    PROVE  Covered' /\ Healing'
<1> DEFINE new(r) == Refreshed(copy[s][r], sess[s].now)
           W      == {r \in asked : new(r) # copy[s][r]}
           w(r)   == Written(s, r, new(r), FALSE)
<1>1. /\ W \in SUBSET Rails /\ UNCHANGED row
      /\ \A r \in W : MayHold(s, r)
      /\ \A r \in Rails : lock'[r] = IF r \in W THEN s ELSE lock[r]
      /\ \A r \in Rails : pend'[r] = IF r \in W THEN w(r) ELSE pend[r]
      /\ \A r \in Rails : copy'[s][r] = IF r \in W THEN new(r) ELSE copy[s][r]
      /\ \A r \in Rails, t \in Sessions \ {s} : copy'[t][r] = copy[t][r]
  BY DEF Look, RailInv, TypeOK
<1>2. ASSUME NEW r \in W
      PROVE  /\ Covers(w(r), w(r)) /\ Covers(w(r), new(r))
             /\ w(r).total >= row[r].total
             /\ w(r).state = "closed" /\ row[r].state \in Tripped => FALSE
  <2> DEFINE c == copy[s][r]
             b == Base(s, r)
             n == new(r)
             v == w(r)
  <2>1. r \in Rails
    BY <1>1
  <2>2. /\ b \in Row /\ c \in Row
        /\ Covers(b, b) /\ Covers(b, c) /\ b.total >= row[r].total
    BY <2>1, BaseCovered
  <2>3. sess[s].now \in Nat
    BY DEF RailInv, TypeOK, Session
  <2>4. /\ n \in Row /\ n.fails = c.fails
        /\ n.state = "closed" <=> c.state = "closed"
        /\ n.state \in Tripped <=> c.state \in Tripped
        /\ c.state = "closed" => n = c
    BY <2>2, <2>3, RefreshedType
  <2>5. n # c
    BY <1>2
  <2>6. /\ v.total = b.total
        /\ v.fails = IF n.fails # c.fails THEN n.fails ELSE b.fails
        /\ v.state = IF n.state # c.state THEN n.state ELSE b.state
    BY <2>1, <2>4, WrittenType DEF RailInv
  <2>7. v.state = "closed" => b.state = "closed"
    BY <2>4, <2>6
  <2>8. b.state = "closed" /\ row[r].state \in Tripped => c.state = "closed"
    BY <2>1, BaseHealing
  <2> HIDE DEF b, c, n, v
  <2>9. Covers(v, n) /\ Covers(v, v)
    BY <2>2, <2>4, <2>6 DEF Covers, Tripped
  <2>10. v.total >= row[r].total
    BY <2>2, <2>6
  <2> QED BY <2>4, <2>5, <2>7, <2>8, <2>9, <2>10 DEF v, n, c
<1> HIDE DEF W, w, new
<1>3. \A r \in W : /\ Covers(pend'[r], pend'[r])
                   /\ Covers(pend'[r], copy'[s][r])
                   /\ pend'[r].total >= row[r].total
                   /\ pend'[r].state = "closed" /\ row[r].state \in Tripped =>
                        /\ copy'[s][r].state = "closed"
                        /\ pend'[r].streak = copy'[s][r].fails
                        /\ copy'[s][r].fails < Threshold
  <2> SUFFICES ASSUME NEW r \in W
               PROVE  /\ Covers(pend'[r], pend'[r])
                      /\ Covers(pend'[r], copy'[s][r])
                      /\ pend'[r].total >= row[r].total
                      /\ pend'[r].state = "closed" /\ row[r].state \in Tripped => FALSE
    OBVIOUS
  <2>1. pend'[r] = w(r) /\ copy'[s][r] = new(r)
    BY <1>1
  <2> QED BY <1>2, <2>1
<1>4. /\ \A r \in Rails \ W : pend'[r] = pend[r]
      /\ \A r \in Rails, t \in Sessions : ~(r \in W /\ t = s) => copy'[t][r] = copy[t][r]
  BY <1>1
<1> QED BY <1>1, <1>3, <1>4, WritesKeep

LEMMA EndKeeps ==
    ASSUME RailInv, TypeOK', NEW s \in Sessions, Commit(s) \/ Rollback(s)
    PROVE  Covered' /\ Healing'
<1>1. /\ \A r \in Rails : lock'[r] = IF lock[r] = s THEN "none" ELSE lock[r]
      /\ \A r \in Rails : lock[r] # s => pend'[r] = pend[r]
      /\ \A r \in Rails : copy'[s][r] = Absent
      /\ \A t \in Sessions \ {s}, r \in Rails : copy'[t][r] = copy[t][r]
  BY DEF Commit, Rollback, End, RailInv, TypeOK, Unread
<1>2. \A r \in Rails : row'[r] = row[r] \/ (lock[r] = s /\ row'[r] = pend[r])
  BY DEF Commit, Rollback, RailInv, TypeOK
<1>3. \A r \in Rails : row[r] \in Row /\ row'[r] \in Row /\ pend[r] \in Row
  BY DEF RailInv, TypeOK
<1>4. ASSUME NEW r \in Rails
      PROVE  Covers(row'[r], row'[r]) /\ row'[r].total >= row[r].total
  <2>1. lock[r] = s => lock[r] # "none"
    BY BreakerAssumption
  <2>2. row[r].total \in Nat
    BY <1>3 DEF Row
  <2> QED BY <1>2, <2>1, <2>2 DEF RailInv, Covered
<1>5. \A r \in Rails : lock'[r] # "none" => lock'[r] = lock[r] /\ lock[r] # s /\ row'[r] = row[r]
  BY <1>1, <1>2
<1>6. \A r \in Rails : lock'[r] # "none" =>
        Covers(pend'[r], pend'[r]) /\ pend'[r].total >= row'[r].total
  BY <1>1, <1>5 DEF RailInv, Covered
<1>7. ASSUME NEW t \in Sessions, NEW r \in Rails
      PROVE  Covers(Base(t, r)', copy'[t][r])
  <2>1. CASE t = s
    <3>1. Base(t, r)' \in Row
      BY DEF Base, TypeOK
    <3>2. copy'[t][r] = Absent
      BY <1>1, <2>1
    <3> QED BY <3>1, <3>2 DEF Covers, Absent, Row, Tripped
  <2>2. CASE t # s /\ lock[r] = t
    <3>1. Base(t, r)' = Base(t, r)
      BY <1>1, <2>2 DEF Base
    <3> QED BY <1>1, <2>2, <3>1 DEF RailInv, Covered
  <2>3. CASE t # s /\ lock[r] # t
    <3>1. Base(t, r) = row[r] /\ Base(t, r)' = row'[r]
      BY <1>1, <2>3, BreakerAssumption DEF Base
    <3>2. Covers(row[r], copy[t][r]) /\ copy[t][r] \in Row
      BY <3>1 DEF RailInv, Covered, TypeOK
    <3> QED BY <1>1, <1>3, <1>4, <2>3, <3>1, <3>2, CoversLater
  <2> QED BY <2>1, <2>2, <2>3
<1>8. Healing'
  <2> SUFFICES ASSUME NEW t \in Sessions, NEW r \in Rails,
                      lock'[r] = t, pend'[r].state = "closed", row'[r].state \in Tripped
               PROVE  /\ copy'[t][r].state = "closed"
                      /\ pend'[r].streak = copy'[t][r].fails
                      /\ copy'[t][r].fails < Threshold
    BY DEF Healing
  <2>1. t # "none"
    BY BreakerAssumption
  <2>2. lock[r] = t /\ t # s /\ pend'[r] = pend[r] /\ row'[r] = row[r] /\ copy'[t][r] = copy[t][r]
    BY <1>1, <1>5, <2>1
  <2> QED BY <2>2 DEF RailInv, Healing
<1> QED BY <1>4, <1>6, <1>7, <1>8 DEF Covered

-----------------------------------------------------------------------------
(***************************************************************************)
(* The theorems.                                                           *)
(***************************************************************************)
LEMMA RailInit == Init => RailInv
<1> SUFFICES ASSUME Init PROVE RailInv
  OBVIOUS
<1>1. TypeOK
  BY InitType
<1>2. /\ \A r \in Rails : row[r] = Absent /\ lock[r] = "none"
      /\ \A s \in Sessions, r \in Rails : copy[s][r] = Absent
  BY DEF Init, Unread
<1>3. Covers(Absent, Absent)
  BY DEF Covers, Absent, Tripped
<1>4. "none" \notin Sessions
  BY BreakerAssumption
<1> QED BY <1>1, <1>2, <1>3, <1>4 DEF RailInv, Covered, Healing, Base

LEMMA RailStep == RailInv /\ [Next]_vars => RailInv'
<1> SUFFICES ASSUME RailInv, [Next]_vars PROVE Covered' /\ Healing'
  BY TypeStep DEF RailInv
<1> USE TypeStep DEF RailInv
<1>1. CASE \E s \in Sessions, r \in Rails : Load(s, r)
  BY <1>1, LoadKeeps
<1>2. CASE \E s \in Sessions, r \in Rails : RecordFailure(s, r)
  BY <1>2, FailureKeeps
<1>3. CASE \E s \in Sessions, r \in Rails : RecordSuccess(s, r)
  BY <1>3, SuccessKeeps
<1>4. CASE \E s \in Sessions : RoutePayout(s) \/ SelectCustody(s)
  BY <1>4, RouteType, LookKeeps
<1>5. CASE \E s \in Sessions : Commit(s) \/ Rollback(s)
  BY <1>5, EndKeeps
<1>6. CASE UNCHANGED <<row, lock, pend, copy>>
  BY <1>6 DEF Covered, Healing, Base
<1>7. (Tick \/ UNCHANGED vars \/ \E s \in Sessions, kind \in {"executor", "router"} : Begin(s, kind))
        => UNCHANGED <<row, lock, pend, copy>>
  BY DEF Tick, Begin, vars
<1> QED BY <1>1, <1>2, <1>3, <1>4, <1>5, <1>6, <1>7 DEF Next

\* However sessions overlap, no breaker opens before its rail failed as often
\* as the threshold says (_record_rail_failure_impl on a row read unlocked).
THEOREM OpeningsEarned == Spec => []OpenIsEarned
<1>1. RailInv => OpenIsEarned
  <2> SUFFICES ASSUME RailInv, NEW r \in Rails, row[r].state \in {"open", "half_open"}
               PROVE  row[r].total >= Threshold
    BY DEF OpenIsEarned
  <2> QED BY DEF RailInv, Covered, Covers, Tripped
<1> QED BY <1>1, RailInit, RailStep, PTL DEF Spec

\* However sessions overlap, only a success closes a breaker: a stale copy that
\* is written back never does (_record_rail_success_impl).
THEOREM ClosingsBySuccess == Spec => ClosesBySuccess
<1> DEFINE Closes(r) == row[r].state \in {"open", "half_open"} /\ row'[r].state = "closed"
<1>1. ASSUME RailInv, [Next]_vars, NEW r \in Rails, Closes(r)
      PROVE  row'[r].streak < Threshold
  <2>1. PICK s \in Sessions : lock[r] = s /\ row'[r] = pend[r]
    <3>1. row' # row
      BY <1>1
    <3>2. PICK s \in Sessions : Commit(s)
      <4>1. (\E s \in Sessions, q \in Rails : RecordFailure(s, q) \/ RecordSuccess(s, q) \/ Load(s, q))
              => UNCHANGED row
        BY DEF RecordFailure, RecordSuccess, Load
      <4>2. (\E s \in Sessions : RoutePayout(s) \/ SelectCustody(s) \/ Rollback(s)) => UNCHANGED row
        BY DEF RoutePayout, SelectCustody, Look, Rollback
      <4>3. (Tick \/ \E s \in Sessions, kind \in {"executor", "router"} : Begin(s, kind)) => UNCHANGED row
        BY DEF Tick, Begin
      <4>4. UNCHANGED vars => UNCHANGED row
        BY DEF vars
      <4> QED BY <1>1, <3>1, <4>1, <4>2, <4>3, <4>4 DEF Next
    <3>3. lock[r] = s
      BY <1>1, <3>2 DEF Commit, RailInv, TypeOK
    <3> QED BY <3>2, <3>3 DEF Commit, RailInv, TypeOK
  <2> QED BY <1>1, <2>1 DEF RailInv, Healing, Tripped
<1>2. RailInv /\ [Next]_vars =>
        [\A r \in Rails : Closes(r) => row'[r].streak < Threshold]_vars
  BY <1>1
<1> QED BY <1>2, RailInit, RailStep, PTL DEF Spec, ClosesBySuccess

-----------------------------------------------------------------------------
(***************************************************************************)
(* What holds as long as sessions take turns: the rows tell the history,   *)
(* so routing heeds it.                                                    *)
(***************************************************************************)
Active(s) == sess[s].kind # "idle"

\* What RowTellsHistory says of a version of a row at a time.
Tells(v, time) == v # Absent =>
    /\ v.state # "absent" /\ v.fails = v.streak
    /\ (v.state = "closed") <=> (v.streak < Threshold)
    /\ v.until = IF v.streak < Threshold THEN 0 ELSE v.last + Cooldown
    /\ v.state = "half_open" => v.until <= time

SameColumns(v, w) == v.state = w.state /\ v.fails = w.fails /\ v.until = w.until

\* A session that is not open has read nothing and holds nothing.
Resting(s) == sess[s] = Idle /\ \A r \in Rails : copy[s][r] = Absent /\ lock[r] # s

\* An open session's copy of a row is the version it would write to, and that
\* version tells the history; a router does not change the history.
Working(s, r) ==
    /\ Tells(row[r], sess[s].now)
    /\ lock[r] = s => /\ pend[r] # Absent /\ Tells(pend[r], sess[s].now)
                      /\ copy[s][r] # Absent
    /\ copy[s][r] # Absent => Base(s, r) # Absent /\ SameColumns(copy[s][r], Base(s, r))
    /\ sess[s].kind = "router" => /\ Base(s, r).streak = row[r].streak
                                  /\ Base(s, r).last = row[r].last

Healthy(v, time) == v.streak < Threshold \/ v.last + Cooldown <= time

Opened(s) ==
    /\ sess[s].now <= clock
    /\ \A r \in Rails : Working(s, r)
    /\ sess[s].pick # "none" => Healthy(row[sess[s].pick], sess[s].now)

Turns ==
    /\ \A r \in Rails : Tells(row[r], clock)
    /\ \A s \in Sessions : IF Active(s) THEN Opened(s) ELSE Resting(s)
    /\ \A s, t \in Sessions : Active(s) /\ Active(t) => s = t

TurnInv == TypeOK /\ (~overlap => Turns)

LEMMA TurnInit == Init => TurnInv
<1> SUFFICES ASSUME Init PROVE Turns
  BY InitType DEF TurnInv
<1>1. "none" \notin Sessions
  BY BreakerAssumption
<1> QED BY <1>1 DEF Init, Turns, Tells, Active, Resting, Idle, Unread

\* Time does not make a version tell less.
LEMMA TellsLater ==
    ASSUME NEW v \in Row, NEW s \in Nat, NEW t \in Nat, s <= t, Tells(v, s)
    PROVE  Tells(v, t)
BY BreakerAssumption DEF Tells, Row

\* What an open session writes to tells the history.
LEMMA BaseTells ==
    ASSUME TypeOK, NEW s \in Sessions, NEW r \in Rails, Working(s, r)
    PROVE  /\ Base(s, r) \in Row /\ copy[s][r] \in Row /\ sess[s].now \in Nat
           /\ Tells(Base(s, r), sess[s].now)
BY DEF TypeOK, Working, Base, Session

LEMMA WrittenColumns ==
    ASSUME TypeOK, NEW s \in Sessions, NEW r \in Rails, NEW new \in Row, NEW opened \in BOOLEAN,
           SameColumns(copy[s][r], Base(s, r))
    PROVE  LET w == Written(s, r, new, opened)
           IN  /\ w \in Row /\ SameColumns(w, new)
               /\ w.streak = Base(s, r).streak /\ w.last = Base(s, r).last
<1>1. Base(s, r) \in Row /\ copy[s][r] \in Row
  BY DEF Base, TypeOK
<1> QED BY <1>1 DEF Written, Row, SameColumns

\* A failure, a success and the end of a cooldown keep the version telling.
LEMMA FailureTells ==
    ASSUME TypeOK, NEW s \in Sessions, NEW r \in Rails, Working(s, r), copy[s][r] # Absent
    PROVE  LET now == sess[s].now
               old == Refreshed(copy[s][r], now)
               new == Failure(old, now)
               v   == Failed(Written(s, r, new, Opens(old)), now)
           IN  /\ new \in Row /\ v \in Row /\ new # Absent /\ v # Absent
               /\ SameColumns(new, v) /\ Tells(v, now)
<1> DEFINE now == sess[s].now
           c   == copy[s][r]
           b   == Base(s, r)
           old == Refreshed(c, now)
           new == Failure(old, now)
           w   == Written(s, r, new, Opens(old))
           v   == Failed(w, now)
<1>1. b \in Row /\ c \in Row /\ now \in Nat /\ Tells(b, now)
  BY BaseTells
<1>2. b # Absent /\ SameColumns(c, b)
  BY DEF Working
<1>3. old \in Row /\ old.fails = c.fails /\ old.until = c.until
      /\ (old.state = c.state \/ (c.state = "open" /\ old.state = "half_open"))
  BY <1>1 DEF Refreshed, Row, States
<1>4. /\ new \in Row /\ new.fails = c.fails + 1
      /\ new.state = IF Opens(old) THEN "open" ELSE old.state
  BY <1>1, <1>3, FailureType
<1>5. new.until = IF Opens(old) THEN now + Cooldown ELSE old.until
  BY <1>1, <1>3 DEF Failure, Row
<1>6. Opens(old) \in BOOLEAN /\ (Opens(old) <=> c.fails + 1 >= Threshold \/ old.state = "half_open")
  BY <1>3 DEF Opens
<1>7. w \in Row /\ SameColumns(w, new) /\ w.streak = b.streak
  BY <1>2, <1>4, <1>6, WrittenColumns
<1> HIDE DEF w, new, old, b, c, now
<1>8. /\ v \in Row /\ SameColumns(new, v) /\ v.streak = b.streak + 1 /\ v.last = now
  <2>1. /\ v \in Row /\ v.streak = w.streak + 1 /\ v.fails = w.fails /\ v.state = w.state
    BY <1>1, <1>7, FailedType
  <2>2. v.until = w.until /\ v.last = now
    BY <1>7 DEF Failed, Row
  <2> QED BY <1>7, <2>1, <2>2 DEF SameColumns
<1>9. /\ b.state # "absent" /\ b.fails = b.streak
      /\ b.state = "closed" <=> b.streak < Threshold
      /\ b.until = IF b.streak < Threshold THEN 0 ELSE b.last + Cooldown
  BY <1>1, <1>2 DEF Tells
<1>10. b.streak \in Nat /\ Threshold \in Nat /\ Cooldown \in Nat
  BY <1>1, BreakerAssumption DEF Row
<1>11. /\ c.fails = b.streak /\ c.state = b.state /\ c.until = b.until
  BY <1>2, <1>9 DEF SameColumns
<1>12. v.state = new.state /\ v.fails = new.fails /\ v.until = new.until
  BY <1>8 DEF SameColumns
<1>13. CASE Opens(old)
  <2>1. b.streak + 1 >= Threshold
    BY <1>3, <1>6, <1>9, <1>10, <1>11, <1>13
  <2>2. v.state = "open" /\ v.fails = v.streak /\ v.until = v.last + Cooldown
    BY <1>4, <1>5, <1>8, <1>11, <1>12, <1>13
  <2> QED BY <1>4, <1>8, <1>10, <1>12, <2>1, <2>2 DEF Tells, Absent, v, new, old, c, now, w
<1>14. CASE ~Opens(old)
  <2>1. b.streak + 1 < Threshold /\ old.state = "closed" /\ old.until = 0
    BY <1>3, <1>6, <1>9, <1>10, <1>11, <1>14
  <2>2. v.state = "closed" /\ v.fails = v.streak /\ v.until = 0
    BY <1>4, <1>5, <1>8, <1>11, <1>12, <1>14, <2>1
  <2> QED BY <1>4, <1>8, <1>10, <1>12, <2>1, <2>2 DEF Tells, Absent, v, new, old, c, now, w
<1> QED BY <1>13, <1>14

LEMMA SuccessTells ==
    ASSUME TypeOK, NEW s \in Sessions, NEW r \in Rails, Working(s, r), copy[s][r] # Absent
    PROVE  LET new == Closed(copy[s][r])
               v   == Healed(Written(s, r, new, FALSE))
           IN  /\ new \in Row /\ v \in Row /\ new # Absent /\ v # Absent
               /\ SameColumns(new, v) /\ Tells(v, sess[s].now)
<1> DEFINE c   == copy[s][r]
           new == Closed(c)
           w   == Written(s, r, new, FALSE)
           v   == Healed(w)
<1>1. c \in Row /\ SameColumns(c, Base(s, r))
  BY BaseTells DEF Working
<1>2. new \in Row /\ new.state = "closed" /\ new.fails = 0 /\ new.until = 0
  BY <1>1 DEF Closed, Row, States
<1>3. w \in Row /\ SameColumns(w, new)
  BY <1>1, <1>2, WrittenColumns
<1> HIDE DEF w, new
<1>4. /\ v \in Row /\ v.state = "closed" /\ v.fails = 0 /\ v.until = 0 /\ v.streak = 0
  BY <1>2, <1>3 DEF Healed, Row, SameColumns
<1>5. SameColumns(new, v) /\ Tells(v, sess[s].now) /\ v # Absent /\ new # Absent
  BY <1>2, <1>4, BreakerAssumption DEF SameColumns, Tells, Absent
<1> QED BY <1>2, <1>4, <1>5 DEF new, w

LEMMA LookTells ==
    ASSUME TypeOK, NEW s \in Sessions, NEW r \in Rails, Working(s, r),
           copy[s][r] # Absent, Refreshed(copy[s][r], sess[s].now) # copy[s][r]
    PROVE  LET new == Refreshed(copy[s][r], sess[s].now)
               v   == Written(s, r, new, FALSE)
           IN  /\ new \in Row /\ v \in Row /\ new # Absent /\ v # Absent
               /\ SameColumns(new, v) /\ Tells(v, sess[s].now)
               /\ v.streak = Base(s, r).streak /\ v.last = Base(s, r).last
<1> DEFINE now == sess[s].now
           c   == copy[s][r]
           b   == Base(s, r)
           new == Refreshed(c, now)
           v   == Written(s, r, new, FALSE)
<1>1. b \in Row /\ c \in Row /\ now \in Nat /\ Tells(b, now)
  BY BaseTells
<1>2. b # Absent /\ SameColumns(c, b)
  BY DEF Working
<1>3. /\ c.state = "open" /\ c.until <= now
      /\ new \in Row /\ new.state = "half_open" /\ new.fails = c.fails /\ new.until = c.until
  BY <1>1 DEF Refreshed, Row, States
<1>4. /\ v \in Row /\ SameColumns(v, new) /\ v.streak = b.streak /\ v.last = b.last
  BY <1>2, <1>3, WrittenColumns
<1> HIDE DEF v, new, b, c, now
<1>5. /\ b.fails = b.streak /\ ~(b.streak < Threshold) /\ b.until = b.last + Cooldown
      /\ c.fails = b.fails /\ c.until = b.until
  BY <1>1, <1>2, <1>3 DEF Tells, SameColumns
<1>6. Tells(v, now) /\ v # Absent /\ new # Absent /\ SameColumns(new, v)
  BY <1>3, <1>4, <1>5 DEF Tells, SameColumns, Absent
<1> QED BY <1>3, <1>4, <1>6 DEF v, new, b, c, now

-----------------------------------------------------------------------------
\* A session that writes the rails of W, and may choose a rail, stays in turn if
\* what it writes tells the history and what it chooses is healthy.
LEMMA WritesInTurn ==
    ASSUME TypeOK, Turns, NEW s \in Sessions, Active(s), NEW W \in SUBSET Rails,
           NEW pick, UNCHANGED <<overlap, clock, row>>,
           sess' = [sess EXCEPT ![s].pick = pick],
           pick # "none" => pick \in Rails /\ Healthy(row[pick], sess[s].now),
           \A r \in Rails : lock'[r] = IF r \in W THEN s ELSE lock[r],
           \A r \in Rails \ W : pend'[r] = pend[r] /\ copy'[s][r] = copy[s][r],
           \A t \in Sessions \ {s} : copy'[t] = copy[t],
           \A r \in W : /\ pend'[r] # Absent /\ Tells(pend'[r], sess[s].now)
                        /\ copy'[s][r] # Absent /\ SameColumns(copy'[s][r], pend'[r])
                        /\ sess[s].kind = "router" => /\ pend'[r].streak = row[r].streak
                                                      /\ pend'[r].last = row[r].last
    PROVE  Turns'
<1>1. /\ sess'[s].kind = sess[s].kind /\ sess'[s].now = sess[s].now /\ sess'[s].pick = pick
      /\ \A t \in Sessions \ {s} : sess'[t] = sess[t]
  BY DEF TypeOK, Session
<1>2. Opened(s)
  BY DEF Turns
<1>3. \A t \in Sessions : Active(t)' <=> Active(t)
  BY <1>1 DEF Active
<1>4. \A t \in Sessions \ {s} : ~Active(t) /\ Resting(t)
  BY DEF Turns
<1>5. \A t \in Sessions \ {s} : Resting(t)'
  BY <1>1, <1>4 DEF Resting
<1>6. ASSUME NEW r \in Rails PROVE Working(s, r)'
  <2>1. Working(s, r)
    BY <1>2 DEF Opened
  <2>2. CASE r \notin W
    BY <1>1, <2>1, <2>2 DEF Working, Base
  <2>3. CASE r \in W
    <3>1. Base(s, r)' = pend'[r]
      BY <2>3 DEF Base
    <3>2. Tells(row'[r], sess'[s].now) /\ Tells(pend'[r], sess'[s].now)
      BY <1>1, <2>1, <2>3 DEF Working
    <3> QED BY <1>1, <2>3, <3>1, <3>2 DEF Working
  <2> QED BY <2>2, <2>3
<1>7. sess'[s].now <= clock' /\ (sess'[s].pick # "none" => Healthy(row'[sess'[s].pick], sess'[s].now))
  BY <1>1, <1>2 DEF Opened
<1>8. Opened(s)'
  BY <1>6, <1>7 DEF Opened
<1>9. \A r \in Rails : Tells(row'[r], clock')
  BY DEF Turns
<1> QED BY <1>3, <1>4, <1>5, <1>8, <1>9 DEF Turns

LEMMA PickHealthy ==
    ASSUME TypeOK, Turns, NEW s \in Sessions, Active(s), sess[s].pick # "none"
    PROVE  sess[s].pick \in Rails /\ Healthy(row[sess[s].pick], sess[s].now)
BY DEF TypeOK, Session, Turns, Opened

LEMMA SamePick ==
    ASSUME TypeOK, Turns, NEW s \in Sessions, Active(s), UNCHANGED sess
    PROVE  \E pick : /\ sess' = [sess EXCEPT ![s].pick = pick]
                     /\ pick # "none" => pick \in Rails /\ Healthy(row[pick], sess[s].now)
<1>1. sess = [sess EXCEPT ![s].pick = sess[s].pick]
  BY DEF TypeOK, Session
<1> QED BY <1>1, PickHealthy

LEMMA LoadInTurn ==
    ASSUME TypeOK, Turns, NEW s \in Sessions, NEW r \in Rails, Load(s, r)
    PROVE  Turns'
<1>1. /\ Active(s) /\ copy[s][r] = Absent /\ UNCHANGED <<overlap, clock, row, sess>>
      /\ \A t \in Sessions \ {s} : ~Active(t)
  BY DEF Load, Active, Turns
<1>2. Opened(s) /\ Working(s, r)
  BY <1>1 DEF Turns, Opened
<1>3. lock[r] # s
  BY <1>1, <1>2 DEF Working
<1>4. CASE row[r] = Absent
  <2>1. /\ lock' = [lock EXCEPT ![r] = s] /\ pend' = [pend EXCEPT ![r] = Created]
        /\ copy' = [copy EXCEPT ![s][r] = Created]
    BY <1>4 DEF Load
  <2>2. /\ \A q \in Rails : lock'[q] = IF q \in {r} THEN s ELSE lock[q]
        /\ \A q \in Rails \ {r} : pend'[q] = pend[q] /\ copy'[s][q] = copy[s][q]
        /\ \A t \in Sessions \ {s} : copy'[t] = copy[t]
        /\ pend'[r] = Created /\ copy'[s][r] = Created
    BY <2>1 DEF TypeOK
  <2>3. /\ Created # Absent /\ Tells(Created, sess[s].now) /\ SameColumns(Created, Created)
        /\ Created.streak = Absent.streak /\ Created.last = Absent.last
    BY BreakerAssumption DEF Created, Absent, Tells, SameColumns
  <2>4. PICK pick : /\ sess' = [sess EXCEPT ![s].pick = pick]
                    /\ pick # "none" => pick \in Rails /\ Healthy(row[pick], sess[s].now)
    BY <1>1, SamePick
  <2>5. PICK W \in SUBSET Rails : W = {r}
    OBVIOUS
  <2>6. \A q \in Rails : lock'[q] = IF q \in W THEN s ELSE lock[q]
    BY <2>2, <2>5
  <2>7. \A q \in Rails \ W : pend'[q] = pend[q] /\ copy'[s][q] = copy[s][q]
    BY <2>2, <2>5
  <2>8. \A q \in W : /\ pend'[q] # Absent /\ Tells(pend'[q], sess[s].now)
                     /\ copy'[s][q] # Absent /\ SameColumns(copy'[s][q], pend'[q])
                     /\ sess[s].kind = "router" => /\ pend'[q].streak = row[q].streak
                                                   /\ pend'[q].last = row[q].last
    BY <1>4, <2>2, <2>3, <2>5
  <2>9. Active(s) /\ UNCHANGED <<overlap, clock, row>>
        /\ \A t \in Sessions \ {s} : copy'[t] = copy[t]
    BY <1>1, <2>2
  <2> QED BY <2>4, <2>6, <2>7, <2>8, <2>9, WritesInTurn
<1>5. CASE row[r] # Absent
  <2>1. copy' = [copy EXCEPT ![s][r] = Columns(row[r])] /\ UNCHANGED <<lock, pend>>
    BY <1>5 DEF Load
  <2>2. /\ \A q \in Rails \ {r} : copy'[s][q] = copy[s][q]
        /\ \A t \in Sessions \ {s} : copy'[t] = copy[t]
        /\ copy'[s][r] = Columns(row[r])
    BY <2>1 DEF TypeOK
  <2>3. SameColumns(Columns(row[r]), row[r])
    BY DEF TypeOK, Row, Columns, SameColumns
  <2>4. Base(s, r) = row[r]
    BY <1>3 DEF Base
  <2>5. Working(s, r)'
    BY <1>1, <1>2, <1>3, <1>5, <2>1, <2>2, <2>3, <2>4 DEF Working, Base
  <2>6. \A q \in Rails : Working(s, q)'
    BY <1>1, <1>2, <2>1, <2>2, <2>5 DEF Opened, Working, Base
  <2>7. Opened(s)'
    BY <1>1, <1>2, <2>6 DEF Opened
  <2>8. \A t \in Sessions \ {s} : Resting(t)'
    BY <1>1, <2>1, <2>2 DEF Turns, Resting
  <2> QED BY <1>1, <2>7, <2>8 DEF Turns, Active
<1> QED BY <1>4, <1>5

LEMMA RecordInTurn ==
    ASSUME TypeOK, Turns, NEW s \in Sessions, NEW r \in Rails,
           RecordFailure(s, r) \/ RecordSuccess(s, r)
    PROVE  Turns'
<1> DEFINE now == sess[s].now
           old == Refreshed(copy[s][r], now)
           nf  == Failure(old, now)
           vf  == Failed(Written(s, r, nf, Opens(old)), now)
           ns  == Closed(copy[s][r])
           vs  == Healed(Written(s, r, ns, FALSE))
<1>1. /\ UNCHANGED <<overlap, clock, row, sess>> /\ sess[s].kind = "executor"
      /\ Write(s, r, nf, vf) \/ Write(s, r, ns, vs)
  BY DEF RecordFailure, RecordSuccess, Closed
<1>2. Active(s) /\ copy[s][r] # Absent
  BY <1>1 DEF Active, Write
<1>3. Working(s, r)
  BY <1>2 DEF Turns, Opened
<1>4. PICK new \in Row, v \in Row :
        /\ Write(s, r, new, v) /\ new # Absent /\ v # Absent
        /\ SameColumns(new, v) /\ Tells(v, now)
  BY <1>1, <1>2, <1>3, FailureTells, SuccessTells
<1>5. /\ \A q \in Rails : lock'[q] = IF q \in {r} THEN s ELSE lock[q]
      /\ \A q \in Rails \ {r} : pend'[q] = pend[q] /\ copy'[s][q] = copy[s][q]
      /\ \A t \in Sessions \ {s} : copy'[t] = copy[t]
      /\ pend'[r] = v /\ copy'[s][r] = new
  BY <1>4 DEF Write, TypeOK
<1>6. PICK pick : /\ sess' = [sess EXCEPT ![s].pick = pick]
                  /\ pick # "none" => pick \in Rails /\ Healthy(row[pick], sess[s].now)
  BY <1>1, <1>2, SamePick
<1>7. PICK W \in SUBSET Rails : W = {r}
  OBVIOUS
<1>8. \A q \in W : /\ pend'[q] # Absent /\ Tells(pend'[q], sess[s].now)
                   /\ copy'[s][q] # Absent /\ SameColumns(copy'[s][q], pend'[q])
                   /\ sess[s].kind = "router" => /\ pend'[q].streak = row[q].streak
                                                 /\ pend'[q].last = row[q].last
  BY <1>1, <1>4, <1>5, <1>7
<1>9. /\ \A q \in Rails : lock'[q] = IF q \in W THEN s ELSE lock[q]
      /\ \A q \in Rails \ W : pend'[q] = pend[q] /\ copy'[s][q] = copy[s][q]
  BY <1>5, <1>7
<1> QED BY <1>1, <1>2, <1>5, <1>6, <1>8, <1>9, WritesInTurn

\* A rail that is not blocked for the session is healthy.
LEMMA UnblockedHealthy ==
    ASSUME TypeOK, NEW s \in Sessions, NEW r \in Rails, Working(s, r), copy[s][r] # Absent,
           sess[s].kind = "router", Refreshed(copy[s][r], sess[s].now).state # "open"
    PROVE  Healthy(row[r], sess[s].now)
<1> DEFINE now == sess[s].now
           c   == copy[s][r]
           b   == Base(s, r)
<1>1. b \in Row /\ c \in Row /\ now \in Nat /\ Tells(b, now)
  BY BaseTells
<1>2. /\ b # Absent /\ SameColumns(c, b)
      /\ b.streak = row[r].streak /\ b.last = row[r].last
  BY DEF Working
<1>3. c.state # "open" \/ (c.until # 0 /\ c.until <= now)
  BY <1>1 DEF Refreshed
<1> HIDE DEF b, c, now
<1>4. b.state # "open" \/ b.until <= now
  BY <1>2, <1>3 DEF SameColumns
<1>5. b.state \in {"closed", "open", "half_open"}
  BY <1>1, <1>2 DEF Row, States, Tells
<1>6. b.streak < Threshold \/ b.last + Cooldown <= now
  BY <1>1, <1>2, <1>4, <1>5 DEF Tells
<1> QED BY <1>2, <1>6 DEF Healthy, now

LEMMA LookInTurn ==
    ASSUME TypeOK, Turns, NEW s \in Sessions, RoutePayout(s) \/ SelectCustody(s)
    PROVE  Turns'
<1>1. PICK asked \in SUBSET Rails, pick \in Rails \cup {"none"} :
        /\ Look(s, asked) /\ sess' = [sess EXCEPT ![s].pick = pick]
        /\ pick # "none" => pick \in asked \ Blocked(s, asked)
  <2>1. "econfirm" \in Rails
    BY BreakerAssumption
  <2>2. \A r : Ordered(r, Blocked(s, Rails)) => r = "none" \/ r \in Rails \ Blocked(s, Rails)
    BY DEF Ordered, Payable, Runtime
  <2>3. CASE RoutePayout(s)
    BY <2>2, <2>3 DEF RoutePayout
  <2>4. CASE SelectCustody(s)
    <3>1. PICK asked \in SUBSET Rails : asked = {"econfirm"}
      BY <2>1
    <3>2. PICK pick : pick = IF "econfirm" \in Blocked(s, asked) THEN "none" ELSE "econfirm"
      OBVIOUS
    <3> QED BY <2>1, <2>4, <3>1, <3>2 DEF SelectCustody
  <2> QED BY <2>3, <2>4
<1> DEFINE new(r) == Refreshed(copy[s][r], sess[s].now)
           W      == {r \in asked : new(r) # copy[s][r]}
           w(r)   == Written(s, r, new(r), FALSE)
<1>2. /\ UNCHANGED <<overlap, clock, row>> /\ sess[s].kind = "router" /\ Active(s)
      /\ \A r \in asked : copy[s][r] # Absent
      /\ \A r \in Rails : lock'[r] = IF r \in W THEN s ELSE lock[r]
      /\ \A r \in Rails : pend'[r] = IF r \in W THEN w(r) ELSE pend[r]
      /\ \A r \in Rails : copy'[s][r] = IF r \in W THEN new(r) ELSE copy[s][r]
      /\ \A t \in Sessions \ {s} : copy'[t] = copy[t]
  BY <1>1 DEF Look, TypeOK, Active
<1>3. \A r \in Rails : Working(s, r)
  BY <1>2 DEF Turns, Opened
<1>4. pick # "none" => pick \in Rails /\ Healthy(row[pick], sess[s].now)
  BY <1>1, <1>2, <1>3, UnblockedHealthy DEF Blocked
<1>5. ASSUME NEW r \in W
      PROVE  /\ w(r) # Absent /\ Tells(w(r), sess[s].now)
             /\ new(r) # Absent /\ SameColumns(new(r), w(r))
             /\ w(r).streak = row[r].streak /\ w(r).last = row[r].last
  <2>1. r \in Rails /\ copy[s][r] # Absent /\ new(r) # copy[s][r] /\ Working(s, r)
    BY <1>2, <1>3
  <2>2. Base(s, r).streak = row[r].streak /\ Base(s, r).last = row[r].last
    BY <1>2, <2>1 DEF Working
  <2> QED BY <2>1, <2>2, LookTells
<1>6. PICK V \in SUBSET Rails : V = W
  OBVIOUS
<1> HIDE DEF W, w, new
<1>7. /\ \A r \in Rails : lock'[r] = IF r \in V THEN s ELSE lock[r]
      /\ \A r \in Rails \ V : pend'[r] = pend[r] /\ copy'[s][r] = copy[s][r]
  BY <1>2, <1>6
<1>8. \A r \in V : /\ pend'[r] # Absent /\ Tells(pend'[r], sess[s].now)
                   /\ copy'[s][r] # Absent /\ SameColumns(copy'[s][r], pend'[r])
                   /\ sess[s].kind = "router" => /\ pend'[r].streak = row[r].streak
                                                 /\ pend'[r].last = row[r].last
  BY <1>2, <1>5, <1>6
<1> QED BY <1>1, <1>2, <1>4, <1>7, <1>8, WritesInTurn

LEMMA EndInTurn ==
    ASSUME TypeOK, TypeOK', Turns, NEW s \in Sessions, Commit(s) \/ Rollback(s)
    PROVE  Turns'
<1>1. /\ Active(s) /\ UNCHANGED clock
      /\ \A r \in Rails : lock'[r] = IF lock[r] = s THEN "none" ELSE lock[r]
      /\ copy'[s] = Unread /\ sess'[s] = Idle
      /\ \A t \in Sessions \ {s} : copy'[t] = copy[t] /\ sess'[t] = sess[t]
  BY DEF Commit, Rollback, End, TypeOK, Active
<1>2. \A r \in Rails : row'[r] = row[r] \/ (lock[r] = s /\ row'[r] = pend[r])
  BY DEF Commit, Rollback, TypeOK
<1>3. \A t \in Sessions : Resting(t)' /\ ~Active(t)'
  <2>1. \A t \in Sessions \ {s} : ~Active(t) /\ Resting(t)
    BY <1>1 DEF Turns
  <2>2. \A t \in Sessions : t # "none"
    BY BreakerAssumption
  <2>3. ASSUME NEW t \in Sessions \ {s} PROVE Resting(t)' /\ ~Active(t)'
    BY <1>1, <2>1, <2>2 DEF Resting, Active
  <2>4. Resting(s)' /\ ~Active(s)'
    BY <1>1, <2>2 DEF Resting, Active, Idle, Unread
  <2> QED BY <2>3, <2>4
<1>4. ASSUME NEW r \in Rails PROVE Tells(row'[r], clock')
  <2>1. Tells(row[r], clock)
    BY DEF Turns
  <2>2. lock[r] = s => Tells(pend[r], sess[s].now) /\ sess[s].now <= clock
    BY <1>1 DEF Turns, Opened, Working
  <2>3. sess[s].now \in Nat /\ clock \in Nat /\ pend[r] \in Row
    BY BreakerAssumption DEF TypeOK, Session
  <2>4. lock[r] = s => Tells(pend[r], clock)
    BY <2>2, <2>3, TellsLater
  <2> QED BY <1>1, <1>2, <2>1, <2>4
<1> QED BY <1>3, <1>4 DEF Turns

LEMMA BeginInTurn ==
    ASSUME TypeOK, Turns, ~overlap, NEW s \in Sessions, NEW kind \in {"executor", "router"},
           Begin(s, kind)
    PROVE  Turns'
<1>1. /\ UNCHANGED <<overlap, clock, row, lock, pend, copy>>
      /\ \A t \in Sessions : ~Active(t)
      /\ sess' = [sess EXCEPT ![s] = [Idle EXCEPT !.kind = kind, !.now = clock]]
  BY DEF Begin, Active
<1>2. /\ sess'[s].kind = kind /\ sess'[s].now = clock /\ sess'[s].pick = "none"
      /\ \A t \in Sessions \ {s} : sess'[t] = sess[t]
  BY <1>1 DEF TypeOK, Idle
<1>3. \A t \in Sessions : Active(t)' <=> t = s
  BY <1>1, <1>2 DEF Active
<1>4. \A t \in Sessions : Resting(t)
  BY <1>1 DEF Turns
<1>5. \A t \in Sessions \ {s} : Resting(t)'
  BY <1>1, <1>2, <1>4 DEF Resting
<1>6. \A r \in Rails : Working(s, r)'
  BY <1>1, <1>2, <1>4 DEF Working, Resting, Base, Turns
<1>7. clock \in Nat
  BY BreakerAssumption DEF TypeOK
<1>8. Opened(s)'
  BY <1>1, <1>2, <1>6, <1>7 DEF Opened
<1> QED BY <1>1, <1>3, <1>5, <1>8 DEF Turns

LEMMA TickInTurn ==
    ASSUME TypeOK, Turns, Tick
    PROVE  Turns'
<1>1. clock \in Nat /\ clock' = clock + 1 /\ UNCHANGED <<overlap, row, lock, pend, copy, sess>>
  BY BreakerAssumption DEF TypeOK, Tick
<1>2. \A r \in Rails : Tells(row'[r], clock')
  <2>1. \A r \in Rails : row[r] \in Row /\ Tells(row[r], clock)
    BY DEF TypeOK, Turns
  <2> QED BY <1>1, <2>1, TellsLater
<1>3. \A s \in Sessions : sess[s].now \in Nat
  BY DEF TypeOK, Session
<1>4. \A s \in Sessions : Opened(s) => Opened(s)'
  BY <1>1, <1>3 DEF Opened, Working, Base
<1>5. \A s \in Sessions : Resting(s) => Resting(s)'
  BY <1>1 DEF Resting
<1> QED BY <1>1, <1>2, <1>4, <1>5 DEF Turns, Active

LEMMA TurnStep == TurnInv /\ [Next]_vars => TurnInv'
<1> SUFFICES ASSUME TypeOK, TypeOK', ~overlap', ~overlap => Turns, [Next]_vars PROVE Turns'
  BY TypeStep DEF TurnInv
<1>0. UNCHANGED overlap
  BY DEF Next, vars, Tick, Begin, Load, RecordFailure, RecordSuccess, RoutePayout,
         SelectCustody, Look, Commit, Rollback, End
<1>t. ~overlap /\ Turns
  BY <1>0
<1>1. CASE Tick
  BY <1>1, <1>t, TickInTurn
<1>2. CASE \E s \in Sessions, kind \in {"executor", "router"} : Begin(s, kind)
  BY <1>2, <1>t, BeginInTurn
<1>3. CASE \E s \in Sessions, r \in Rails : Load(s, r)
  BY <1>3, <1>t, LoadInTurn
<1>4. CASE \E s \in Sessions, r \in Rails : RecordFailure(s, r) \/ RecordSuccess(s, r)
  BY <1>4, <1>t, RecordInTurn
<1>5. CASE \E s \in Sessions : RoutePayout(s) \/ SelectCustody(s)
  BY <1>5, <1>t, LookInTurn
<1>6. CASE \E s \in Sessions : Commit(s) \/ Rollback(s)
  BY <1>6, <1>t, EndInTurn
<1>7. CASE UNCHANGED vars
  BY <1>7, <1>t DEF vars, Turns, Tells, Opened, Working, Base, Resting, Active
<1> QED BY <1>1, <1>2, <1>3, <1>4, <1>5, <1>6, <1>7 DEF Next

\* As long as sessions take turns, the columns of a row say what happened to the
\* rail: how often it failed in a row, and until when it is left alone.
THEOREM RowsTellHistory == Spec => []RowTellsHistory
<1>1. TurnInv => RowTellsHistory
  BY DEF TurnInv, Turns, Tells, RowTellsHistory
<1> QED BY <1>1, TurnInit, TurnStep, PTL DEF Spec

\* As long as sessions take turns, routing picks no rail that just failed too
\* often in a row (_refresh_rail_state, select_payout_rail, select_custody_provider).
THEOREM RoutedHealthy == Spec => []RoutedIsHealthy
<1>1. TurnInv => RoutedIsHealthy
  <2> SUFFICES ASSUME TypeOK, Turns, NEW s \in Sessions, sess[s].pick # "none"
               PROVE  Healthy(row[sess[s].pick], sess[s].now)
    BY DEF TurnInv, RoutedIsHealthy, Healthy
  <2>1. Active(s)
    BY DEF Turns, Resting, Idle
  <2> QED BY <2>1, PickHealthy
<1> QED BY <1>1, TurnInit, TurnStep, PTL DEF Spec
=============================================================================
