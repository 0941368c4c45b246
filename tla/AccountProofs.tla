---------------------------- MODULE AccountProofs ----------------------------
(***************************************************************************)
(* What holds of AccountAccess for every set of requests, every limit and  *)
(* every bound.                                                            *)
(***************************************************************************)
EXTENDS AccountAccess, TLAPS

\* A purpose's codes have a newest one.
HasNewest ==
    \A p \in Purposes : Issued(p) # {} => \E i \in Issued(p) : \A j \in Issued(p) : j <= i

\* A request that asked for a code has a number of its own for it.
Reserved ==
    /\ \A i \in DOMAIN codes : codes[i].purpose # "none" => i <= quota
    /\ \A r \in Requests : req[r].op = "ask" =>
         req[r].code \in 1..quota /\ codes[req[r].code].purpose = "none"
    /\ \A r, q \in Requests :
         req[r].op = "ask" /\ req[q].op = "ask" /\ req[r].code = req[q].code => r = q

CodeInv == TypeOK /\ HasNewest /\ Reserved

\* A password other than the newest is one that a rehash brought back; only
\* the password an account began with is hashed the old way.
Account ==
    /\ user.role = "none" => user.pw = 0 /\ user.last = 0
    /\ user.legacy => user.pw = 1 /\ user.last = 1
    /\ user.pw = user.last \/ user.last >= 2

\* What a request that will open a session read of the account: if the newest
\* password is still the one it read about, it opens with that one.
ReadsTold ==
    \A r \in Requests :
        LET who == req[r].who
        IN  /\ req[r].op \in {"login", "reset", "change"} => user.role # "none"
            /\ req[r].op \in {"login", "sign_in"} =>
                 /\ who.last <= user.last
                 /\ who.legacy => who.pw = 1 /\ who.last = 1
                 /\ who.last = user.last /\ user.pw = user.last => who.pw = user.last

\* The first conjunct of NewPasswordSignsOut, and that nobody is signed in to
\* an account that is not there.
Devices ==
    /\ user.role = "none" => \A s \in DOMAIN sessions : ~sessions[s].open
    /\ user.pw = user.last =>
         \A s \in DOMAIN sessions :
             sessions[s].open => sessions[s].pw = user.last \/ sessions[s].late

\* Requests that take turns: one at a time, and the password it read stands.
Alone == \A r, q \in Requests : req[r].op # "idle" /\ req[q].op # "idle" => r = q

InTurn ==
    ~overlap =>
        /\ Alone
        /\ user.pw = user.last
        /\ \A r \in Requests : req[r].op = "login" => req[r].who.pw = user.pw

SignOutInv == CodeInv /\ Account /\ ReadsTold /\ Devices /\ InTurn

-----------------------------------------------------------------------------
\* A code nobody used has no winner and tries left; the tries counted are those
\* made, and the last of them set the lockout.
Tallied ==
    \A i \in DOMAIN codes :
        /\ codes[i].at <= clock
        /\ codes[i].purpose = "none" => codes[i] = NoCode
        /\ codes[i].purpose # "none" => i <= quota
        /\ codes[i].tries = codes[i].wrong /\ codes[i].wrong <= CodeTries
        /\ codes[i].wins <= 1
        /\ ~codes[i].used => codes[i].wins = 0 /\ codes[i].wrong < CodeTries
        /\ codes[i].wrong = CodeTries =>
             codes[i].wins = 0 /\ codes[i].until >= codes[i].at + CodeLockout

\* A newer code of the purpose ends the older ones, and waits for their lockout.
Replaced ==
    \A p \in Purposes : \A i, j \in Issued(p) :
        i < j => codes[i].used /\ codes[j].at >= codes[i].until

\* What a request read of the codes is still so.
CodesFresh ==
    \A r \in Requests :
        LET q == req[r]
        IN  /\ q.now <= clock
            /\ q.op = "ask" =>
                 /\ q.code = quota /\ quota > 0 /\ codes[quota].purpose = "none"
                 /\ \A i \in Issued(q.purpose) : codes[i].until <= q.now
            /\ q.op \in {"wrong_code", "sign_in", "reset"} =>
                 /\ q.code \in Issued(q.purpose)
                 /\ \A j \in Issued(q.purpose) : j <= q.code
                 /\ ~codes[q.code].used
                 /\ q.tries = codes[q.code].tries
                 /\ codes[q.code].at <= q.now

TryInv ==
    /\ CodeInv
    /\ ~overlap => Alone /\ Tallied /\ Replaced /\ CodesFresh

-----------------------------------------------------------------------------
(***************************************************************************)
(* Types, and the numbers of the codes.                                    *)
(***************************************************************************)
LEMMA RecordTypes ==
    /\ NoUser \in User /\ NoCode \in Code /\ Idle \in Request /\ Revoked \in Session
    /\ \A u \in User : New(u) \in User /\ \A pw \in Nat : Rehashed(u, pw) \in User
    /\ \A c \in Code : Used(c) \in Code /\ Used(c).purpose = c.purpose
    /\ \A c \in Code : Won(c) \in Code /\ Won(c).purpose = c.purpose
    /\ \A c \in Code, n \in Nat, now \in Nat :
         Tried(c, n, now) \in Code /\ Tried(c, n, now).purpose = c.purpose
<1>1. NoUser \in User /\ NoCode \in Code /\ Idle \in Request /\ Revoked \in Session
  BY DEF NoUser, User, Roles, NoCode, Code, Purposes, Idle, Request, Ops, Revoked, Session
<1>2. \A u \in User : New(u) \in User /\ \A pw \in Nat : Rehashed(u, pw) \in User
  <2> SUFFICES ASSUME NEW u \in User, NEW pw \in Nat
               PROVE  New(u) \in User /\ Rehashed(u, pw) \in User
    BY DEF User
  <2>1. New(u) \in User
    <3>1. u.last + 1 \in Nat
      BY DEF User
    <3> QED BY <3>1 DEF User, New
  <2>2. Rehashed(u, pw) \in User
    BY DEF User, Rehashed
  <2> QED BY <2>1, <2>2
<1>3. ASSUME NEW c \in Code
      PROVE  Used(c) \in Code /\ Used(c).purpose = c.purpose
  BY DEF Code, Used
<1>4. ASSUME NEW c \in Code
      PROVE  Won(c) \in Code /\ Won(c).purpose = c.purpose
  <2>1. c.wins + 1 \in Nat
    BY DEF Code
  <2> QED BY <2>1 DEF Code, Won
<1>5. ASSUME NEW c \in Code, NEW n \in Nat, NEW now \in Nat
      PROVE  Tried(c, n, now) \in Code /\ Tried(c, n, now).purpose = c.purpose
  <2>1. c.wrong + 1 \in Nat /\ now + CodeLockout \in Nat
    BY AccountAssumption DEF Code
  <2>2. (n >= CodeTries) \in BOOLEAN
    OBVIOUS
  <2> DEFINE w == c.wrong + 1
             u == IF n >= CodeTries THEN now + CodeLockout ELSE c.until
             b == c.used \/ n >= CodeTries
  <2>3. w \in Nat /\ u \in Nat /\ b \in BOOLEAN
    BY <2>1, <2>2 DEF Code
  <2>4. Tried(c, n, now) = [c EXCEPT !.tries = n, !.wrong = w, !.used = b, !.until = u]
    BY DEF Tried
  <2> HIDE DEF w, u, b
  <2> QED BY <2>3, <2>4 DEF Code
<1> QED BY <1>1, <1>2, <1>3, <1>4, <1>5

LEMMA WrittenType ==
    ASSUME TypeOK, NEW who \in User, NEW failed \in Nat, NEW until \in Nat
    PROVE  /\ Written(who, failed, until) \in User
           /\ Written(who, failed, until).role = user.role
           /\ Written(who, failed, until).pw = user.pw
           /\ Written(who, failed, until).last = user.last
           /\ Written(who, failed, until).legacy = user.legacy
BY DEF Written, User, TypeOK

LEMMA Dated == TypeOK => {clock, ClientLimit} \subseteq Nat /\ DOMAIN codes = 1..ClientLimit
BY AccountAssumption DEF TypeOK

LEMMA NewestIn ==
    ASSUME CodeInv, NEW p \in Purposes, Issued(p) # {}
    PROVE  /\ Latest(p) \in Issued(p)
           /\ \A j \in Issued(p) : j <= Latest(p)
<1>1. Issued(p) \subseteq Nat
  BY Dated DEF Issued, CodeInv
<1>2. PICK i \in Issued(p) : \A j \in Issued(p) : i >= j
  BY <1>1 DEF CodeInv, HasNewest
<1>3. Max(Issued(p)) \in Issued(p) /\ \A j \in Issued(p) : Max(Issued(p)) >= j
  BY <1>2 DEF Max
<1> QED BY <1>1, <1>3 DEF Latest

\* A code that may be tried is the newest of its purpose and open.
LEMMA Triable ==
    ASSUME CodeInv, NEW p \in Purposes, MayTry(p)
    PROVE  /\ Latest(p) \in Issued(p) /\ Latest(p) \in DOMAIN codes /\ Latest(p) \in Nat
           /\ \A j \in Issued(p) : j <= Latest(p)
           /\ codes[Latest(p)] \in Code /\ ~codes[Latest(p)].used
<1>1. Issued(p) # {}
  BY DEF MayTry, Latest
<1> QED BY <1>1, NewestIn, Dated DEF MayTry, Issued, CodeInv, TypeOK

LEMMA ReadingType ==
    ASSUME CodeInv, NEW p \in Purposes, MayTry(p), NEW op \in Ops, NEW who \in User
    PROVE  Reading(op, p, who) \in Request
<1>1. Latest(p) \in Nat /\ codes[Latest(p)].tries \in Nat
  BY Triable DEF Code
<1> QED BY <1>1, RecordTypes DEF Reading, Request, CodeInv, TypeOK

LEMMA SessionsAre ==
    ASSUME TypeOK
    PROVE  /\ Len(sessions) \in Nat /\ DOMAIN sessions = 1..Len(sessions)
           /\ \A s \in DOMAIN sessions : sessions[s] \in Session
BY DEF TypeOK

LEMMA RevokeKeeps ==
    ASSUME TypeOK, NEW set, Revoke(set)
    PROVE  /\ sessions' \in Seq(Session) /\ DOMAIN sessions' = DOMAIN sessions
           /\ \A s \in DOMAIN sessions :
                sessions'[s] = IF s \in set THEN Revoked ELSE sessions[s]
<1>1. sessions' = [s \in 1..Len(sessions) |-> IF s \in set THEN Revoked ELSE sessions[s]]
  BY SessionsAre DEF Revoke
<1>2. sessions' \in [1..Len(sessions) -> Session]
  BY <1>1, SessionsAre, RecordTypes
<1> QED BY <1>1, <1>2, SessionsAre

LEMMA OpenAdds ==
    ASSUME TypeOK, NEW r \in Requests, Open(r)
    PROVE  /\ sessions' \in Seq(Session)
           /\ DOMAIN sessions' = DOMAIN sessions \cup {Len(sessions) + 1}
           /\ \A s \in DOMAIN sessions : sessions'[s] = sessions[s]
           /\ sessions'[Len(sessions) + 1].pw = req[r].who.pw
           /\ sessions'[Len(sessions) + 1].late <=> req[r].who.last # user.last
<1> DEFINE b == req[r].who.last # user.last
           e == [open |-> TRUE, at |-> req[r].now, pw |-> req[r].who.pw, late |-> b]
<1>1. sessions' = Append(sessions, e)
  BY DEF Open
<1>2. b \in BOOLEAN
  OBVIOUS
<1> HIDE DEF b
<1>3. e \in Session /\ e.pw = req[r].who.pw /\ e.late = b
  BY <1>2 DEF TypeOK, Request, User, Session
<1> HIDE DEF e
<1>4. /\ sessions' \in Seq(Session)
      /\ Len(sessions') = Len(sessions) + 1
      /\ \A s \in 1..Len(sessions) : sessions'[s] = sessions[s]
      /\ sessions'[Len(sessions) + 1] = e
  BY <1>1, <1>3 DEF TypeOK
<1>5. DOMAIN sessions' = 1..(Len(sessions) + 1)
  BY <1>4
<1>6. sessions'[Len(sessions) + 1].late = b /\ sessions'[Len(sessions) + 1].pw = req[r].who.pw
  BY <1>3, <1>4
<1>7. DOMAIN sessions' = DOMAIN sessions \cup {Len(sessions) + 1}
  BY <1>5, SessionsAre
<1>8. sessions'[Len(sessions) + 1].late <=> req[r].who.last # user.last
  BY <1>6 DEF b
<1> QED BY <1>4, <1>6, <1>7, <1>8, SessionsAre

LEMMA PurposesKept ==
    ASSUME TypeOK, DOMAIN codes' = DOMAIN codes,
           \A i \in DOMAIN codes : codes'[i].purpose = codes[i].purpose
    PROVE  \A p : Issued(p)' = Issued(p)
BY DEF Issued

LEMMA WinKeeps ==
    ASSUME TypeOK, NEW i, Win(i)
    PROVE  /\ codes' \in [1..ClientLimit -> Code] /\ DOMAIN codes' = DOMAIN codes
           /\ \A j \in DOMAIN codes : codes'[j].purpose = codes[j].purpose
           /\ \A j \in DOMAIN codes : codes'[j] = IF j = i THEN Won(codes[j]) ELSE codes[j]
BY RecordTypes DEF Win, TypeOK

LEMMA TryKeeps ==
    ASSUME TypeOK, NEW r \in Requests, CountTry(r)
    PROVE  /\ codes' \in [1..ClientLimit -> Code] /\ DOMAIN codes' = DOMAIN codes
           /\ \A j \in DOMAIN codes : codes'[j].purpose = codes[j].purpose
           /\ \A j \in DOMAIN codes :
                codes'[j] = IF j = req[r].code THEN Tried(codes[j], req[r].tries + 1, req[r].now)
                            ELSE codes[j]
<1>1. req[r].tries + 1 \in Nat /\ req[r].now \in Nat
  BY DEF TypeOK, Request
<1> DEFINE n == req[r].tries + 1
           t(c) == Tried(c, n, req[r].now)
<1>2. \A c \in Code : t(c) \in Code /\ t(c).purpose = c.purpose
  BY <1>1, RecordTypes
<1>3. codes' = [codes EXCEPT ![req[r].code] = t(codes[req[r].code])]
  BY DEF CountTry
<1> HIDE DEF t
<1>4. /\ codes' \in [1..ClientLimit -> Code] /\ DOMAIN codes' = DOMAIN codes
      /\ \A j \in DOMAIN codes : codes'[j].purpose = codes[j].purpose
      /\ \A j \in DOMAIN codes : codes'[j] = IF j = req[r].code THEN t(codes[j]) ELSE codes[j]
  BY <1>2, <1>3 DEF TypeOK
<1> QED BY <1>4 DEF t

\* Requests that read and write nothing yet are typed and ask for no code.
LEMMA BeginKeeps ==
    ASSUME CodeInv, NEW r \in Requests, NEW request \in Request, Begin(r, request),
           request.op # "ask", user' = user, codes' = codes, quota' = quota
    PROVE  /\ req' \in [Requests -> Request]
           /\ HasNewest' /\ Reserved'
<1>1. req' \in [Requests -> Request]
  BY DEF Begin, CodeInv, TypeOK
<1>2. \A p : Issued(p)' = Issued(p)
  BY DEF Issued
<1>3. HasNewest'
  BY <1>2 DEF CodeInv, HasNewest
<1>4. \A q \in Requests : req'[q].op = "ask" => req'[q] = req[q]
  BY DEF Begin, CodeInv, TypeOK
<1>5. Reserved'
  BY <1>4 DEF CodeInv, Reserved
<1> QED BY <1>1, <1>3, <1>5

\* A request that ends without a new code leaves the others' numbers alone.
LEMMA FinishKeeps ==
    ASSUME CodeInv, NEW r \in Requests, Finish(r), quota' = quota, DOMAIN codes' = DOMAIN codes,
           \A i \in DOMAIN codes : codes'[i].purpose = codes[i].purpose
    PROVE  /\ req' \in [Requests -> Request]
           /\ HasNewest' /\ Reserved'
<1>1. req' \in [Requests -> Request]
  BY RecordTypes DEF Finish, CodeInv, TypeOK
<1>2. HasNewest'
  BY PurposesKept DEF CodeInv, HasNewest
<1>3. \A q \in Requests : req'[q].op = "ask" => req'[q] = req[q]
  BY DEF Finish, CodeInv, TypeOK, Idle
<1>4. \A q \in Requests : req[q].op = "ask" => req[q].code \in DOMAIN codes
  BY Dated DEF CodeInv, Reserved, TypeOK
<1>5. Reserved'
  BY <1>3, <1>4 DEF CodeInv, Reserved
<1> QED BY <1>1, <1>2, <1>5

LEMMA AskKeeps ==
    ASSUME CodeInv, NEW r \in Requests, NEW p \in Purposes, AskCode(r, p)
    PROVE  CodeInv'
<1> DEFINE n == quota + 1
           q == [Idle EXCEPT !.op = "ask", !.purpose = p, !.now = clock, !.code = n]
<1>1. quota < ClientLimit /\ quota \in 0..ClientLimit /\ ClientLimit \in Nat
  BY Dated DEF AskCode, MayAsk, CodeInv, TypeOK
<1>2a. n \in Nat /\ clock \in Nat
  BY <1>1, Dated DEF CodeInv
<1>2b. req' = [req EXCEPT ![r] = q]
  BY DEF AskCode, Begin
<1>2c. q \in Request /\ q.op = "ask" /\ q.code = n
  <2> HIDE DEF n
  <2> QED BY <1>2a, RecordTypes DEF Request, Ops
<1>2. q \in Request /\ q.op = "ask" /\ q.code = quota + 1 /\ req' = [req EXCEPT ![r] = q]
  BY <1>2b, <1>2c
<1> HIDE DEF q
<1>3. UNCHANGED <<overlap, clock, user, codes, sessions, rate>> /\ quota' = quota + 1
  BY DEF AskCode
<1>4. TypeOK'
  BY <1>1, <1>2, <1>3 DEF CodeInv, TypeOK
<1>5. HasNewest'
  <2>1. \A s : Issued(s)' = Issued(s)
    BY <1>3 DEF Issued
  <2> QED BY <2>1 DEF CodeInv, HasNewest
<1>6. \A s \in Requests : req'[s] = IF s = r THEN q ELSE req[s]
  BY <1>2 DEF CodeInv, TypeOK
<1>7. codes[quota + 1].purpose = "none"
  BY <1>1, Dated DEF CodeInv, Reserved, TypeOK
<1>8. Reserved'
  BY <1>1, <1>2, <1>3, <1>6, <1>7, Dated DEF CodeInv, Reserved
<1> QED BY <1>4, <1>5, <1>8 DEF CodeInv

\* What issuing a code does to the codes of its purpose and of the other one.
LEMMA Issuing ==
    ASSUME CodeInv, NEW r \in Requests, IssueCode(r)
    PROVE  /\ codes' \in [1..ClientLimit -> Code] /\ DOMAIN codes' = DOMAIN codes
           /\ req[r].code \in DOMAIN codes /\ req[r].purpose \in Purposes
           /\ codes'[req[r].code] =
                [NoCode EXCEPT !.purpose = req[r].purpose, !.at = req[r].now]
           /\ \A i \in DOMAIN codes : i # req[r].code =>
                codes'[i] = IF i \in Issued(req[r].purpose) THEN Used(codes[i]) ELSE codes[i]
           /\ \A p \in Purposes : Issued(p)' =
                IF p = req[r].purpose THEN Issued(p) \cup {req[r].code} ELSE Issued(p)
<1> DEFINE c == req[r].code
           p == req[r].purpose
           n == [NoCode EXCEPT !.purpose = p, !.at = req[r].now]
<1>1. /\ c \in DOMAIN codes /\ codes[c].purpose = "none"
      /\ p \in Purposes /\ req[r].now \in Nat
      /\ codes \in [1..ClientLimit -> Code]
  BY Dated DEF CodeInv, TypeOK, Reserved, Request, IssueCode
<1>2. n \in Code /\ n.purpose = p
  BY <1>1 DEF NoCode, Code, Purposes
<1>3. codes' = [i \in 1..ClientLimit |->
                  IF i = c THEN n
                  ELSE IF i \in Issued(p) THEN Used(codes[i]) ELSE codes[i]]
  BY <1>1 DEF IssueCode
<1> HIDE DEF n, p, c
<1>4. codes' \in [1..ClientLimit -> Code] /\ DOMAIN codes' = DOMAIN codes
  BY <1>1, <1>2, <1>3, RecordTypes
<1>5. /\ codes'[c] = n
      /\ \A i \in DOMAIN codes : i # c =>
            codes'[i] = IF i \in Issued(p) THEN Used(codes[i]) ELSE codes[i]
  BY <1>1, <1>3
<1>6. \A i \in DOMAIN codes : i # c => codes'[i].purpose = codes[i].purpose
  BY <1>1, <1>5 DEF Used, Code
<1>7. \A s \in Purposes : Issued(s)' = IF s = p THEN Issued(s) \cup {c} ELSE Issued(s)
  BY <1>1, <1>2, <1>4, <1>5, <1>6 DEF Issued, Purposes
<1> QED BY <1>1, <1>4, <1>5, <1>7 DEF c, p, n

LEMMA IssueKeeps ==
    ASSUME CodeInv, NEW r \in Requests, IssueCode(r)
    PROVE  CodeInv'
<1> DEFINE c == req[r].code
<1>1. UNCHANGED <<overlap, clock, user, sessions, quota, rate>>
  BY DEF IssueCode
<1>2. c \in 1..quota /\ quota \in Nat /\ c \in Nat
  BY Dated DEF CodeInv, TypeOK, Reserved, IssueCode
<1>3. req' = [req EXCEPT ![r] = Idle]
  BY DEF IssueCode, Finish
<1>4. TypeOK'
  BY <1>1, <1>3, Issuing, RecordTypes DEF CodeInv, TypeOK
<1>5. HasNewest'
  <2> SUFFICES ASSUME NEW p \in Purposes, Issued(p)' # {}
               PROVE  \E i \in Issued(p)' : \A j \in Issued(p)' : j <= i
    BY DEF HasNewest
  <2>1. CASE Issued(p) = {}
    <3>1. Issued(p)' = {c}
      BY <2>1, Issuing
    <3> QED BY <3>1, <1>2
  <2>2. CASE Issued(p) # {}
    <3>1. PICK i \in Issued(p) : \A j \in Issued(p) : j <= i
      BY <2>2 DEF CodeInv, HasNewest
    <3>2. Issued(p) \subseteq Nat
      BY Dated DEF Issued, CodeInv
    <3>3. Issued(p)' = Issued(p) \/ Issued(p)' = Issued(p) \cup {c}
      BY Issuing
    <3>4. CASE Issued(p)' = Issued(p)
      BY <3>1, <3>4
    <3>5. CASE Issued(p)' = Issued(p) \cup {c} /\ c <= i
      BY <3>1, <3>2, <3>5, <1>2
    <3>6. CASE Issued(p)' = Issued(p) \cup {c} /\ ~(c <= i)
      <4>1. \A j \in Issued(p)' : j <= c
        BY <3>1, <3>2, <3>6, <1>2
      <4> QED BY <4>1, <3>6
    <3> QED BY <3>3, <3>4, <3>5, <3>6
  <2> QED BY <2>1, <2>2
<1>6. \A q \in Requests : req'[q].op = "ask" => q # r /\ req'[q] = req[q]
  BY <1>3 DEF CodeInv, TypeOK, Idle
<1>7. \A i \in DOMAIN codes : codes'[i].purpose # "none" => i = c \/ codes[i].purpose # "none"
  <2>1. \A i \in DOMAIN codes : Used(codes[i]).purpose = codes[i].purpose
    BY DEF CodeInv, TypeOK, Used, Code
  <2> QED BY <2>1, Issuing
<1>8. \A q \in Requests : req[q].op = "ask" => req[q].code \in DOMAIN codes
  BY Dated DEF CodeInv, Reserved, TypeOK
<1>9. \A q \in Requests : req'[q].op = "ask" => req[q].code # c
  BY <1>6 DEF CodeInv, Reserved, IssueCode
<1>10. Reserved'
  <2>1. \A i \in DOMAIN codes' : codes'[i].purpose # "none" => i <= quota'
    <3>1. DOMAIN codes' = DOMAIN codes
      BY Issuing
    <3> QED BY <3>1, <1>1, <1>2, <1>7 DEF CodeInv, Reserved
  <2>2. \A q \in Requests : req'[q].op = "ask" =>
           req'[q].code \in 1..quota' /\ codes'[req'[q].code].purpose = "none"
    BY <1>1, <1>6, <1>7, <1>8, <1>9 DEF CodeInv, Reserved
  <2>3. \A s, q \in Requests :
           req'[s].op = "ask" /\ req'[q].op = "ask" /\ req'[s].code = req'[q].code => s = q
    BY <1>6 DEF CodeInv, Reserved
  <2> QED BY <2>1, <2>2, <2>3 DEF Reserved
<1> QED BY <1>4, <1>5, <1>10 DEF CodeInv

\* A request that only reads, whatever becomes of the login attempts.
LEMMA ReadKeeps ==
    ASSUME CodeInv, NEW r \in Requests, NEW request \in Request, Begin(r, request),
           request.op # "ask", UNCHANGED <<overlap, clock, user, codes, sessions, quota>>,
           rate' \in 0..LoginRate
    PROVE  CodeInv'
<1>1. req' \in [Requests -> Request] /\ HasNewest' /\ Reserved'
  BY BeginKeeps
<1> QED BY <1>1 DEF CodeInv, TypeOK

LEMMA AttemptRate ==
    ASSUME CodeInv, NEW r, NEW request, Attempt(r, request)
    PROVE  rate' \in 0..LoginRate
BY AccountAssumption DEF Attempt, CodeInv, TypeOK

LEMMA LoginType ==
    ASSUME TypeOK, NEW op \in Ops, NEW who \in User
    PROVE  /\ Login(op, who) \in Request
           /\ Login(op, who).op = op /\ Login(op, who).who = who /\ Login(op, who).now = clock
BY RecordTypes, Dated DEF Login, Request

LEMMA WhoTypes ==
    ASSUME TypeOK
    PROVE  /\ Counters \in User /\ Password \in User /\ user \in User
           /\ Counters.legacy = FALSE /\ Password.legacy = FALSE
           /\ Password.role = user.role /\ Password.pw = user.pw /\ Password.last = user.last
BY DEF Counters, Password, NoUser, User, Roles, TypeOK

LEMMA ReadingIs ==
    ASSUME CodeInv, NEW p \in Purposes, NEW op \in Ops, NEW who \in User
    PROVE  LET q == Reading(op, p, who)
           IN  /\ q.op = op /\ q.purpose = p /\ q.now = clock /\ q.code = Latest(p)
               /\ q.tries = codes[Latest(p)].tries /\ q.who = who
BY RecordTypes DEF Reading, Request

LEMMA SignedInType ==
    ASSUME TypeOK, NEW op \in Ops, NEW t \in DOMAIN sessions
    PROVE  /\ [Idle EXCEPT !.op = op, !.session = t] \in Request
           /\ [Idle EXCEPT !.op = op, !.session = t].op = op
<1>1. t \in Nat
  BY SessionsAre
<1> QED BY <1>1, RecordTypes DEF Request

\* Every step that only reads, in one place.
Reads(r) ==
    \/ \E p \in Purposes : TryWrongCode(r, p) \/ TryRightCode(r, p)
    \/ TurnAway(r) \/ TryWrongPassword(r) \/ TryRightPassword(r)
    \/ \E s \in DOMAIN sessions :
         \/ AskChange(r, s) \/ AskRevokeOthers(r, s) \/ AskLogOut(r, s)
         \/ \E t \in DOMAIN sessions : AskRevoke(r, s, t)

LEMMA ReadsBegin ==
    ASSUME CodeInv, NEW r \in Requests, Reads(r)
    PROVE  /\ UNCHANGED <<overlap, clock, user, codes, sessions, quota>>
           /\ rate' \in 0..LoginRate
           /\ \E request \in Request :
                /\ Begin(r, request)
                /\ \/ request.op \in {"idle", "revoke_others", "revoke"}
                   \/ request.op = "wrong_password"
                   \/ request.op = "change" /\ user.pw # 0
                   \/ request.op = "login" /\ user.pw # 0 /\ request.who = user
                   \/ \E p \in Purposes :
                        /\ MayTry(p) /\ request.now = clock
                        /\ request.purpose = p /\ request.code = Latest(p)
                        /\ request.tries = codes[Latest(p)].tries
                        /\ \/ request.op = "wrong_code"
                           \/ request.op = "sign_in" /\ request.who = Password
                           \/ request.op = "reset" /\ user.role # "none"
                /\ request.now <= clock
<1> USE DEF CodeInv
<1>1. CASE \E p \in Purposes : TryWrongCode(r, p)
  <2> PICK p \in Purposes : TryWrongCode(r, p)
    BY <1>1
  <2>1. "wrong_code" \in Ops /\ MayTry(p)
    BY DEF Ops, TryWrongCode
  <2> DEFINE q == Reading("wrong_code", p, NoUser)
  <2>2. q \in Request
    BY <2>1, ReadingType, RecordTypes
  <2>3. /\ q.op = "wrong_code" /\ q.purpose = p /\ q.now = clock /\ q.code = Latest(p)
        /\ q.tries = codes[Latest(p)].tries
    BY <2>1, ReadingIs, RecordTypes
  <2>4. Begin(r, q) /\ UNCHANGED <<overlap, clock, user, codes, sessions, quota, rate>>
    BY DEF TryWrongCode
  <2>5. clock <= clock
    BY Dated
  <2> HIDE DEF q
  <2> QED BY <2>1, <2>2, <2>3, <2>4, <2>5 DEF TypeOK
<1>2. CASE \E p \in Purposes : TryRightCode(r, p)
  <2> PICK p \in Purposes : TryRightCode(r, p)
    BY <1>2
  <2> DEFINE w == IF p = "reset" THEN Counters ELSE Password
             q == Reading(p, p, w)
  <2>1. p \in Ops /\ p \in {"sign_in", "reset"} /\ MayTry(p) /\ w \in User
    BY WhoTypes DEF Ops, Purposes, TryRightCode
  <2>2. q \in Request
    BY <2>1, ReadingType
  <2>3. /\ q.op = p /\ q.purpose = p /\ q.now = clock /\ q.code = Latest(p)
        /\ q.tries = codes[Latest(p)].tries /\ q.who = w
    BY <2>1, ReadingIs
  <2>4. Begin(r, q) /\ UNCHANGED <<overlap, clock, user, codes, sessions, quota, rate>>
    BY DEF TryRightCode
  <2>5. clock <= clock
    BY Dated
  <2>6. p = "reset" => user.role # "none"
    BY DEF TryRightCode
  <2>7. p = "sign_in" => w = Password
    OBVIOUS
  <2> HIDE DEF q, w
  <2> QED BY <2>1, <2>2, <2>3, <2>4, <2>5, <2>6, <2>7 DEF TypeOK
<1>3. CASE TurnAway(r)
  <2>1. Idle.op = "idle" /\ Idle.now <= clock
    BY Dated DEF Idle
  <2> QED BY <1>3, <2>1, AttemptRate, RecordTypes DEF TurnAway, Attempt
<1>4. CASE TryWrongPassword(r)
  <2> DEFINE q == Login("wrong_password", Counters)
  <2>0. "wrong_password" \in Ops
    BY DEF Ops
  <2>1. q \in Request /\ q.op = "wrong_password" /\ q.now = clock
    BY <2>0, LoginType, WhoTypes
  <2>2. Begin(r, q) /\ UNCHANGED <<overlap, clock, user, codes, sessions, quota>>
    BY <1>4 DEF TryWrongPassword, Attempt
  <2>3. rate' \in 0..LoginRate /\ clock <= clock
    BY <1>4, AttemptRate, Dated DEF TryWrongPassword
  <2> HIDE DEF q
  <2> QED BY <2>1, <2>2, <2>3
<1>5. CASE TryRightPassword(r)
  <2> DEFINE q == Login("login", user)
  <2>0. "login" \in Ops
    BY DEF Ops
  <2>1. q \in Request /\ q.op = "login" /\ q.now = clock /\ q.who = user
    BY <2>0, LoginType, WhoTypes
  <2>2. Begin(r, q) /\ user.pw # 0 /\ UNCHANGED <<overlap, clock, user, codes, sessions, quota>>
    BY <1>5 DEF TryRightPassword, Attempt
  <2>3. rate' \in 0..LoginRate /\ clock <= clock
    BY <1>5, AttemptRate, Dated DEF TryRightPassword
  <2> HIDE DEF q
  <2> QED BY <2>1, <2>2, <2>3
<1>6. CASE \E s \in DOMAIN sessions :
             \/ AskChange(r, s) \/ AskRevokeOthers(r, s) \/ AskLogOut(r, s)
             \/ \E t \in DOMAIN sessions : AskRevoke(r, s, t)
  <2>1. \E op \in {"change", "revoke_others", "revoke"}, t \in DOMAIN sessions :
           /\ op = "change" => user.pw # 0
           /\ Begin(r, [Idle EXCEPT !.op = op, !.session = t])
           /\ UNCHANGED <<overlap, clock, user, codes, sessions, quota, rate>>
    BY <1>6 DEF AskChange, AskRevokeOthers, AskLogOut, AskRevoke, Authenticated
  <2> PICK op \in {"change", "revoke_others", "revoke"}, t \in DOMAIN sessions :
           /\ op = "change" => user.pw # 0
           /\ Begin(r, [Idle EXCEPT !.op = op, !.session = t])
           /\ UNCHANGED <<overlap, clock, user, codes, sessions, quota, rate>>
    BY <2>1
  <2> DEFINE q == [Idle EXCEPT !.op = op, !.session = t]
  <2>0. op \in Ops
    BY DEF Ops
  <2>2. q \in Request /\ q.op = op
    BY <2>0, SignedInType
  <2>3. q.now = 0 /\ 0 <= clock
    BY RecordTypes, Dated DEF Request, Idle
  <2> HIDE DEF q
  <2>4. Begin(r, q)
    BY DEF q
  <2> QED BY <2>2, <2>3, <2>4 DEF TypeOK
<1> QED BY <1>1, <1>2, <1>3, <1>4, <1>5, <1>6 DEF Reads

-----------------------------------------------------------------------------
\* The steps that write, by what they write.
LEMMA SignInWrites ==
    ASSUME CodeInv, NEW r \in Requests, SignInByCode(r)
    PROVE  /\ user' \in User /\ UNCHANGED <<overlap, clock, quota, rate>> /\ Finish(r)
           /\ \/ UNCHANGED <<user, codes, sessions>>
              \/ /\ Win(req[r].code) /\ Open(r) /\ user'.role # "none"
                 /\ \/ user' = user
                    \/ user.role = "none" /\ user' = [NoUser EXCEPT !.role = "buyer"]
<1>1. [NoUser EXCEPT !.role = "buyer"] \in User /\ [NoUser EXCEPT !.role = "buyer"].role = "buyer"
  BY DEF NoUser, User, Roles
<1> QED BY <1>1 DEF SignInByCode, CodeInv, TypeOK

LEMMA ChangeWrites ==
    ASSUME CodeInv, NEW r \in Requests, ChangePassword(r)
    PROVE  /\ sessions' \in Seq(Session) /\ DOMAIN sessions' = DOMAIN sessions
           /\ \A s \in DOMAIN sessions :
                \/ ~sessions'[s].open
                \/ sessions'[s].pw = user.last + 1
<1>1. user.last + 1 \in Nat
  BY DEF CodeInv, TypeOK, User
<1> DEFINE n == user.last + 1
           f(t) == IF t \in Others(req[r].session) THEN Revoked
                   ELSE IF t = req[r].session /\ sessions[t].open
                   THEN [sessions[t] EXCEPT !.pw = n] ELSE sessions[t]
<1>2. ASSUME NEW t \in DOMAIN sessions
      PROVE  f(t) \in Session /\ (~f(t).open \/ f(t).pw = n)
  <2> HIDE DEF n
  <2>1. sessions[t] \in Session
    BY SessionsAre DEF CodeInv
  <2>2. [sessions[t] EXCEPT !.pw = n] \in Session /\ [sessions[t] EXCEPT !.pw = n].pw = n
    BY <1>1, <2>1 DEF Session, n
  <2>3. t \in Others(req[r].session) \/ t = req[r].session
    BY DEF Others
  <2> QED BY <2>1, <2>2, <2>3, RecordTypes DEF Revoked
<1>3. sessions' = [t \in DOMAIN sessions |-> f(t)]
  BY DEF ChangePassword
<1> HIDE DEF f
<1>4. sessions' \in [1..Len(sessions) -> Session]
  BY <1>2, <1>3, SessionsAre DEF CodeInv
<1>5. sessions' \in Seq(Session)
  BY <1>4, SessionsAre DEF CodeInv
<1> QED BY <1>2, <1>3, <1>5 DEF n

LEMMA FailureWrites ==
    ASSUME CodeInv, NEW r \in Requests, CountFailure(r)
    PROVE  /\ user' \in User
           /\ user'.role = user.role /\ user'.pw = user.pw
           /\ user'.last = user.last /\ user'.legacy = user.legacy
<1>1. req[r].who \in User /\ req[r].now \in Nat
  BY DEF CodeInv, TypeOK, Request
<1>2. req[r].who.failed + 1 \in Nat /\ req[r].who.until \in Nat
  BY <1>1 DEF User
<1>3. LoginLockout \in Nat
  BY AccountAssumption
<1>4. req[r].now + LoginLockout \in Nat /\ 0 \in Nat
  BY <1>1, <1>3
<1>5. \E failed, until \in Nat : user' = Written(req[r].who, failed, until)
  BY <1>2, <1>4 DEF CountFailure
<1>6. PICK failed \in Nat, until \in Nat : user' = Written(req[r].who, failed, until)
  BY <1>5
<1>7. TypeOK
  BY DEF CodeInv
<1> QED BY <1>1, <1>6, <1>7, WrittenType

LEMMA LogInWrites ==
    ASSUME CodeInv, NEW r \in Requests, LogIn(r)
    PROVE  /\ user' \in User
           /\ user'.role = user.role /\ user'.last = user.last
           /\ IF req[r].who.legacy THEN user'.pw = req[r].who.pw /\ user'.legacy = FALSE
              ELSE user'.pw = user.pw /\ user'.legacy = user.legacy
<1>1. req[r].who \in User /\ req[r].who.pw \in Nat
  BY DEF CodeInv, TypeOK, Request, User
<1> DEFINE kept == Written(req[r].who, 0, 0)
<1>2. kept \in User /\ kept.role = user.role /\ kept.pw = user.pw /\ kept.last = user.last
      /\ kept.legacy = user.legacy
  BY <1>1, WrittenType DEF CodeInv
<1>3. user' = IF req[r].who.legacy THEN Rehashed(kept, req[r].who.pw) ELSE kept
  BY DEF LogIn
<1> HIDE DEF kept
<1>4. LET u == Rehashed(kept, req[r].who.pw)
      IN  u \in User /\ u.role = kept.role /\ u.last = kept.last /\ u.pw = req[r].who.pw
          /\ u.legacy = FALSE
  BY <1>1, <1>2 DEF Rehashed, User
<1> QED BY <1>2, <1>3, <1>4

LEMMA NewIs ==
    ASSUME NEW u \in User
    PROVE  /\ New(u) \in User /\ New(u).role = u.role /\ New(u).legacy = FALSE
           /\ New(u).last = u.last + 1 /\ New(u).pw = u.last + 1
<1>1. u.last + 1 \in Nat
  BY DEF User
<1> QED BY <1>1, RecordTypes DEF New, User

LEMMA NewPassword ==
    ASSUME CodeInv, NEW r \in Requests, ResetPassword(r) \/ ChangePassword(r)
    PROVE  /\ user' \in User /\ user'.legacy = FALSE /\ user'.pw = user'.last
           /\ user'.last = user.last + 1 /\ user'.role = user.role
<1>1. CASE ResetPassword(r)
  <2>1. req[r].who \in User /\ 0 \in Nat
    BY DEF CodeInv, TypeOK, Request
  <2> DEFINE w == Written(req[r].who, 0, 0)
  <2>2. user' = New(w)
    BY <1>1 DEF ResetPassword
  <2>3. w \in User /\ w.role = user.role /\ w.last = user.last
    BY <2>1, WrittenType DEF CodeInv
  <2> HIDE DEF w
  <2> QED BY <2>2, <2>3, NewIs
<1>2. CASE ChangePassword(r)
  BY <1>2, NewIs DEF ChangePassword, CodeInv, TypeOK
<1> QED BY <1>1, <1>2

LEMMA Registered ==
    ASSUME NEW role \in {"buyer", "seller"}, Register(role)
    PROVE  /\ user' \in User /\ user'.legacy = FALSE /\ user'.pw = user'.last
           /\ user.role = "none" /\ user'.last = 1 /\ user'.role # "none"
<1>1. NoUser.last = 0
  BY DEF NoUser
<1>2. NoUser \in User
  BY RecordTypes
<1>3. /\ New(NoUser) \in User /\ New(NoUser).last = 1
      /\ New(NoUser).pw = 1 /\ New(NoUser).legacy = FALSE
  <2>1. /\ New(NoUser) \in User /\ New(NoUser).last = NoUser.last + 1
        /\ New(NoUser).pw = NoUser.last + 1 /\ New(NoUser).legacy = FALSE
    BY <1>2, NewIs
  <2> QED BY <1>1, <2>1
<1>4. user' = [New(NoUser) EXCEPT !.role = role] /\ role \in Roles /\ user.role = "none"
  BY DEF Register, Roles
<1> QED BY <1>3, <1>4 DEF User

LEMMA CodeInit == Init => CodeInv
<1> SUFFICES ASSUME Init PROVE CodeInv
  OBVIOUS
<1>1. user \in User
  <2> DEFINE u == [NoUser EXCEPT !.role = "seller", !.pw = 1, !.last = 1, !.legacy = TRUE]
  <2>1. u \in User
    BY RecordTypes DEF User, Roles
  <2>2. user = NoUser \/ user = u
    BY DEF Init
  <2> QED BY <2>1, <2>2, RecordTypes
<1>2. TypeOK
  BY <1>1, RecordTypes, AccountAssumption DEF Init, TypeOK
<1>3. \A p \in Purposes : Issued(p) = {}
  BY DEF Init, Issued, NoCode, Purposes
<1>4. Reserved
  BY DEF Init, Reserved, NoCode, Idle
<1> QED BY <1>2, <1>3, <1>4 DEF CodeInv, HasNewest

LEMMA CodeStep == CodeInv /\ [Next]_vars => CodeInv'
<1> SUFFICES ASSUME CodeInv, [Next]_vars
             PROVE  CodeInv'
  OBVIOUS
<1> USE DEF CodeInv
<1>0. TypeOK
  OBVIOUS
<1>1. ASSUME NEW r \in Requests, NEW p \in Purposes, AskCode(r, p)
      PROVE  CodeInv'
  BY <1>1, AskKeeps
<1>2. ASSUME NEW r \in Requests, IssueCode(r)
      PROVE  CodeInv'
  BY <1>2, IssueKeeps
<1>3. ASSUME NEW r \in Requests, Reads(r)
      PROVE  CodeInv'
  <2>1. PICK request \in Request : Begin(r, request) /\ request.op # "ask"
    BY <1>3, ReadsBegin
  <2> QED BY <1>3, <2>1, ReadsBegin, ReadKeeps
<1>4. ASSUME NEW r \in Requests, CountTry(r)
      PROVE  CodeInv'
  <2>1. Finish(r) /\ UNCHANGED <<overlap, clock, user, sessions, quota, rate>>
    BY <1>4 DEF CountTry
  <2> QED BY <1>4, <2>1, TryKeeps, FinishKeeps DEF TypeOK
<1>5. ASSUME NEW r \in Requests, SignInByCode(r)
      PROVE  CodeInv'
  <2>1. /\ codes' \in [1..ClientLimit -> Code] /\ DOMAIN codes' = DOMAIN codes
        /\ \A j \in DOMAIN codes : codes'[j].purpose = codes[j].purpose
    BY <1>5, SignInWrites, WinKeeps DEF TypeOK
  <2>2. sessions' \in Seq(Session)
    BY <1>5, SignInWrites, OpenAdds DEF TypeOK
  <2> QED BY <1>5, <2>1, <2>2, SignInWrites, FinishKeeps DEF TypeOK
<1>6. ASSUME NEW r \in Requests, ResetPassword(r)
      PROVE  CodeInv'
  <2>1. Finish(r) /\ Win(req[r].code) /\ Revoke(DOMAIN sessions)
        /\ UNCHANGED <<overlap, clock, quota, rate>>
    BY <1>6 DEF ResetPassword
  <2>2. user' \in User
    BY <1>6, NewPassword
  <2>3. /\ codes' \in [1..ClientLimit -> Code] /\ DOMAIN codes' = DOMAIN codes
        /\ \A j \in DOMAIN codes : codes'[j].purpose = codes[j].purpose
    BY <2>1, WinKeeps
  <2>4. sessions' \in Seq(Session)
    BY <2>1, RevokeKeeps
  <2> QED BY <2>1, <2>2, <2>3, <2>4, FinishKeeps DEF TypeOK
<1>7. ASSUME NEW r \in Requests, CountFailure(r)
      PROVE  CodeInv'
  <2>1. Finish(r) /\ UNCHANGED <<overlap, clock, codes, sessions, quota, rate>>
    BY <1>7 DEF CountFailure
  <2> QED BY <1>7, <2>1, FailureWrites, FinishKeeps DEF TypeOK
<1>8. ASSUME NEW r \in Requests, LogIn(r)
      PROVE  CodeInv'
  <2>1. Finish(r) /\ Open(r) /\ rate' = 0 /\ UNCHANGED <<overlap, clock, codes, quota>>
    BY <1>8 DEF LogIn
  <2>2. sessions' \in Seq(Session) /\ rate' \in 0..LoginRate
    <3>1. 0 \in 0..LoginRate
      BY AccountAssumption
    <3> QED BY <3>1, <2>1, OpenAdds
  <2> QED BY <1>8, <2>1, <2>2, LogInWrites, FinishKeeps DEF TypeOK
<1>9. ASSUME NEW r \in Requests, ChangePassword(r)
      PROVE  CodeInv'
  <2>1. Finish(r) /\ UNCHANGED <<overlap, clock, codes, quota, rate>>
    BY <1>9 DEF ChangePassword
  <2>2. user' \in User
    BY <1>9, NewPassword
  <2> QED BY <1>9, <2>1, <2>2, ChangeWrites, FinishKeeps DEF TypeOK
<1>10. ASSUME NEW r \in Requests, RevokeOthers(r) \/ RevokeOne(r)
       PROVE  CodeInv'
  <2>1. /\ Finish(r) /\ UNCHANGED <<overlap, clock, user, codes, quota, rate>>
        /\ \E set : Revoke(set)
    BY <1>10 DEF RevokeOthers, RevokeOne
  <2>2. sessions' \in Seq(Session)
    BY <2>1, RevokeKeeps
  <2> QED BY <2>1, <2>2, FinishKeeps DEF TypeOK
<1>11. \A p : codes' = codes => Issued(p)' = Issued(p)
  BY DEF Issued
<1>12. ASSUME UNCHANGED <<codes, quota, req>>
       PROVE  HasNewest' /\ Reserved'
  BY <1>11, <1>12 DEF HasNewest, Reserved
<1>13. CASE \E role \in {"buyer", "seller"} : Register(role)
  <2>1. UNCHANGED <<overlap, clock, codes, sessions, quota, rate, req>>
    BY <1>13 DEF Register
  <2> QED BY <1>12, <1>13, <2>1, Registered DEF TypeOK
<1>14. CASE \E s \in DOMAIN sessions : Expire(s)
  <2>1. /\ UNCHANGED <<overlap, clock, user, codes, quota, rate, req>>
        /\ \E set : Revoke(set)
    BY <1>14 DEF Expire
  <2>2. sessions' \in Seq(Session)
    BY <2>1, RevokeKeeps
  <2> QED BY <1>12, <2>1, <2>2 DEF TypeOK
<1>15. CASE Tick
  <2>1. clock' \in Nat /\ rate' \in 0..LoginRate
        /\ UNCHANGED <<overlap, user, codes, sessions, quota, req>>
    BY <1>15, AccountAssumption DEF Tick, TypeOK
  <2> QED BY <1>12, <2>1 DEF TypeOK
<1>16. CASE UNCHANGED vars
  BY <1>12, <1>16 DEF vars, TypeOK
<1> QED BY <1>1, <1>2, <1>3, <1>4, <1>5, <1>6, <1>7, <1>8, <1>9, <1>10, <1>13, <1>14, <1>15,
           <1>16 DEF Next, Reads

\* The account, its codes and sessions and the requests keep their types, and
\* every request for a code has a number of its own for it.
THEOREM AccountTypes == Spec => []TypeOK
<1>1. CodeInv => TypeOK
  BY DEF CodeInv
<1> QED BY <1>1, CodeInit, CodeStep, PTL DEF Spec

-----------------------------------------------------------------------------
(***************************************************************************)
(* A new password signs out the other devices.                             *)
(***************************************************************************)
LEMMA Finished ==
    ASSUME TypeOK, NEW r \in Requests, Finish(r)
    PROVE  \A q \in Requests : req'[q].op # "idle" => q # r /\ req'[q] = req[q]
BY DEF TypeOK, Finish, Idle

LEMMA Begun ==
    ASSUME TypeOK, NEW r \in Requests, NEW request, Begin(r, request)
    PROVE  /\ \A q \in Requests : req'[q] = IF q = r THEN request ELSE req[q]
           /\ ~overlap => \A q \in Requests : req[q].op = "idle"
BY DEF TypeOK, Begin, Free

\* What was read stays told: an account is never removed, passwords only get
\* newer, and the newest one does not come back once it was undone.
LEMMA ToldKept ==
    ASSUME CodeInv, ReadsTold, user' \in User,
           \A q \in Requests : req'[q].op # "idle" => req'[q] = req[q],
           user.role # "none" => user'.role # "none",
           user.last <= user'.last,
           user'.last = user.last /\ user'.pw = user'.last => user.pw = user.last
    PROVE  ReadsTold'
<1>1. user.last \in Nat /\ user'.last \in Nat
  BY DEF CodeInv, TypeOK, User
<1>2. \A q \in Requests : req[q].who.last \in Nat
  BY DEF CodeInv, TypeOK, Request, User
<1> QED BY <1>1, <1>2 DEF ReadsTold

LEMMA BegunTold ==
    ASSUME CodeInv, Account, ReadsTold, NEW r \in Requests, NEW request, Begin(r, request),
           user' = user,
           request.op \in {"login", "reset", "change"} => user.role # "none",
           request.op \in {"login", "sign_in"} =>
             /\ request.who.last = user.last /\ request.who.pw = user.pw
             /\ request.who.legacy => user.legacy
    PROVE  ReadsTold'
<1>1. user.last \in Nat
  BY DEF CodeInv, TypeOK, User
<1> QED BY <1>1, Begun DEF CodeInv, ReadsTold, Account

LEMMA TurnBegins ==
    ASSUME CodeInv, InTurn, NEW r \in Requests, NEW request, Begin(r, request),
           UNCHANGED <<overlap, user>>, request.op = "login" => request.who = user
    PROVE  InTurn'
BY Begun DEF CodeInv, InTurn, Alone

LEMMA TurnEnds ==
    ASSUME CodeInv, InTurn, NEW r \in Requests, req[r].op # "idle", Finish(r),
           overlap' = overlap, ~overlap => user'.pw = user'.last
    PROVE  InTurn'
<1>1. \A q \in Requests : req'[q].op # "idle" => q # r /\ req'[q] = req[q]
  BY Finished DEF CodeInv
<1>2. ~overlap => \A q \in Requests : req'[q].op = "idle"
  BY <1>1 DEF InTurn, Alone
<1> QED BY <1>2 DEF InTurn, Alone

\* Sessions that are only closed stay in order.
LEMMA ClosedKept ==
    ASSUME CodeInv, Devices, NEW set, Revoke(set), user' = user
    PROVE  Devices'
BY RevokeKeeps DEF CodeInv, Devices, Revoked

\* A login may undo the newest password, and never restores it.
LEMMA LogInUndoes ==
    ASSUME CodeInv, Account, ReadsTold, NEW r \in Requests, LogIn(r)
    PROVE  /\ req[r].op = "login" /\ user.role # "none"
           /\ user'.pw = user'.last => user.pw = user.last
           /\ Account'
<1>1. /\ req[r].op = "login" /\ user.role # "none"
      /\ req[r].who.last <= user.last
      /\ req[r].who.legacy => req[r].who.pw = 1 /\ req[r].who.last = 1
  BY DEF LogIn, ReadsTold
<1>2. user.last \in Nat
  BY DEF CodeInv, TypeOK, User
<1>3. /\ user'.role = user.role /\ user'.last = user.last
      /\ IF req[r].who.legacy THEN user'.pw = req[r].who.pw /\ user'.legacy = FALSE
         ELSE user'.pw = user.pw /\ user'.legacy = user.legacy
  BY LogInWrites
<1> QED BY <1>1, <1>2, <1>3 DEF Account

\* A session opened in a commit that leaves the password's number alone.
LEMMA OpenedTold ==
    ASSUME CodeInv, ReadsTold, Devices, NEW r \in Requests, Open(r),
           req[r].op \in {"login", "sign_in"}, user'.role # "none",
           user'.last = user.last, user'.pw = user'.last => user.pw = user.last
    PROVE  Devices'
<1> DEFINE n == Len(sessions) + 1
<1>1. /\ DOMAIN sessions' = DOMAIN sessions \cup {n}
      /\ \A s \in DOMAIN sessions : sessions'[s] = sessions[s]
      /\ sessions'[n].pw = req[r].who.pw
      /\ sessions'[n].late <=> req[r].who.last # user.last
  BY OpenAdds DEF CodeInv
<1>2. req[r].who.last = user.last /\ user.pw = user.last => req[r].who.pw = user.last
  BY DEF ReadsTold
<1> HIDE DEF n
<1>3. SUFFICES ASSUME user'.pw = user'.last, NEW s \in DOMAIN sessions', sessions'[s].open
               PROVE  sessions'[s].pw = user'.last \/ sessions'[s].late
  BY DEF Devices
<1>4. CASE s \in DOMAIN sessions
  BY <1>1, <1>3, <1>4 DEF Devices
<1>5. CASE s = n
  BY <1>1, <1>2, <1>3, <1>5
<1> QED BY <1>1, <1>3, <1>4, <1>5

LEMMA SignOutInit == Init => SignOutInv
<1> SUFFICES ASSUME Init PROVE SignOutInv
  OBVIOUS
<1>1. CodeInv
  BY CodeInit
<1>2. \A r \in Requests : req[r].op = "idle"
  BY DEF Init, Idle
<1>3. sessions = <<>>
  BY DEF Init
<1>4. Account /\ user.pw = user.last
  <2> DEFINE u == [NoUser EXCEPT !.role = "seller", !.pw = 1, !.last = 1, !.legacy = TRUE]
  <2>1. u.role = "seller" /\ u.pw = 1 /\ u.last = 1 /\ u.legacy = TRUE
    BY DEF NoUser
  <2>2. NoUser.pw = 0 /\ NoUser.last = 0 /\ NoUser.legacy = FALSE
    BY DEF NoUser
  <2>3. user = NoUser \/ user = u
    BY DEF Init
  <2> HIDE DEF u
  <2> QED BY <2>1, <2>2, <2>3 DEF Account
<1>5. ReadsTold /\ Devices /\ InTurn
  BY <1>2, <1>3, <1>4 DEF ReadsTold, Devices, InTurn, Alone
<1> QED BY <1>1, <1>4, <1>5 DEF SignOutInv

LEMMA SignOutStep == SignOutInv /\ [Next]_vars => SignOutInv'
<1> SUFFICES ASSUME SignOutInv, [Next]_vars
             PROVE  SignOutInv'
  OBVIOUS
<1> USE DEF SignOutInv
<1>0. CodeInv' /\ TypeOK /\ user.last \in Nat /\ user' \in User
  BY CodeStep DEF CodeInv, TypeOK, User
<1> DEFINE Done == Account' /\ ReadsTold' /\ Devices' /\ InTurn'
<1>1. ASSUME UNCHANGED <<overlap, user, sessions>>
      PROVE  Account' /\ Devices'
  BY <1>1 DEF Account, Devices
<1>2. ASSUME NEW r \in Requests, NEW p \in Purposes, AskCode(r, p)
      PROVE  Done
  <2> DEFINE q == [Idle EXCEPT !.op = "ask", !.purpose = p, !.now = clock, !.code = quota + 1]
  <2>1. Begin(r, q) /\ UNCHANGED <<overlap, user, sessions>>
    BY <1>2 DEF AskCode
  <2>2. q.op = "ask"
    BY DEF Idle
  <2> HIDE DEF q
  <2>3. ReadsTold' /\ InTurn'
    BY <2>1, <2>2, BegunTold, TurnBegins
  <2> QED BY <1>1, <2>1, <2>3
<1>3. ASSUME NEW r \in Requests, Reads(r)
      PROVE  Done
  <2>1. UNCHANGED <<overlap, user, sessions>>
    BY <1>3, ReadsBegin
  <2>2. PICK request \in Request :
           /\ Begin(r, request)
           /\ request.op \in {"login", "change"} => user.pw # 0
           /\ request.op = "login" => request.who = user
           /\ request.op = "sign_in" => request.who = Password
           /\ request.op = "reset" => user.role # "none"
    BY <1>3, ReadsBegin
  <2>3. user.pw # 0 => user.role # "none"
    BY DEF Account
  <2>4. Password.last = user.last /\ Password.pw = user.pw /\ Password.legacy = FALSE
    BY <1>0, WhoTypes
  <2>5. ReadsTold' /\ InTurn'
    BY <2>1, <2>2, <2>3, <2>4, BegunTold, TurnBegins
  <2> QED BY <1>1, <2>1, <2>5
<1>4. ASSUME NEW r \in Requests, IssueCode(r) \/ CountTry(r)
      PROVE  Done
  <2>1. /\ Finish(r) /\ req[r].op \in {"ask", "wrong_code"}
        /\ UNCHANGED <<overlap, user, sessions>>
    BY <1>4 DEF IssueCode, CountTry
  <2>2. ReadsTold'
    BY <2>1, <1>0, Finished, ToldKept
  <2>3. InTurn'
    BY <2>1, TurnEnds DEF InTurn
  <2> QED BY <1>1, <2>1, <2>2, <2>3
<1>5. ASSUME NEW r \in Requests, SignInByCode(r)
      PROVE  Done
  <2>1. Finish(r) /\ req[r].op = "sign_in" /\ overlap' = overlap
    BY <1>5 DEF SignInByCode
  <2>2. \/ UNCHANGED <<user, sessions>>
        \/ /\ Open(r) /\ user'.role # "none"
           /\ \/ user' = user
              \/ user.role = "none" /\ user' = [NoUser EXCEPT !.role = "buyer"]
    BY <1>5, SignInWrites
  <2>3. LET u == [NoUser EXCEPT !.role = "buyer"]
        IN  u.role = "buyer" /\ u.pw = 0 /\ u.last = 0 /\ u.legacy = FALSE
    BY DEF NoUser
  <2>4. /\ user.role # "none" => user'.role # "none"
        /\ user'.last = user.last /\ user'.pw = user.pw
        /\ user'.legacy => user.legacy
    BY <2>2, <2>3 DEF Account
  <2>5. Account'
    BY <2>2, <2>4 DEF Account
  <2>6. ReadsTold'
    BY <1>0, <2>1, <2>4, Finished, ToldKept
  <2>7. Devices'
    <3>1. CASE UNCHANGED <<user, sessions>>
      BY <3>1 DEF Devices
    <3>2. CASE Open(r) /\ user'.role # "none"
      BY <3>2, <2>1, <2>4, OpenedTold
    <3> QED BY <2>2, <3>1, <3>2
  <2>8. InTurn'
    BY <2>1, <2>4, TurnEnds DEF InTurn
  <2> QED BY <2>5, <2>6, <2>7, <2>8
<1>6. ASSUME NEW r \in Requests, ResetPassword(r) \/ ChangePassword(r)
      PROVE  Done
  <2>1. Finish(r) /\ req[r].op \in {"reset", "change"} /\ overlap' = overlap
    BY <1>6 DEF ResetPassword, ChangePassword
  <2>2. user.role # "none"
    BY <2>1 DEF ReadsTold
  <2>3. /\ user'.legacy = FALSE /\ user'.pw = user'.last
        /\ user'.last = user.last + 1 /\ user'.role = user.role
    BY <1>6, <2>2, NewPassword
  <2>4. Account'
    BY <2>2, <2>3 DEF Account
  <2>5. user.last + 1 # user.last /\ user.last <= user.last + 1
    BY <1>0
  <2>6. ReadsTold'
    BY <1>0, <2>1, <2>2, <2>3, <2>5, Finished, ToldKept
  <2>7. \A s \in DOMAIN sessions' : sessions'[s].open => sessions'[s].pw = user.last + 1
    <3>1. CASE ResetPassword(r)
      <4>1. Revoke(DOMAIN sessions)
        BY <3>1 DEF ResetPassword
      <4> QED BY <1>0, <4>1, RevokeKeeps DEF Revoked
    <3>2. CASE ChangePassword(r)
      BY <3>2, ChangeWrites
    <3> QED BY <1>6, <3>1, <3>2
  <2>8. Devices'
    BY <2>2, <2>3, <2>7 DEF Devices
  <2>9. InTurn'
    BY <2>1, <2>3, TurnEnds
  <2> QED BY <2>4, <2>6, <2>8, <2>9
<1>7. ASSUME NEW r \in Requests, CountFailure(r)
      PROVE  Done
  <2>1. /\ Finish(r) /\ req[r].op = "wrong_password"
        /\ UNCHANGED <<overlap, sessions>>
    BY <1>7 DEF CountFailure
  <2>2. /\ user'.role = user.role /\ user'.pw = user.pw
        /\ user'.last = user.last /\ user'.legacy = user.legacy
    BY <1>7, FailureWrites
  <2>3. Account' /\ Devices'
    BY <2>1, <2>2 DEF Account, Devices
  <2>4. ReadsTold'
    BY <1>0, <2>1, <2>2, Finished, ToldKept
  <2>5. InTurn'
    BY <2>1, <2>2, TurnEnds DEF InTurn
  <2> QED BY <2>3, <2>4, <2>5
<1>8. ASSUME NEW r \in Requests, LogIn(r)
      PROVE  Done
  <2>1. Finish(r) /\ Open(r) /\ overlap' = overlap
    BY <1>8 DEF LogIn
  <2>2. /\ req[r].op = "login" /\ user.role # "none"
        /\ user'.pw = user'.last => user.pw = user.last
        /\ Account'
    BY <1>8, LogInUndoes
  <2>3. /\ user'.role = user.role /\ user'.last = user.last
        /\ user'.pw = user.pw \/ user'.pw = req[r].who.pw
    BY <1>8, LogInWrites
  <2>4. ReadsTold'
    BY <1>0, <2>1, <2>2, <2>3, Finished, ToldKept
  <2>5. Devices'
    BY <2>1, <2>2, <2>3, OpenedTold
  <2>6. InTurn'
    <3>1. ~overlap => user'.pw = user'.last
      BY <2>2, <2>3 DEF InTurn
    <3> QED BY <2>1, <2>2, <3>1, TurnEnds
  <2> QED BY <2>2, <2>4, <2>5, <2>6
<1>9. ASSUME NEW r \in Requests, RevokeOthers(r) \/ RevokeOne(r)
      PROVE  Done
  <2>1. /\ Finish(r) /\ req[r].op \in {"revoke_others", "revoke"}
        /\ UNCHANGED <<overlap, user>>
        /\ \E set : Revoke(set)
    BY <1>9 DEF RevokeOthers, RevokeOne
  <2>2. Devices'
    BY <2>1, ClosedKept
  <2>3. Account'
    BY <2>1 DEF Account
  <2>4. ReadsTold'
    BY <2>1, <1>0, Finished, ToldKept
  <2>5. InTurn'
    BY <2>1, TurnEnds DEF InTurn
  <2> QED BY <2>2, <2>3, <2>4, <2>5
<1>10. ASSUME UNCHANGED <<overlap, user, req>>
       PROVE  Account' /\ ReadsTold' /\ InTurn'
  <2>1. Account'
    BY <1>10 DEF Account
  <2>2. ReadsTold'
    BY <1>10 DEF ReadsTold
  <2>3. InTurn'
    BY <1>10 DEF InTurn, Alone
  <2> QED BY <2>1, <2>2, <2>3
<1>11. ASSUME \E role \in {"buyer", "seller"} : Register(role)
       PROVE  Done
  <2>1. /\ UNCHANGED <<overlap, sessions, req>> /\ user.role = "none"
        /\ ~overlap => \A q \in Requests : req[q].op = "idle"
    BY <1>11 DEF Register, Free
  <2>2. /\ user'.legacy = FALSE /\ user'.pw = user'.last
        /\ user'.last = user.last + 1 /\ user'.role # "none"
    <3>1. /\ user'.legacy = FALSE /\ user'.pw = user'.last
          /\ user'.last = 1 /\ user'.role # "none"
      BY <1>11, Registered
    <3>2. user.last = 0
      BY <2>1 DEF Account
    <3>3. user'.last = user.last + 1
      BY <3>1, <3>2
    <3> QED BY <3>1, <3>3
  <2>3. user.last + 1 # user.last /\ user.last <= user.last + 1
    BY <1>0
  <2>4. Account'
    BY <2>2 DEF Account
  <2>5. ReadsTold'
    BY <1>0, <2>1, <2>2, <2>3, ToldKept
  <2>6. Devices'
    BY <2>1, <2>2 DEF Devices
  <2>7. InTurn'
    <3>1. ~overlap => \A q \in Requests : req'[q].op = "idle"
      BY <2>1
    <3> QED BY <3>1, <2>1, <2>2 DEF InTurn, Alone
  <2> QED BY <2>4, <2>5, <2>6, <2>7
<1>12. ASSUME \E s \in DOMAIN sessions : Expire(s)
       PROVE  Done
  <2>1. UNCHANGED <<overlap, user, req>> /\ \E set : Revoke(set)
    BY <1>12 DEF Expire
  <2>2. Devices'
    BY <2>1, ClosedKept
  <2> QED BY <1>10, <2>1, <2>2
<1>13. ASSUME Tick \/ UNCHANGED vars
       PROVE  Done
  <2>1. UNCHANGED <<overlap, user, sessions, req>>
    BY <1>13 DEF Tick, vars
  <2>2. Devices'
    BY <2>1 DEF Devices
  <2> QED BY <1>10, <2>1, <2>2
<1> QED BY <1>0, <1>2, <1>3, <1>4, <1>5, <1>6, <1>7, <1>8, <1>9, <1>11, <1>12, <1>13
        DEF Next, Reads

\* However requests overlap, a new password leaves no other device signed in,
\* but for sessions being opened while it was set; and where requests take
\* turns, nothing undoes a new password (_revoke, create_session,
\* authenticate_and_create_session).
THEOREM SignOutCorrect == Spec => []NewPasswordSignsOut
<1>1. SignOutInv => NewPasswordSignsOut
  BY DEF SignOutInv, CodeInv, TypeOK, Devices, InTurn, NewPasswordSignsOut
<1> QED BY <1>1, SignOutInit, SignOutStep, PTL DEF Spec

-----------------------------------------------------------------------------
(***************************************************************************)
(* Codes, where requests take turns.                                       *)
(***************************************************************************)
LEMMA CodeChanges ==
    ASSUME NEW c \in Code
    PROVE  /\ Used(c).used /\ Used(c).at = c.at /\ Used(c).tries = c.tries
           /\ Used(c).wrong = c.wrong /\ Used(c).wins = c.wins /\ Used(c).until = c.until
           /\ Won(c).used /\ Won(c).at = c.at /\ Won(c).tries = c.tries
           /\ Won(c).wrong = c.wrong /\ Won(c).wins = c.wins + 1 /\ Won(c).until = c.until
BY DEF Code, Used, Won

LEMMA TriedIs ==
    ASSUME NEW c \in Code, NEW n \in Nat, NEW now \in Nat
    PROVE  /\ Tried(c, n, now).tries = n /\ Tried(c, n, now).wrong = c.wrong + 1
           /\ Tried(c, n, now).at = c.at /\ Tried(c, n, now).wins = c.wins
           /\ Tried(c, n, now).used <=> c.used \/ n >= CodeTries
           /\ Tried(c, n, now).until = IF n >= CodeTries THEN now + CodeLockout ELSE c.until
<1> DEFINE last == n >= CodeTries
           b == c.used \/ last
           u == IF last THEN now + CodeLockout ELSE c.until
           w == c.wrong + 1
           t == [c EXCEPT !.tries = n, !.wrong = w, !.used = b, !.until = u]
<1>1. Tried(c, n, now) = t
  BY DEF Tried
<1>2. b \in BOOLEAN
  BY DEF Code
<1> HIDE DEF b, u, w
<1>3. /\ t.tries = n /\ t.wrong = w /\ t.at = c.at /\ t.wins = c.wins
      /\ t.used = b /\ t.until = u
  BY <1>2 DEF Code
<1> HIDE DEF t
<1>4. t.used <=> c.used \/ n >= CodeTries
  BY <1>3 DEF b
<1> QED BY <1>1, <1>3, <1>4 DEF u, w

LEMMA CodesAre ==
    ASSUME CodeInv
    PROVE  /\ \A i \in DOMAIN codes : codes[i] \in Code /\ i \in Nat
           /\ \A i \in DOMAIN codes : {codes[i].at, codes[i].tries, codes[i].until,
                                       codes[i].wrong, codes[i].wins} \subseteq Nat
           /\ quota \in Nat /\ clock \in Nat
           /\ \A r \in Requests : req[r].now \in Nat /\ req[r].tries \in Nat
           /\ {CodeTries, CodeLockout} \subseteq Nat \ {0}
<1>1. codes \in [1..ClientLimit -> Code] /\ DOMAIN codes = 1..ClientLimit
  BY DEF CodeInv, TypeOK
<1>2. ClientLimit \in Nat /\ {CodeTries, CodeLockout} \subseteq Nat \ {0}
  BY AccountAssumption
<1>3. quota \in Nat /\ clock \in Nat
  BY <1>2 DEF CodeInv, TypeOK
<1>4. \A r \in Requests : req[r].now \in Nat /\ req[r].tries \in Nat
  BY DEF CodeInv, TypeOK, Request
<1>5. \A i \in DOMAIN codes : {codes[i].at, codes[i].tries, codes[i].until,
                               codes[i].wrong, codes[i].wins} \subseteq Nat
  BY <1>1 DEF Code
<1> QED BY <1>1, <1>2, <1>3, <1>4, <1>5

\* A request that reads keeps the codes, and what it read is so.
LEMMA BegunFresh ==
    ASSUME CodeInv, Alone, Tallied, Replaced, CodesFresh, ~overlap,
           NEW r \in Requests, NEW request \in Request, Begin(r, request),
           UNCHANGED <<clock, codes>>, quota <= quota', request.now <= clock,
           request.op = "ask" =>
             /\ request.code = quota' /\ quota' > 0 /\ codes[quota'].purpose = "none"
             /\ \A i \in Issued(request.purpose) : codes[i].until <= request.now,
           request.op \in {"wrong_code", "sign_in", "reset"} =>
             /\ request.code \in Issued(request.purpose)
             /\ \A j \in Issued(request.purpose) : j <= request.code
             /\ ~codes[request.code].used
             /\ request.tries = codes[request.code].tries
             /\ codes[request.code].at <= request.now,
           quota' \in Nat
    PROVE  Alone' /\ Tallied' /\ Replaced' /\ CodesFresh'
<1>1. \A p : Issued(p)' = Issued(p)
  BY DEF Issued
<1>2. /\ \A q \in Requests : req'[q] = IF q = r THEN request ELSE req[q]
      /\ \A q \in Requests : req[q].op = "idle"
  BY Begun DEF CodeInv
<1>3. Alone'
  BY <1>2 DEF Alone
<1>4. Tallied'
  <2>1. \A i \in DOMAIN codes : i <= quota => i <= quota'
    BY CodesAre
  <2> QED BY <2>1 DEF Tallied
<1>5. Replaced'
  BY <1>1 DEF Replaced
<1>6. CodesFresh'
  BY <1>1, <1>2 DEF CodesFresh
<1> QED BY <1>3, <1>4, <1>5, <1>6

\* After a request that took its turn is through, none is under way.
LEMMA TurnOver ==
    ASSUME CodeInv, Alone, CodesFresh, NEW r \in Requests, req[r].op # "idle", Finish(r),
           clock' = clock
    PROVE  Alone' /\ CodesFresh'
<1>1. \A q \in Requests : req'[q] = IF q = r THEN Idle ELSE req[q]
  BY DEF Finish, CodeInv, TypeOK
<1>2. \A q \in Requests : req'[q].op = "idle"
  BY <1>1 DEF Alone, Idle
<1>3. \A q \in Requests : req'[q].now <= clock'
  <2>1. Idle.now = 0 /\ 0 <= clock
    BY CodesAre DEF Idle
  <2> QED BY <1>1, <2>1 DEF CodesFresh
<1> QED BY <1>2, <1>3 DEF Alone, CodesFresh

\* Codes that were not touched stay in order.
LEMMA CodesKept ==
    ASSUME Tallied, Replaced, UNCHANGED <<codes, quota>>, clock' = clock
    PROVE  Tallied' /\ Replaced'
<1>1. \A p : Issued(p)' = Issued(p)
  BY DEF Issued
<1> QED BY <1>1 DEF Tallied, Replaced

\* The code a request read is the newest of its purpose, and has tries left.
LEMMA CodeRead ==
    ASSUME CodeInv, Tallied, CodesFresh, NEW r \in Requests,
           req[r].op \in {"wrong_code", "sign_in", "reset"}
    PROVE  LET c == req[r].code
           IN  /\ c \in DOMAIN codes /\ c \in Nat /\ codes[c] \in Code
               /\ codes[c].purpose = req[r].purpose
               /\ \A j \in DOMAIN codes : codes[j].purpose = codes[c].purpose => j <= c
               /\ ~codes[c].used /\ codes[c].wins = 0 /\ codes[c].wrong < CodeTries
               /\ codes[c].tries = codes[c].wrong /\ req[r].tries = codes[c].wrong
               /\ codes[c].at <= req[r].now
<1>1. req[r].code \in Issued(req[r].purpose)
  BY DEF CodesFresh
<1>2. req[r].code \in DOMAIN codes
  BY <1>1 DEF Issued
<1> QED BY <1>1, <1>2, CodesAre DEF CodesFresh, Tallied, Issued

\* Changing the newest code of a purpose, and not when it was asked for, leaves
\* the order of the codes.
LEMMA ReplacedKept ==
    ASSUME CodeInv, Replaced, NEW c \in DOMAIN codes,
           \A j \in DOMAIN codes : codes[j].purpose = codes[c].purpose => j <= c,
           DOMAIN codes' = DOMAIN codes,
           \A j \in DOMAIN codes : codes'[j].purpose = codes[j].purpose,
           \A j \in DOMAIN codes : j # c => codes'[j] = codes[j],
           codes'[c].at = codes[c].at
    PROVE  Replaced'
<1>1. \A p : Issued(p)' = Issued(p)
  BY PurposesKept DEF CodeInv
<1>2. SUFFICES ASSUME NEW p \in Purposes, NEW i \in Issued(p), NEW j \in Issued(p), i < j
               PROVE  codes'[i].used /\ codes'[j].at >= codes'[i].until
  BY <1>1 DEF Replaced
<1>3. /\ i \in DOMAIN codes /\ j \in DOMAIN codes
      /\ codes[i].purpose = codes[j].purpose
      /\ codes[i].used /\ codes[j].at >= codes[i].until
  BY <1>2 DEF Replaced, Issued
<1>4. i # c
  BY <1>2, <1>3, CodesAre
<1> QED BY <1>3, <1>4

LEMMA WinTally ==
    ASSUME CodeInv, Tallied, Replaced, CodesFresh, NEW r \in Requests,
           req[r].op \in {"sign_in", "reset"}, Win(req[r].code), UNCHANGED <<clock, quota>>
    PROVE  Tallied' /\ Replaced'
<1> DEFINE c == req[r].code
<1>1. /\ c \in DOMAIN codes /\ codes[c] \in Code
      /\ \A j \in DOMAIN codes : codes[j].purpose = codes[c].purpose => j <= c
      /\ codes[c].wins = 0 /\ codes[c].wrong < CodeTries
      /\ codes[c].tries = codes[c].wrong /\ codes[c].purpose # "none"
  <2>1. req[r].purpose # "none"
    BY DEF CodeInv, TypeOK, Request, Purposes
  <2> QED BY <2>1, CodeRead
<1>2. /\ DOMAIN codes' = DOMAIN codes
      /\ \A j \in DOMAIN codes : codes'[j].purpose = codes[j].purpose
      /\ \A j \in DOMAIN codes : codes'[j] = IF j = c THEN Won(codes[j]) ELSE codes[j]
  BY WinKeeps DEF CodeInv
<1> HIDE DEF c
<1>3. /\ codes'[c].used /\ codes'[c].at = codes[c].at /\ codes'[c].tries = codes[c].tries
      /\ codes'[c].wrong = codes[c].wrong /\ codes'[c].wins = codes[c].wins + 1
      /\ codes'[c].until = codes[c].until
  BY <1>1, <1>2, CodeChanges
<1>4. Replaced'
  BY <1>1, <1>2, <1>3, ReplacedKept
<1>5. Tallied'
  <2> SUFFICES ASSUME NEW i \in DOMAIN codes
               PROVE  /\ codes'[i].at <= clock
                      /\ codes'[i].purpose = "none" => codes'[i] = NoCode
                      /\ codes'[i].purpose # "none" => i <= quota
                      /\ codes'[i].tries = codes'[i].wrong /\ codes'[i].wrong <= CodeTries
                      /\ codes'[i].wins <= 1
                      /\ ~codes'[i].used => codes'[i].wins = 0 /\ codes'[i].wrong < CodeTries
                      /\ codes'[i].wrong = CodeTries =>
                           codes'[i].wins = 0 /\ codes'[i].until >= codes'[i].at + CodeLockout
    BY <1>2 DEF Tallied
  <2>1. CASE i = c
    <3>1. codes'[c].purpose = codes[c].purpose
      BY <1>1, <1>2
    <3> QED BY <2>1, <3>1, <1>1, <1>3, CodesAre DEF Tallied
  <2>2. CASE i # c
    BY <2>2, <1>2 DEF Tallied
  <2> QED BY <2>1, <2>2
<1> QED BY <1>4, <1>5

LEMMA TryTally ==
    ASSUME CodeInv, Tallied, Replaced, CodesFresh, NEW r \in Requests, CountTry(r)
    PROVE  Tallied' /\ Replaced'
<1> DEFINE c == req[r].code
<1>1. /\ c \in DOMAIN codes /\ codes[c] \in Code
      /\ \A j \in DOMAIN codes : codes[j].purpose = codes[c].purpose => j <= c
      /\ ~codes[c].used /\ codes[c].wins = 0 /\ codes[c].wrong < CodeTries
      /\ codes[c].tries = codes[c].wrong /\ codes[c].purpose # "none"
      /\ req[r].tries = codes[c].wrong /\ codes[c].at <= req[r].now
  <2>1. req[r].purpose # "none" /\ req[r].op = "wrong_code"
    BY DEF CodeInv, TypeOK, Request, Purposes, CountTry
  <2> QED BY <2>1, CodeRead
<1>2. /\ DOMAIN codes' = DOMAIN codes
      /\ \A j \in DOMAIN codes : codes'[j].purpose = codes[j].purpose
      /\ \A j \in DOMAIN codes :
           codes'[j] = IF j = c THEN Tried(codes[j], req[r].tries + 1, req[r].now)
                       ELSE codes[j]
  BY TryKeeps DEF CodeInv
<1>3. UNCHANGED <<clock, quota>>
  BY DEF CountTry
<1> HIDE DEF c
<1> DEFINE n == req[r].tries + 1
<1>4. n \in Nat /\ req[r].now \in Nat /\ n = codes[c].wrong + 1
  BY <1>1, CodesAre
<1>5. /\ codes'[c].tries = n /\ codes'[c].wrong = n
      /\ codes'[c].at = codes[c].at /\ codes'[c].wins = 0
      /\ codes'[c].used <=> n >= CodeTries
      /\ codes'[c].until = IF n >= CodeTries THEN req[r].now + CodeLockout
                           ELSE codes[c].until
  <2> HIDE DEF n
  <2>1. codes'[c] = Tried(codes[c], n, req[r].now)
    BY <1>1, <1>2 DEF n
  <2> QED BY <2>1, <1>1, <1>4, TriedIs
<1> HIDE DEF n
<1>6. Replaced'
  BY <1>1, <1>2, <1>5, ReplacedKept
<1>7. Tallied'
  <2> SUFFICES ASSUME NEW i \in DOMAIN codes
               PROVE  /\ codes'[i].at <= clock
                      /\ codes'[i].purpose = "none" => codes'[i] = NoCode
                      /\ codes'[i].purpose # "none" => i <= quota
                      /\ codes'[i].tries = codes'[i].wrong /\ codes'[i].wrong <= CodeTries
                      /\ codes'[i].wins <= 1
                      /\ ~codes'[i].used => codes'[i].wins = 0 /\ codes'[i].wrong < CodeTries
                      /\ codes'[i].wrong = CodeTries =>
                           codes'[i].wins = 0 /\ codes'[i].until >= codes'[i].at + CodeLockout
    BY <1>2, <1>3 DEF Tallied
  <2>1. CASE i = c
    <3>1. codes'[c].purpose = codes[c].purpose
      BY <1>1, <1>2
    <3> QED BY <2>1, <3>1, <1>1, <1>4, <1>5, CodesAre DEF Tallied
  <2>2. CASE i # c
    BY <2>2, <1>2 DEF Tallied
  <2> QED BY <2>1, <2>2
<1> QED BY <1>6, <1>7

LEMMA IssueTally ==
    ASSUME CodeInv, Tallied, Replaced, CodesFresh, NEW r \in Requests, IssueCode(r)
    PROVE  Tallied' /\ Replaced'
<1> DEFINE c == req[r].code
           p == req[r].purpose
<1>1. /\ c = quota /\ req[r].now <= clock /\ codes[c].purpose = "none"
      /\ \A i \in Issued(p) : codes[i].until <= req[r].now
      /\ UNCHANGED <<clock, quota>>
  BY DEF IssueCode, CodesFresh
<1>2. /\ DOMAIN codes' = DOMAIN codes /\ c \in DOMAIN codes /\ p \in Purposes
      /\ codes'[c] = [NoCode EXCEPT !.purpose = p, !.at = req[r].now]
      /\ \A i \in DOMAIN codes : i # c =>
           codes'[i] = IF i \in Issued(p) THEN Used(codes[i]) ELSE codes[i]
      /\ \A s \in Purposes : Issued(s)' = IF s = p THEN Issued(s) \cup {c} ELSE Issued(s)
  BY Issuing
<1> HIDE DEF c, p
<1>3. /\ codes'[c].purpose = p /\ codes'[c].at = req[r].now /\ codes'[c].tries = 0
      /\ codes'[c].wrong = 0 /\ codes'[c].wins = 0 /\ codes'[c].until = 0
  BY <1>2 DEF NoCode
<1>4. \A i \in DOMAIN codes : i # c =>
         /\ codes'[i].purpose = codes[i].purpose
         /\ codes'[i].at = codes[i].at /\ codes'[i].tries = codes[i].tries
         /\ codes'[i].wrong = codes[i].wrong /\ codes'[i].wins = codes[i].wins
         /\ codes'[i].until = codes[i].until
         /\ codes[i].used => codes'[i].used
         /\ codes[i].purpose = "none" => codes'[i] = codes[i]
         /\ i \in Issued(p) => codes'[i].used
  <2> SUFFICES ASSUME NEW i \in DOMAIN codes, i # c
               PROVE  /\ codes'[i].purpose = codes[i].purpose
                      /\ codes'[i].at = codes[i].at /\ codes'[i].tries = codes[i].tries
                      /\ codes'[i].wrong = codes[i].wrong /\ codes'[i].wins = codes[i].wins
                      /\ codes'[i].until = codes[i].until
                      /\ codes[i].used => codes'[i].used
                      /\ codes[i].purpose = "none" => codes'[i] = codes[i]
                      /\ i \in Issued(p) => codes'[i].used
    OBVIOUS
  <2>1. CASE i \in Issued(p)
    <3>1. codes[i].purpose # "none"
      BY <2>1, <1>2 DEF Issued, Purposes
    <3>2. codes[i] \in Code /\ codes'[i] = Used(codes[i])
      BY <2>1, <1>2, CodesAre
    <3> QED BY <3>1, <3>2, CodeChanges, RecordTypes
  <2>2. CASE i \notin Issued(p)
    BY <2>2, <1>2
  <2> QED BY <2>1, <2>2
<1>5. Tallied'
  <2> SUFFICES ASSUME NEW i \in DOMAIN codes
               PROVE  /\ codes'[i].at <= clock
                      /\ codes'[i].purpose = "none" => codes'[i] = NoCode
                      /\ codes'[i].purpose # "none" => i <= quota
                      /\ codes'[i].tries = codes'[i].wrong /\ codes'[i].wrong <= CodeTries
                      /\ codes'[i].wins <= 1
                      /\ ~codes'[i].used => codes'[i].wins = 0 /\ codes'[i].wrong < CodeTries
                      /\ codes'[i].wrong = CodeTries =>
                           codes'[i].wins = 0 /\ codes'[i].until >= codes'[i].at + CodeLockout
    BY <1>1, <1>2 DEF Tallied
  <2>1. CASE i = c
    <3>1. p # "none"
      BY <1>2 DEF Purposes
    <3> QED BY <2>1, <3>1, <1>1, <1>3, CodesAre
  <2>2. CASE i # c
    BY <2>2, <1>4 DEF Tallied
  <2> QED BY <2>1, <2>2
<1>6. Replaced'
  <2> SUFFICES ASSUME NEW s \in Purposes, NEW i \in Issued(s)', NEW j \in Issued(s)', i < j
               PROVE  codes'[i].used /\ codes'[j].at >= codes'[i].until
    BY DEF Replaced
  <2>1. i \in DOMAIN codes /\ j \in DOMAIN codes
    BY <1>2 DEF Issued
  <2>2. \A k \in Issued(s) : k <= quota
    BY DEF Tallied, Issued, Purposes
  <2>3. i # c /\ i \in Issued(s)
    <3>1. i # c
      <4> SUFFICES ASSUME i = c PROVE FALSE
        OBVIOUS
      <4>1. j # c
        BY <2>1, CodesAre
      <4>2. j \in Issued(s)
        BY <4>1, <1>2
      <4> QED BY <4>2, <2>1, <2>2, <1>1, CodesAre
    <3> QED BY <3>1, <1>2
  <2>4. CASE j = c
    <3>1. i \in Issued(p)
      <4>1. c \notin Issued(s)
        BY <1>1 DEF Issued, Purposes
      <4> QED BY <4>1, <2>3, <2>4, <1>2
    <3> QED BY <3>1, <2>1, <2>3, <2>4, <1>1, <1>3, <1>4
  <2>5. CASE j # c
    <3>1. j \in Issued(s)
      BY <2>5, <1>2
    <3>2. codes[i].used /\ codes[j].at >= codes[i].until
      BY <3>1, <2>3 DEF Replaced
    <3> QED BY <3>2, <2>1, <2>3, <2>5, <1>4
  <2> QED BY <2>4, <2>5
<1> QED BY <1>5, <1>6

\* No code of the purpose is locked when a new one may be asked for.
LEMMA AskFresh ==
    ASSUME CodeInv, Alone, Tallied, Replaced, CodesFresh, ~overlap,
           NEW r \in Requests, NEW p \in Purposes, AskCode(r, p)
    PROVE  Alone' /\ Tallied' /\ Replaced' /\ CodesFresh'
<1> DEFINE n == quota + 1
           q == [Idle EXCEPT !.op = "ask", !.purpose = p, !.now = clock, !.code = n]
<1>1. n \in 1..ClientLimit /\ n \in Nat /\ n > 0 /\ quota <= n /\ clock \in Nat
      /\ clock <= clock
  BY Dated, CodesAre DEF AskCode, MayAsk, CodeInv, TypeOK
<1>2. Begin(r, q) /\ quota' = n /\ UNCHANGED <<clock, codes>> /\ MayAsk(p)
  BY DEF AskCode
<1>3. codes[n].purpose = "none"
  <2>1. ~(n <= quota)
    BY CodesAre
  <2>2. n \in DOMAIN codes
    BY <1>1, Dated DEF CodeInv
  <2> QED BY <2>1, <2>2 DEF Tallied
<1>4. \A i \in Issued(p) : codes[i].until <= clock
  <2> SUFFICES ASSUME NEW i \in Issued(p) PROVE codes[i].until <= clock
    OBVIOUS
  <2>1. /\ Latest(p) \in Issued(p)
        /\ \A j \in Issued(p) : j <= Latest(p)
    BY NewestIn
  <2> DEFINE l == Latest(p)
  <2>2. l \in DOMAIN codes /\ i \in DOMAIN codes /\ l # 0
    BY <2>1, Dated DEF Issued, CodeInv
  <2>3. codes[l].until <= clock /\ codes[l].at <= clock
    BY <1>2, <2>2 DEF MayAsk, Tallied
  <2> HIDE DEF l
  <2>4. CASE i = l
    BY <2>3, <2>4
  <2>5. CASE i # l
    <3>1. i < l
      BY <2>1, <2>2, <2>5, CodesAre DEF l
    <3>2. codes[l].at >= codes[i].until
      BY <3>1, <2>1 DEF Replaced, l
    <3> QED BY <3>2, <2>2, <2>3, CodesAre
  <2> QED BY <2>4, <2>5
<1> HIDE DEF n
<1>5. q \in Request /\ q.op = "ask" /\ q.purpose = p /\ q.now = clock /\ q.code = n
  BY <1>1, RecordTypes DEF Request, Ops
<1> HIDE DEF q
<1> QED BY <1>1, <1>2, <1>3, <1>4, <1>5, BegunFresh

LEMMA TryInit == Init => TryInv
<1> SUFFICES ASSUME Init PROVE TryInv
  OBVIOUS
<1>1. CodeInv
  BY CodeInit
<1>2. \A r \in Requests : req[r] = Idle
  BY DEF Init
<1>3. \A i \in DOMAIN codes : codes[i] = NoCode
  BY DEF Init
<1>4. Alone /\ CodesFresh
  BY <1>1, <1>2, CodesAre DEF Alone, CodesFresh, Idle
<1>5. Tallied
  BY <1>1, <1>3, CodesAre DEF Tallied, NoCode
<1>6. Replaced
  BY <1>3 DEF Replaced, Issued, NoCode, Purposes
<1> QED BY <1>1, <1>4, <1>5, <1>6 DEF TryInv

LEMMA TryStep == TryInv /\ [Next]_vars => TryInv'
<1> SUFFICES ASSUME TryInv, [Next]_vars
             PROVE  TryInv'
  OBVIOUS
<1>1. CodeInv /\ CodeInv' /\ TypeOK
  BY CodeStep DEF TryInv, CodeInv
<1>2. overlap' = overlap
  BY DEF Next, AskCode, TryWrongCode, TryRightCode, IssueCode, CountTry, SignInByCode,
         ResetPassword, TurnAway, TryWrongPassword, TryRightPassword, Attempt, CountFailure,
         LogIn, AskChange, AskRevokeOthers, AskLogOut, AskRevoke, Authenticated,
         ChangePassword, RevokeOthers, RevokeOne, Register, Expire, Tick, vars
<1>3. SUFFICES ASSUME ~overlap
               PROVE  Alone' /\ Tallied' /\ Replaced' /\ CodesFresh'
  BY <1>1, <1>2 DEF TryInv
<1>4. Alone /\ Tallied /\ Replaced /\ CodesFresh
  BY <1>3 DEF TryInv
<1> DEFINE Done == Alone' /\ Tallied' /\ Replaced' /\ CodesFresh'
<1>5. ASSUME NEW r \in Requests, NEW p \in Purposes, AskCode(r, p)
      PROVE  Done
  BY <1>1, <1>3, <1>4, <1>5, AskFresh
<1>6. ASSUME NEW r \in Requests, Reads(r)
      PROVE  Done
  <2>1. UNCHANGED <<clock, codes, quota>>
    BY <1>1, <1>6, ReadsBegin
  <2>2. PICK request \in Request :
           /\ Begin(r, request) /\ request.now <= clock /\ request.op # "ask"
           /\ request.op \in {"wrong_code", "sign_in", "reset"} =>
                \E p \in Purposes :
                   /\ MayTry(p) /\ request.now = clock
                   /\ request.purpose = p /\ request.code = Latest(p)
                   /\ request.tries = codes[Latest(p)].tries
    BY <1>1, <1>6, ReadsBegin
  <2>3. ASSUME request.op \in {"wrong_code", "sign_in", "reset"}
        PROVE  /\ request.code \in Issued(request.purpose)
               /\ \A j \in Issued(request.purpose) : j <= request.code
               /\ ~codes[request.code].used
               /\ request.tries = codes[request.code].tries
               /\ codes[request.code].at <= request.now
    <3>1. PICK p \in Purposes :
             /\ MayTry(p) /\ request.now = clock
             /\ request.purpose = p /\ request.code = Latest(p)
             /\ request.tries = codes[Latest(p)].tries
      BY <2>2, <2>3
    <3>2. /\ Latest(p) \in Issued(p) /\ Latest(p) \in DOMAIN codes
          /\ \A j \in Issued(p) : j <= Latest(p)
          /\ ~codes[Latest(p)].used
      BY <1>1, <3>1, Triable
    <3>3. codes[Latest(p)].at <= clock
      BY <1>4, <3>2 DEF Tallied
    <3> QED BY <3>1, <3>2, <3>3
  <2>4. quota \in Nat /\ quota <= quota
    BY <1>1, CodesAre
  <2> QED BY <1>1, <1>3, <1>4, <2>1, <2>2, <2>3, <2>4, BegunFresh
<1>7. ASSUME NEW r \in Requests, IssueCode(r)
      PROVE  Done
  <2>1. Finish(r) /\ req[r].op # "idle" /\ clock' = clock
    BY <1>7 DEF IssueCode
  <2> QED BY <1>1, <1>4, <1>7, <2>1, IssueTally, TurnOver
<1>8. ASSUME NEW r \in Requests, CountTry(r)
      PROVE  Done
  <2>1. Finish(r) /\ req[r].op # "idle" /\ clock' = clock
    BY <1>8 DEF CountTry
  <2> QED BY <1>1, <1>4, <1>8, <2>1, TryTally, TurnOver
<1>9. ASSUME NEW r \in Requests, SignInByCode(r) \/ ResetPassword(r)
      PROVE  Done
  <2>1. /\ Finish(r) /\ req[r].op \in {"sign_in", "reset"} /\ UNCHANGED <<clock, quota>>
        /\ codes' = codes \/ Win(req[r].code)
    BY <1>9 DEF SignInByCode, ResetPassword
  <2>2. Tallied' /\ Replaced'
    BY <1>1, <1>4, <2>1, WinTally, CodesKept
  <2> QED BY <1>1, <1>4, <2>1, <2>2, TurnOver
<1>10. ASSUME NEW r \in Requests,
              \/ CountFailure(r) \/ LogIn(r) \/ ChangePassword(r)
              \/ RevokeOthers(r) \/ RevokeOne(r)
       PROVE  Done
  <2>1. Finish(r) /\ req[r].op # "idle" /\ UNCHANGED <<clock, quota, codes>>
    BY <1>10 DEF CountFailure, LogIn, ChangePassword, RevokeOthers, RevokeOne
  <2> QED BY <1>1, <1>4, <2>1, CodesKept, TurnOver
<1>11. ASSUME \/ \E role \in {"buyer", "seller"} : Register(role)
              \/ \E s \in DOMAIN sessions : Expire(s)
              \/ UNCHANGED vars
       PROVE  Done
  <2>1. UNCHANGED <<clock, quota, codes, req>>
    BY <1>11 DEF Register, Expire, vars
  <2>2. \A p : Issued(p)' = Issued(p)
    BY <2>1 DEF Issued
  <2> QED BY <1>4, <2>1, <2>2, CodesKept DEF Alone, CodesFresh
<1>12. ASSUME Tick
       PROVE  Done
  <2>1. UNCHANGED <<quota, codes, req>> /\ clock' \in Nat /\ clock <= clock'
    BY <1>1, <1>12, CodesAre DEF Tick
  <2>2. \A p : Issued(p)' = Issued(p)
    BY <2>1 DEF Issued
  <2>3. Alone' /\ Replaced'
    BY <1>4, <2>1, <2>2 DEF Alone, Replaced
  <2>4. \A n \in Nat : n <= clock => n <= clock'
    BY <1>1, <2>1, CodesAre
  <2>5. Tallied'
    BY <1>1, <1>4, <2>1, <2>4, CodesAre DEF Tallied
  <2>6. CodesFresh'
    BY <1>1, <1>4, <2>1, <2>2, <2>4, CodesAre DEF CodesFresh
  <2> QED BY <2>3, <2>5, <2>6
<1> QED BY <1>5, <1>6, <1>7, <1>8, <1>9, <1>10, <1>11, <1>12 DEF Next, Reads

\* Where requests take turns, a code takes no more wrong tries than the limit,
\* the last ends it, and no code of its purpose is sent before the lockout is
\* over (consume_phone_code, request_phone_code).
THEOREM TriesCorrect == Spec => []TriesLockPhone
<1>1. TryInv => TriesLockPhone
  <2> SUFFICES ASSUME TryInv, ~overlap, NEW i \in DOMAIN codes
               PROVE  /\ codes[i].wrong <= CodeTries
                      /\ codes[i].wrong = CodeTries =>
                           /\ codes[i].used /\ codes[i].wins = 0
                           /\ codes[i].until >= codes[i].at + CodeLockout
                      /\ \A j \in Issued(codes[i].purpose) :
                           j > i => codes[j].at >= codes[i].until
    BY DEF TriesLockPhone
  <2>1. CodeInv /\ Tallied /\ Replaced
    BY DEF TryInv
  <2>2. codes[i].wrong <= CodeTries /\ (~codes[i].used => codes[i].wrong < CodeTries)
    BY <2>1 DEF Tallied
  <2>3. codes[i].wrong = CodeTries =>
           codes[i].wins = 0 /\ codes[i].until >= codes[i].at + CodeLockout
    BY <2>1 DEF Tallied
  <2>4. codes[i].wrong = CodeTries => codes[i].used
    BY <2>1, <2>2, CodesAre
  <2>5. ASSUME NEW j \in Issued(codes[i].purpose), j > i
        PROVE  codes[j].at >= codes[i].until
    <3>1. j \in DOMAIN codes /\ codes[j].purpose = codes[i].purpose
      BY DEF Issued
    <3>2. CASE codes[i].purpose = "none"
      <4>1. codes[i] = NoCode /\ codes[j] = NoCode
        BY <2>1, <3>1, <3>2 DEF Tallied
      <4> QED BY <4>1 DEF NoCode
    <3>3. CASE codes[i].purpose # "none"
      <4>1. codes[i].purpose \in Purposes /\ i < j
        BY <2>1, <2>5, <3>1, <3>3, CodesAre DEF Code
      <4>2. i \in Issued(codes[i].purpose)
        BY DEF Issued
      <4> QED BY <2>1, <4>1, <4>2 DEF Replaced
    <3> QED BY <3>2, <3>3
  <2> QED BY <2>2, <2>3, <2>4, <2>5
<1> QED BY <1>1, TryInit, TryStep, PTL DEF Spec

\* Where requests take turns, a code lets in once, and only the newest code of
\* its purpose can still be used (consume_phone_code, request_phone_code).
THEOREM CodeCorrect == Spec => []CodeLetsInOnce
<1>1. TryInv => CodeLetsInOnce
  <2> SUFFICES ASSUME TryInv, ~overlap
               PROVE  /\ \A i \in DOMAIN codes : codes[i].wins <= 1
                      /\ \A p \in Purposes : \A i \in Issued(p) :
                           codes[i].used \/ i = Latest(p)
    BY DEF CodeLetsInOnce
  <2>1. CodeInv /\ Tallied /\ Replaced
    BY DEF TryInv
  <2>2. \A i \in DOMAIN codes : codes[i].wins <= 1
    BY <2>1 DEF Tallied
  <2>3. ASSUME NEW p \in Purposes, NEW i \in Issued(p)
        PROVE  codes[i].used \/ i = Latest(p)
    <3>1. Latest(p) \in Issued(p) /\ \A j \in Issued(p) : j <= Latest(p)
      BY <2>1, NewestIn
    <3>2. i \in Nat /\ Latest(p) \in Nat
      BY <2>1, <3>1, CodesAre DEF Issued
    <3>3. i = Latest(p) \/ i < Latest(p)
      BY <3>1, <3>2
    <3> QED BY <2>1, <3>1, <3>3 DEF Replaced
  <2> QED BY <2>2, <2>3
<1> QED BY <1>1, TryInit, TryStep, PTL DEF Spec
=============================================================================
