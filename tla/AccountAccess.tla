----------------------------- MODULE AccountAccess -----------------------------
(***************************************************************************)
(* How one phone number gets into its account: codes by SMS                *)
(* (src/app/services/phone_auth.py), passwords and sessions                *)
(* (src/app/services/auth.py) and the ways to sign devices out again       *)
(* (src/app/services/account_security.py).                                 *)
(*                                                                         *)
(* A request reads the rows it needs, decides, and writes the columns it   *)
(* changed in one commit; none of its reads locks a row.  The clock spans  *)
(* less than an hour, so every code counts towards the hourly limit, and   *)
(* a tick is longer than the window of the login limiter.                  *)
(***************************************************************************)
EXTENDS Naturals, Sequences, FiniteSetsExt

CONSTANTS
    Requests,      \* the requests the server handles at a time
    CodeTtl, CodeResend, CodeLockout, LoginLockout, SessionAge,  \* in ticks
    CodeTries,     \* phone_code_max_attempts
    HourlyLimit,   \* phone_code_hourly_limit
    ClientLimit,   \* CLIENT_HOURLY_LIMIT
    LoginTries,    \* login_lockout_max_attempts
    LoginRate,     \* login_rate_limit_max_attempts
    MaxTime, MaxSessions, MaxPasswords,  \* bounds
    Overlaps       \* may requests overlap? both may be asked for

ASSUME AccountAssumption ==
    /\ {CodeTtl, CodeResend, CodeLockout, LoginLockout, SessionAge} \subseteq Nat \ {0}
    /\ {CodeTries, HourlyLimit, ClientLimit, LoginTries, LoginRate} \subseteq Nat \ {0}
    /\ {MaxSessions, MaxPasswords} \subseteq Nat /\ MaxTime \in [BOOLEAN -> Nat]
    /\ Overlaps \subseteq BOOLEAN

VARIABLES
    overlap,   \* do requests overlap in this deployment?
    clock,     \* the time
    user,      \* the account of the phone
    codes,     \* its codes, numbered by when they were asked for
    sessions,  \* its sessions, in the order they were opened
    quota,     \* codes the client asked for, in memory
    rate,      \* login attempts of this tick, in memory
    req        \* what each request is doing

vars == <<overlap, clock, user, codes, sessions, quota, rate, req>>

-----------------------------------------------------------------------------
(***************************************************************************)
(* pw numbers the passwords in the order they were set, 0 being the random *)
(* one of an account opened by a code; until is locked_until, 0 when NULL. *)
(* History: last, the newest password; wrong and wins of a code; pw and    *)
(* late of a session.                                                      *)
(***************************************************************************)
Roles    == {"none", "buyer", "seller"}
Purposes == {"sign_in", "reset"}

User == [role: Roles, pw: Nat, legacy: BOOLEAN, failed: Nat, until: Nat,
         last: Nat]
NoUser == [role |-> "none", pw |-> 0, legacy |-> FALSE, failed |-> 0, until |-> 0,
           last |-> 0]

Code == [purpose: Purposes \cup {"none"}, at: Nat, tries: Nat, used: BOOLEAN, until: Nat,
         wrong: Nat, wins: Nat]
NoCode == [purpose |-> "none", at |-> 0, tries |-> 0, used |-> FALSE, until |-> 0,
           wrong |-> 0, wins |-> 0]

\* pw: the password of the account when the request that opened the session
\* read it; late: another one was set before it committed.
Session == [open: BOOLEAN, at: Nat, pw: Nat, late: BOOLEAN]

\* code, tries, who and session are what the request read.
Ops == {"idle", "ask", "wrong_code", "sign_in", "reset", "wrong_password", "login",
        "change", "revoke_others", "revoke"}
Request == [op: Ops, purpose: Purposes, now: Nat, code: Nat, tries: Nat, who: User, session: Nat]
Idle == [op |-> "idle", purpose |-> "sign_in", now |-> 0, code |-> 0, tries |-> 0,
         who |-> NoUser, session |-> 0]

TypeOK ==
    /\ overlap \in Overlaps
    /\ clock \in Nat
    /\ user \in User
    /\ codes \in [1..ClientLimit -> Code]
    /\ sessions \in Seq(Session)
    /\ quota \in 0..ClientLimit
    /\ rate \in 0..LoginRate
    /\ req \in [Requests -> Request]

\* The phone has no account yet, or one whose password is hashed the old way.
Init ==
    /\ overlap \in Overlaps
    /\ clock = 0
    /\ user \in {NoUser} \cup
         {[NoUser EXCEPT !.role = "seller", !.pw = 1, !.last = 1, !.legacy = TRUE]}
    /\ codes = [i \in 1..ClientLimit |-> NoCode]
    /\ sessions = <<>>
    /\ quota = 0 /\ rate = 0
    /\ req = [r \in Requests |-> Idle]

-----------------------------------------------------------------------------
Free == overlap \/ \A r \in Requests : req[r].op = "idle"

Begin(r, request) ==
    /\ req[r].op = "idle" /\ Free
    /\ req' = [req EXCEPT ![r] = request]

Finish(r) == req' = [req EXCEPT ![r] = Idle]

(***************************************************************************)
(* Codes: the newest of a purpose counts, by when it was asked for.        *)
(***************************************************************************)
Issued(p) == {i \in DOMAIN codes : codes[i].purpose = p}

Latest(p) == IF Issued(p) = {} THEN 0 ELSE Max(Issued(p))

MayAskWhileLocked(p) ==
    /\ \A i \in {Latest(p)} \ {0} : codes[i].used \/ codes[i].at + CodeResend <= clock
    /\ Cardinality(UNION {Issued(q) : q \in Purposes}) < HourlyLimit
    /\ quota < ClientLimit

\* No lockout, no code that was just sent, and neither limit is reached.
MayAsk(p) ==
    /\ \A i \in {Latest(p)} \ {0} :
         /\ codes[i].until <= clock
         /\ codes[i].used \/ codes[i].at + CodeResend <= clock
    /\ Cardinality(UNION {Issued(q) : q \in Purposes}) < HourlyLimit
    /\ quota < ClientLimit

\* The client's quota is counted before the code is made; only an account's
\* number is sent a code to reset its password.
AskCode(r, p) ==
    /\ p = "reset" => user.role # "none"
    /\ MayAsk(p)
    /\ Begin(r, [Idle EXCEPT !.op = "ask", !.purpose = p, !.now = clock, !.code = quota + 1])
    /\ quota' = quota + 1
    /\ UNCHANGED <<overlap, clock, user, codes, sessions, rate>>

Used(c) == [c EXCEPT !.used = TRUE]

\* The code replaces every open one of its purpose; the SMS follows the commit.
IssueCode(r) ==
    /\ req[r].op = "ask"
    /\ codes' = [i \in DOMAIN codes |->
                   IF i = req[r].code
                   THEN [NoCode EXCEPT !.purpose = req[r].purpose, !.at = req[r].now]
                   ELSE IF i \in Issued(req[r].purpose) THEN Used(codes[i]) ELSE codes[i]]
    /\ Finish(r)
    /\ UNCHANGED <<overlap, clock, user, sessions, quota, rate>>

\* What a request keeps of the account it read: the counters it may write,
\* and the password.
Counters == [NoUser EXCEPT !.failed = user.failed, !.until = user.until]
Password == [NoUser EXCEPT !.role = user.role, !.pw = user.pw, !.last = user.last]

MayTry(p) ==
    LET c == Latest(p)
    IN  c # 0 /\ codes[c].until <= clock /\ ~codes[c].used /\ clock < codes[c].at + CodeTtl

\* The code as the request read it.
Reading(op, p, who) ==
    [Idle EXCEPT !.op = op, !.purpose = p, !.now = clock, !.code = Latest(p),
                 !.tries = codes[Latest(p)].tries, !.who = who]

TryWrongCode(r, p) ==
    /\ MayTry(p)
    /\ Begin(r, Reading("wrong_code", p, NoUser))
    /\ UNCHANGED <<overlap, clock, user, codes, sessions, quota, rate>>

\* The last try ends the code and locks the phone.
Tried(c, tries, now) ==
    LET last == tries >= CodeTries
    IN  [c EXCEPT !.tries = tries, !.wrong = @ + 1, !.used = @ \/ last,
                  !.until = IF last THEN now + CodeLockout ELSE @]

CountTry(r) ==
    /\ req[r].op = "wrong_code"
    /\ codes' = [codes EXCEPT ![req[r].code] = Tried(@, req[r].tries + 1, req[r].now)]
    /\ Finish(r)
    /\ UNCHANGED <<overlap, clock, user, sessions, quota, rate>>

\* A seller's or admin's number, and a reset without an account, roll back.
TryRightCode(r, p) ==
    /\ MayTry(p)
    /\ user.role \in IF p = "sign_in" THEN {"none", "buyer"} ELSE Roles \ {"none"}
    /\ Begin(r, Reading(p, p, IF p = "reset" THEN Counters ELSE Password))
    /\ UNCHANGED <<overlap, clock, user, codes, sessions, quota, rate>>

WonUnused(c) == [c EXCEPT !.wins = @ + 1]

Won(c) == [c EXCEPT !.used = TRUE, !.wins = @ + 1]

Win(i) == codes' = [codes EXCEPT ![i] = Won(@)]

(***************************************************************************)
(* Sessions.                                                               *)
(***************************************************************************)
Open(r) ==
    /\ Len(sessions) < MaxSessions
    /\ sessions' = Append(sessions, [open |-> TRUE, at |-> req[r].now, pw |-> req[r].who.pw,
                                     late |-> req[r].who.last # user.last])

\* A session that is over is revoked by the next request that brings it; what
\* is told of a revoked one is not needed any more.
Alive(s) == sessions[s].open /\ clock < sessions[s].at + SessionAge

Revoked == [open |-> FALSE, at |-> 0, pw |-> 0, late |-> FALSE]

Revoke(set) == sessions' = [s \in DOMAIN sessions |->
                              IF s \in set THEN Revoked ELSE sessions[s]]

\* A number without an account gets a buyer's.  Two requests may both see none:
\* the unique phone fails the second, and its code stays open.
SignInByCode(r) ==
    /\ req[r].op = "sign_in"
    /\ IF req[r].who.role = "none" /\ user.role # "none"
       THEN UNCHANGED <<user, codes, sessions>>
       ELSE /\ user' = IF user.role = "none" THEN [NoUser EXCEPT !.role = "buyer"] ELSE user
            /\ Win(req[r].code)
            /\ Open(r)
    /\ Finish(r)
    /\ UNCHANGED <<overlap, clock, quota, rate>>

(***************************************************************************)
(* Passwords.  Only the columns that differ from what was read are written.*)
(***************************************************************************)
Written(who, failed, until) ==
    [user EXCEPT !.failed = IF failed # who.failed THEN failed ELSE @,
                 !.until  = IF until # who.until THEN until ELSE @]

New(u) == [u EXCEPT !.pw = u.last + 1, !.last = @ + 1, !.legacy = FALSE]

ResetPassword(r) ==
    /\ req[r].op = "reset"
    /\ user.last < MaxPasswords
    /\ user' = New(Written(req[r].who, 0, 0))
    /\ Win(req[r].code)
    /\ Revoke(DOMAIN sessions)
    /\ Finish(r)
    /\ UNCHANGED <<overlap, clock, quota, rate>>

\* Every attempt within the limit is counted, and then the account is looked up.
Attempt(r, request) ==
    /\ rate < LoginRate
    /\ rate' = rate + 1
    /\ Begin(r, request)
    /\ UNCHANGED <<overlap, clock, user, codes, sessions, quota>>

Locked == user.until > clock

Login(op, who) == [Idle EXCEPT !.op = op, !.now = clock, !.who = who]

TurnAway(r) ==
    /\ user.role = "none" \/ Locked
    /\ Attempt(r, Idle)

TryWrongPassword(r) ==
    /\ user.role # "none" /\ ~Locked
    /\ Attempt(r, Login("wrong_password", Counters))

TryRightPassword(r) ==
    /\ user.pw # 0 /\ ~Locked
    /\ Attempt(r, Login("login", user))

CountFailure(r) ==
    LET who   == req[r].who
        locks == who.failed + 1 >= LoginTries
    IN  /\ req[r].op = "wrong_password"
        /\ user' = IF locks THEN Written(who, 0, req[r].now + LoginLockout)
                            ELSE Written(who, who.failed + 1, who.until)
        /\ Finish(r)
        /\ UNCHANGED <<overlap, clock, codes, sessions, quota, rate>>

\* A password hashed the old way is hashed again from what the login was given,
\* whatever the account's password is by then.
Rehashed(u, pw) == [u EXCEPT !.pw = pw, !.legacy = FALSE]

LogIn(r) ==
    LET who  == req[r].who
        kept == Written(who, 0, 0)
    IN  /\ req[r].op = "login"
        /\ user' = IF who.legacy THEN Rehashed(kept, who.pw) ELSE kept
        /\ Open(r)
        /\ rate' = 0
        /\ Finish(r)
        /\ UNCHANGED <<overlap, clock, codes, quota>>

\* register_user: the unique phone refuses a second account.
Register(role) ==
    /\ Free /\ user.role = "none"
    /\ user' = [New(NoUser) EXCEPT !.role = role]
    /\ UNCHANGED <<overlap, clock, codes, sessions, quota, rate, req>>

(***************************************************************************)
(* What a signed-in device asks for: the middleware resolves its session   *)
(* first, in a database session of its own.                                *)
(***************************************************************************)
Authenticated(r, s, op, t) ==
    /\ Alive(s)
    /\ Begin(r, [Idle EXCEPT !.op = op, !.session = t])
    /\ UNCHANGED <<overlap, clock, user, codes, sessions, quota, rate>>

AskChange(r, s)       == user.pw # 0 /\ Authenticated(r, s, "change", s)
AskRevokeOthers(r, s) == Authenticated(r, s, "revoke_others", s)

\* Of another device that is signed in; this one logs out.
AskRevoke(r, s, t) == t # s /\ sessions[t].open /\ Authenticated(r, s, "revoke", t)
AskLogOut(r, s)    == Authenticated(r, s, "revoke", s)

OthersSwapped(s) == {s}

Others(s) == DOMAIN sessions \ {s}

\* The device that changed the password knows the new one.
ChangePassword(r) ==
    LET s == req[r].session
    IN  /\ req[r].op = "change"
        /\ user.last < MaxPasswords
        /\ user' = New(user)
        /\ sessions' = [t \in DOMAIN sessions |->
                          IF t \in Others(s) THEN Revoked
                          ELSE IF t = s /\ sessions[t].open
                          THEN [sessions[t] EXCEPT !.pw = user.last + 1]
                          ELSE sessions[t]]
        /\ Finish(r)
        /\ UNCHANGED <<overlap, clock, codes, quota, rate>>

RevokeOthers(r) ==
    /\ req[r].op = "revoke_others"
    /\ Revoke(Others(req[r].session))
    /\ Finish(r)
    /\ UNCHANGED <<overlap, clock, user, codes, quota, rate>>

RevokeOne(r) ==
    /\ req[r].op = "revoke"
    /\ Revoke({req[r].session})
    /\ Finish(r)
    /\ UNCHANGED <<overlap, clock, user, codes, quota, rate>>

Expire(s) ==
    /\ Free /\ sessions[s].open /\ ~Alive(s)
    /\ Revoke({s})
    /\ UNCHANGED <<overlap, clock, user, codes, quota, rate, req>>

Tick ==
    /\ clock < MaxTime[overlap]
    /\ clock' = clock + 1
    /\ rate' = 0
    /\ UNCHANGED <<overlap, user, codes, sessions, quota, req>>
Next ==
    \/ \E r \in Requests :
         \/ \E p \in Purposes : AskCode(r, p) \/ TryWrongCode(r, p) \/ TryRightCode(r, p)
         \/ IssueCode(r) \/ CountTry(r) \/ SignInByCode(r) \/ ResetPassword(r)
         \/ TurnAway(r) \/ TryWrongPassword(r) \/ TryRightPassword(r)
         \/ CountFailure(r) \/ LogIn(r)
         \/ \E s \in DOMAIN sessions : AskChange(r, s) \/ AskRevokeOthers(r, s) \/ AskLogOut(r, s)
         \/ \E s, t \in DOMAIN sessions : AskRevoke(r, s, t)
         \/ ChangePassword(r) \/ RevokeOthers(r) \/ RevokeOne(r)
    \/ \E role \in {"buyer", "seller"} : Register(role)
    \/ \E s \in DOMAIN sessions : Expire(s)
    \/ Tick

Spec == Init /\ [][Next]_vars

-----------------------------------------------------------------------------
\* A new password signs the other devices out: a session that an older password
\* or an earlier code opened is open only if the password was set while it was
\* being opened (_revoke, create_session), or has been undone.  Nothing undoes a
\* password where requests take turns (authenticate_and_create_session).
NewPasswordSignsOut ==
    /\ user.pw = user.last =>
         \A s \in DOMAIN sessions :
             sessions[s].open => sessions[s].pw = user.last \/ sessions[s].late
    /\ user.pw # user.last => overlap

\* Where requests take turns, the wrong tries of a code stay within the limit,
\* the last of them ends it, and no code of that purpose is sent before the
\* lockout is over (consume_phone_code, request_phone_code).
TriesLockPhone ==
    ~overlap =>
        \A i \in DOMAIN codes :
            /\ codes[i].wrong <= CodeTries
            /\ codes[i].wrong = CodeTries =>
                 codes[i].used /\ codes[i].wins = 0 /\ codes[i].until >= codes[i].at + CodeLockout
            /\ \A j \in Issued(codes[i].purpose) : j > i => codes[j].at >= codes[i].until

\* Where requests take turns, a code lets in once, and only the newest code of
\* its purpose can be open (consume_phone_code, request_phone_code).
CodeLetsInOnce ==
    ~overlap =>
        /\ \A i \in DOMAIN codes : codes[i].wins <= 1
        /\ \A p \in Purposes : \A i \in Issued(p) : codes[i].used \/ i = Latest(p)
=============================================================================
