----------------------------- MODULE AccessControl -----------------------------
(***************************************************************************)
(* Who may run a handler of the file service: the session store, the login *)
(* rate limiter and the routing of HandleRequest (Service.cpp).            *)
(*                                                                         *)
(* Requests are handled one at a time by the event loop, so no two of them *)
(* interleave; what interleaves with a request is the clock, which the     *)
(* code reads again at each call of the store and of the limiter.  A login *)
(* spends most of its time in PBKDF2, between Allow and Failure, and a     *)
(* logout authenticates twice; each is two steps here.  The clock is       *)
(* std::chrono::system_clock: it normally advances, and an administrator   *)
(* or NTP may step it either way.                                          *)
(*                                                                         *)
(* Tokens are 32 random bytes.  They are taken to be fresh: the n-th login *)
(* gets session token n and CSRF token n.  0 stands for a request without  *)
(* that cookie or header.  Requests that change nothing and run no         *)
(* protected handler (a bad URL, the login page) are not steps.            *)
(*                                                                         *)
(* An operator named ...Mutant is a faulty variant of the one below it; it *)
(* is no part of the specification and only shows that a property can fail.*)
(***************************************************************************)
EXTENDS Integers, Sequences

CONSTANTS
    Addrs,        \* peer addresses
    MaxSessions,  \* bound: logins that succeed
    MaxTime,      \* bound: the clock stays in 1..MaxTime
    MaxSteps,     \* bound: how often the clock is stepped
    Ttl,          \* session_ttl_seconds
    Minute,       \* std::chrono::minutes(1)
    MaxFailures   \* the 5 of LoginRateLimiter::Failure

ASSUME AccessAssumption ==
    /\ MaxSessions \in Nat /\ MaxSteps \in Nat
    /\ MaxTime \in Nat \ {0} /\ Ttl \in Nat \ {0} /\ Minute \in Nat \ {0}
    /\ MaxFailures \in Nat \ {0, 1}

VARIABLES
    now,       \* the wall clock
    steps,     \* times the clock was stepped
    sessions,  \* SessionStore::sessions_
    attempts,  \* LoginRateLimiter::attempts_
    serving,   \* the request whose handler is under way
    reply,     \* the last request that ran a protected handler
    issued,    \* logins that succeeded so far
    granted,   \* history: when the session of each login ends
    refused,   \* history: issued tokens that were refused or logged out
    failed     \* history: when the last failures since a success happened

store   == <<sessions, issued, granted>>
limiter == <<attempts, failed>>
vars    == <<now, steps, store, limiter, serving, reply, refused>>

Tokens  == 1..MaxSessions
Cookies == 0..MaxSessions
Time    == 1..MaxTime

Open     == {"/", "download"}          \* no CSRF check
Mutating == {"/upload", "/delete", "/logout"}

Idle      == [op |-> "idle"]
NoReply   == [op |-> "none"]
NoSession == [csrf |-> 0, expires_at |-> 0]

\* An address without an entry behaves as one with a value-initialised entry:
\* Allow returns true for both, and attempts_[address] creates the latter.
NoAttempt == [window_started |-> 0, blocked_until |-> 0, failures |-> 0]

Init ==
    /\ now = 1
    /\ steps = 0
    /\ sessions = [t \in Tokens |-> NoSession]
    /\ attempts = [a \in Addrs |-> NoAttempt]
    /\ serving = Idle
    /\ reply = NoReply
    /\ issued = 0
    /\ granted = [t \in Tokens |-> 0]
    /\ refused = {}
    /\ failed = [a \in Addrs |-> <<>>]

-----------------------------------------------------------------------------
(* The clock.                                                              *)

Tick ==
    /\ now < MaxTime
    /\ now' = now + 1
    /\ UNCHANGED <<steps, store, limiter, serving, reply, refused>>

StepClock ==
    /\ steps < MaxSteps
    /\ \E t \in Time \ {now} : now' = t
    /\ steps' = steps + 1
    /\ UNCHANGED <<store, limiter, serving, reply, refused>>

-----------------------------------------------------------------------------
(* SessionStore.                                                           *)

\* Mutant: a session is still good in the instant it expires.
ExpiredMutant(s) == s.expires_at < now

Expired(s) == s.expires_at <= now

\* Create: the store without its expired entries, plus a new one.
Create(t) ==
    [u \in Tokens |->
        IF u = t THEN [csrf |-> t, expires_at |-> now + Ttl]
        ELSE IF Expired(sessions[u]) THEN NoSession
        ELSE sessions[u]]

\* Whether Validate accepts the token, and what it leaves of the store.
Valid(t) == t \in Tokens /\ sessions[t] # NoSession /\ ~Expired(sessions[t])

\* Mutant: the expired entry is rejected but not erased.
ValidatedMutant(t) == sessions

Validated(t) ==
    IF t \in Tokens /\ ~Valid(t) THEN [sessions EXCEPT ![t] = NoSession]
    ELSE sessions

Remove(t) == [sessions EXCEPT ![t] = NoSession]

-----------------------------------------------------------------------------
(* LoginRateLimiter.                                                       *)

Blocked(a) == attempts[a].blocked_until > now

WindowOver(a) == now - attempts[a].window_started > Minute

\* What Allow leaves of the entry of an address it lets pass.
Allowed(a) == IF WindowOver(a) THEN NoAttempt ELSE attempts[a]

\* Mutant: the block starts one failure late.
FailureMutant(a) ==
    LET fresh == attempts[a].window_started = 0 \/ WindowOver(a)
        count == (IF fresh THEN 0 ELSE attempts[a].failures) + 1
    IN  [window_started |-> IF fresh THEN now ELSE attempts[a].window_started,
         blocked_until  |-> IF count > MaxFailures THEN now + Minute
                            ELSE attempts[a].blocked_until,
         failures       |-> count]

Failure(a) ==
    LET fresh == attempts[a].window_started = 0 \/ WindowOver(a)
        count == (IF fresh THEN 0 ELSE attempts[a].failures) + 1
    IN  [window_started |-> IF fresh THEN now ELSE attempts[a].window_started,
         blocked_until  |-> IF count >= MaxFailures THEN now + Minute
                            ELSE attempts[a].blocked_until,
         failures       |-> count]

-----------------------------------------------------------------------------
(* POST /api/login.                                                        *)

\* 429: the address is blocked.  Nothing changes, the body is not read.
LoginBlocked(a) ==
    /\ serving = Idle
    /\ Blocked(a)
    /\ reply' = NoReply
    /\ UNCHANGED <<now, steps, store, limiter, serving, refused>>

\* 400: no body, or more than 1024 bytes of it.  Not counted as a failure.
LoginBadBody(a) ==
    /\ serving = Idle
    /\ ~Blocked(a)
    /\ attempts' = [attempts EXCEPT ![a] = Allowed(a)]
    /\ reply' = NoReply
    /\ UNCHANGED <<now, steps, store, failed, serving, refused>>

\* The body is read and DerivePasswordHash starts.
LoginStart(a) ==
    /\ serving = Idle
    /\ ~Blocked(a)
    /\ attempts' = [attempts EXCEPT ![a] = Allowed(a)]
    /\ serving' = [op |-> "login", peer |-> a]
    /\ reply' = NoReply
    /\ UNCHANGED <<now, steps, store, failed, refused>>

\* History: the last 2 * MaxFailures - 1 failures are enough to judge by.
Recalled == 2 * MaxFailures - 1

Recall(s) == IF Len(s) < Recalled THEN s ELSE Tail(s)

\* 401: the digests differ.
LoginWrong ==
    /\ serving.op = "login"
    /\ LET a == serving.peer
       IN  /\ attempts' = [attempts EXCEPT ![a] = Failure(a)]
           /\ failed' = [failed EXCEPT ![a] = Append(Recall(failed[a]), now)]
    /\ serving' = Idle
    /\ UNCHANGED <<now, steps, store, reply, refused>>

\* 200: a session is created, then the address is forgiven.
LoginRight ==
    /\ serving.op = "login"
    /\ issued < MaxSessions
    /\ issued' = issued + 1
    /\ sessions' = Create(issued + 1)
    /\ granted' = [granted EXCEPT ![issued + 1] = now + Ttl]
    /\ attempts' = [attempts EXCEPT ![serving.peer] = NoAttempt]
    /\ failed' = [failed EXCEPT ![serving.peer] = <<>>]
    /\ serving' = Idle
    /\ UNCHANGED <<now, steps, reply, refused>>

\* 500: RAND_bytes fails, before the store is touched; Success is not called.
LoginNoToken ==
    /\ serving.op = "login"
    /\ serving' = Idle
    /\ UNCHANGED <<now, steps, store, limiter, reply, refused>>

-----------------------------------------------------------------------------
(* Every other route: Authenticate, the method, the CSRF check.            *)

\* 302 or 401: no session cookie, or one the store does not accept.
Unauthorized(t) ==
    /\ serving = Idle
    /\ ~Valid(t)
    /\ sessions' = Validated(t)
    /\ refused' = IF t \in 1..issued THEN refused \cup {t} ELSE refused
    /\ reply' = NoReply
    /\ UNCHANGED <<now, steps, limiter, serving, issued, granted>>

\* 404 for an unknown path, 405 for a method the path does not take: a valid
\* session, and nothing else happens.
NotRouted(t) ==
    /\ serving = Idle
    /\ Valid(t)
    /\ sessions' = Validated(t)
    /\ reply' = NoReply
    /\ UNCHANGED <<now, steps, limiter, serving, issued, granted, refused>>

\* ListFiles or Download.
Read(path, t) ==
    /\ serving = Idle
    /\ Valid(t)
    /\ sessions' = Validated(t)
    /\ reply' = [op |-> path, cookie |-> t, csrf |-> 0, at |-> now]
    /\ UNCHANGED <<now, steps, limiter, serving, issued, granted, refused>>

\* Mutant: header and cookie are compared with each other only.
CsrfMutant(t, header, cookie) == header # 0 /\ header = cookie

ValidateCsrf(t, header, cookie) ==
    /\ header # 0 /\ cookie # 0
    /\ header = sessions[t].csrf
    /\ cookie = sessions[t].csrf

\* 403: the header or the csrf cookie is missing or not of this session.
Forbidden(t, header, cookie) ==
    /\ serving = Idle
    /\ Valid(t)
    /\ ~ValidateCsrf(t, header, cookie)
    /\ sessions' = Validated(t)
    /\ reply' = NoReply
    /\ UNCHANGED <<now, steps, limiter, serving, issued, granted, refused>>

\* Upload or Delete runs; Logout is entered.
Write(path, t, header, cookie) ==
    /\ serving = Idle
    /\ Valid(t)
    /\ ValidateCsrf(t, header, cookie)
    /\ sessions' = Validated(t)
    /\ reply' = [op |-> path, cookie |-> t, csrf |-> header, at |-> now]
    /\ serving' = IF path = "/logout" THEN [op |-> path, cookie |-> t] ELSE Idle
    /\ UNCHANGED <<now, steps, limiter, issued, granted, refused>>

\* Logout authenticates again.  If the session expired since HandleRequest did,
\* Validate has already erased it; either way it is gone.
Logout ==
    /\ serving.op = "/logout"
    /\ LET t == serving.cookie
       IN  /\ sessions' = IF Valid(t) THEN Remove(t) ELSE Validated(t)
           /\ refused' = refused \cup {t}
    /\ serving' = Idle
    /\ reply' = NoReply
    /\ UNCHANGED <<now, steps, limiter, issued, granted>>

Next ==
    \/ Tick
    \/ StepClock
    \/ \E a \in Addrs : LoginBlocked(a) \/ LoginBadBody(a) \/ LoginStart(a)
    \/ LoginWrong
    \/ LoginRight
    \/ LoginNoToken
    \/ \E t \in Cookies : Unauthorized(t) \/ NotRouted(t)
    \/ \E t \in Cookies, path \in Open : Read(path, t)
    \/ \E t, h, c \in Cookies : Forbidden(t, h, c)
    \/ \E path \in Mutating, t, h, c \in Cookies : Write(path, t, h, c)
    \/ Logout

Spec == Init /\ [][Next]_vars

-----------------------------------------------------------------------------
(* Properties.                                                             *)

\* Every variable has its type: times stay within the clock's range plus the
\* time to live or the minute that Create and Failure add.
TypeOK ==
    /\ now \in Time
    /\ steps \in 0..MaxSteps
    /\ issued \in 0..MaxSessions
    /\ sessions \in [Tokens -> [csrf : Cookies, expires_at : 0..(MaxTime + Ttl)]]
    /\ attempts \in [Addrs -> [window_started : 0..MaxTime,
                               blocked_until : 0..(MaxTime + Minute),
                               failures : Nat]]
    /\ serving \in {Idle} \cup [op : {"login"}, peer : Addrs]
                          \cup [op : {"/logout"}, cookie : Tokens]
    /\ reply \in {NoReply} \cup [op : Open \cup Mutating, cookie : Cookies,
                                 csrf : Cookies, at : Time]
    /\ granted \in [Tokens -> 0..(MaxTime + Ttl)]
    /\ refused \subseteq Tokens
    /\ failed \in [Addrs -> Seq(Time)]

\* A protected handler runs only on behalf of a login that succeeded and whose
\* time to live, counted from that login, was not over by the clock of that
\* moment, however late the store gets to purge it and even when other logins
\* purged the store in between.
LiveSessionOnly ==
    reply # NoReply =>
        /\ reply.cookie \in 1..issued
        /\ reply.at < granted[reply.cookie]

\* Upload, Delete and Logout run only when the request carries the CSRF token
\* that was issued together with the very session it is authenticated by: a
\* token of an older or a newer login of the same browser does not do.
CsrfOfSession ==
    reply # NoReply /\ reply.op \in Mutating => reply.csrf = reply.cookie

\* A token that was refused once, because it had expired or was logged out, is
\* never accepted again, whatever the clock does afterwards: Validate erases
\* the expired entry it meets instead of merely rejecting it, and Logout leaves
\* no entry behind even when the session expires while it runs.
NoRevival ==
    [][reply' # NoReply /\ reply' # reply => reply'.cookie \notin refused]_vars

\* While the clock is not stepped, the passwords tried wrongly from one address
\* within any minute, without a correct one in between, number at most
\* 2 * MaxFailures - 2: a whole window less one at its end, and a full window
\* right after it.  (The window is anchored at its first failure, so the bound
\* is not MaxFailures.)  Any one failure more takes at least a minute from the
\* first of them to the last.
ThrottleBound ==
    steps = 0 => \A a \in Addrs :
        Len(failed[a]) = Recalled =>
            failed[a][Recalled] - failed[a][1] >= Minute

=============================================================================
