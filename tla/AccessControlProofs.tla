-------------------------- MODULE AccessControlProofs --------------------------
(***************************************************************************)
(* Proofs about AccessControl, for any number of addresses and sessions,   *)
(* any time to live, any clock range and any limit of failures:            *)
(*                                                                         *)
(*  - a handler runs for a live session only, with the CSRF token of that  *)
(*    session, and a token refused once stays refused; these need to know  *)
(*    what the entries of the store have to do with the logins;            *)
(*  - the bound of the login rate limiter, which needs to know how the     *)
(*    entry of an address relates to the failures it stands for.           *)
(***************************************************************************)
EXTENDS AccessControl, SequenceTheorems, TLAPS

-----------------------------------------------------------------------------
(* The inductive invariants.                                               *)

\* An entry of the store belongs to a login that succeeded, has the CSRF token
\* of that login, and ends when that login's time to live is over.
EntriesOK ==
    \A t \in Tokens : sessions[t] # NoSession =>
        /\ t <= issued
        /\ sessions[t].csrf = t
        /\ sessions[t].expires_at = granted[t]

\* A refused token was issued and has no entry.
RefusedOK ==
    \A t \in refused : t <= issued /\ sessions[t] = NoSession

\* The session a logout is about was issued.
LogoutOK ==
    serving.op = "/logout" => serving.cookie <= issued

SessionInv ==
    /\ TypeOK
    /\ EntriesOK
    /\ RefusedOK
    /\ LogoutOK
    /\ LiveSessionOnly
    /\ CsrfOfSession

\* The failure of address a that j others followed.
Last(a, j) == failed[a][Len(failed[a]) - j]

\* The failures that are remembered happened in this order, up to now.
Sorted(a) ==
    /\ Len(failed[a]) <= Recalled
    /\ \A i, j \in 1..Len(failed[a]) : i <= j => failed[a][i] <= failed[a][j]
    /\ \A i \in 1..Len(failed[a]) : failed[a][i] <= now

\* No window: whatever is remembered, the MaxFailures - 1st failure from the
\* end is at least a minute old.
NoWindowOK(a) ==
    attempts[a].failures = 0 /\ Len(failed[a]) >= MaxFailures - 1
        => Last(a, MaxFailures - 2) <= now - Minute

\* A window that is not full yet started with the first of the failures it
\* counts, and a minute or more after the MaxFailures - 1st failure before it.
WindowOK(a) ==
    LET c == attempts[a].failures
    IN  1 <= c /\ c < MaxFailures =>
            /\ c <= Len(failed[a])
            /\ Last(a, c - 1) = attempts[a].window_started
            /\ Len(failed[a]) >= c + MaxFailures - 1
                => Last(a, c + MaxFailures - 2)
                       <= attempts[a].window_started - Minute

\* A full window blocks the address for a minute from its last failure.
FullOK(a) ==
    attempts[a].failures >= MaxFailures =>
        /\ Len(failed[a]) > 0
        /\ attempts[a].blocked_until >= Last(a, 0) + Minute

\* A login is under way for an address that is not blocked.
PassedOK(a) ==
    serving.op = "login" /\ serving.peer = a => ~Blocked(a)

LimiterOK(a) ==
    /\ attempts[a].window_started = 0 <=> attempts[a].failures = 0
    /\ Sorted(a)
    /\ NoWindowOK(a)
    /\ WindowOK(a)
    /\ FullOK(a)
    /\ PassedOK(a)
    /\ Len(failed[a]) = Recalled => failed[a][Recalled] - failed[a][1] >= Minute

ThrottleInv ==
    /\ TypeOK
    /\ steps = 0 => \A a \in Addrs : LimiterOK(a)

-----------------------------------------------------------------------------
(* Types.                                                                  *)

\* What the type of the request under way says about its fields.
LEMMA ServingTyped ==
    ASSUME TypeOK
    PROVE  /\ serving.op = "login" => serving.peer \in Addrs
           /\ serving.op = "/logout" => serving.cookie \in Tokens
           /\ serving = Idle => serving.op = "idle"
BY DEF TypeOK, Idle

\* What the type of the reply says about its fields.
LEMMA ReplyTyped ==
    ASSUME TypeOK, reply # NoReply
    PROVE  /\ reply.op \in Open \cup Mutating
           /\ reply.cookie \in Cookies
           /\ reply.csrf \in Cookies
           /\ reply.at \in Time
BY DEF TypeOK

\* A valid token has an entry that has not expired.
LEMMA ValidEntry ==
    ASSUME NEW t, Valid(t), TypeOK
    PROVE  t \in Tokens /\ sessions[t] # NoSession /\ now < sessions[t].expires_at
           /\ Validated(t) = sessions
BY DEF Valid, Expired, Validated, TypeOK, Time

\* The history of failures stays a sequence of times no longer than it was, or
\* by one.
LEMMA RecallTyped ==
    ASSUME NEW s \in Seq(Time)
    PROVE  /\ Recall(s) \in Seq(Time)
           /\ \A x \in Time : Append(Recall(s), x) \in Seq(Time)
<1>1. s = << >> => Len(s) < Recalled
  BY AccessAssumption DEF Recalled
<1>2. s # << >> => Tail(s) \in Seq(Time)
  BY HeadTailProperties
<1> QED
  BY <1>1, <1>2 DEF Recall

\* The initial states are well typed.
LEMMA TypeInit == Init => TypeOK
<1> SUFFICES ASSUME Init PROVE TypeOK
  OBVIOUS
<1> USE AccessAssumption
<1>1. now \in Time /\ steps \in 0..MaxSteps /\ issued \in 0..MaxSessions
  BY DEF Init, Time
<1>2. sessions \in [Tokens -> [csrf : Cookies, expires_at : 0..(MaxTime + Ttl)]]
  BY DEF Init, NoSession, Cookies
<1>3. attempts \in [Addrs -> [window_started : 0..MaxTime,
                              blocked_until : 0..(MaxTime + Minute),
                              failures : Nat]]
  BY DEF Init, NoAttempt
<1>4. granted \in [Tokens -> 0..(MaxTime + Ttl)]
  BY DEF Init
<1>5. failed \in [Addrs -> Seq(Time)]
  BY DEF Init
<1> QED
  BY <1>1, <1>2, <1>3, <1>4, <1>5 DEF Init, TypeOK

\* Every step keeps the types.
LEMMA TypeStep == TypeOK /\ [Next]_vars => TypeOK'
<1> SUFFICES ASSUME TypeOK, [Next]_vars PROVE TypeOK'
  OBVIOUS
<1> USE AccessAssumption
<1>1. CASE Tick
  BY <1>1 DEF Tick, TypeOK, store, limiter, Time
<1>2. CASE StepClock
  BY <1>2 DEF StepClock, TypeOK, store, limiter, Time
<1>3. ASSUME NEW a \in Addrs, LoginBlocked(a) PROVE TypeOK'
  BY <1>3 DEF LoginBlocked, TypeOK, store, limiter
<1>4. ASSUME NEW a \in Addrs PROVE Allowed(a) \in [window_started : 0..MaxTime,
                              blocked_until : 0..(MaxTime + Minute),
                              failures : Nat]
  BY DEF Allowed, NoAttempt, TypeOK
<1>5. ASSUME NEW a \in Addrs, LoginBadBody(a) PROVE TypeOK'
  BY <1>4, <1>5 DEF LoginBadBody, TypeOK, store
<1>6. ASSUME NEW a \in Addrs, LoginStart(a) PROVE TypeOK'
  BY <1>4, <1>6 DEF LoginStart, TypeOK, store
<1>7. CASE LoginWrong
  <2> DEFINE a == serving.peer
  <2>1. a \in Addrs
    BY <1>7, ServingTyped DEF LoginWrong
  <2>2. Failure(a) \in [window_started : 0..MaxTime,
                        blocked_until : 0..(MaxTime + Minute),
                        failures : Nat]
    BY <2>1 DEF Failure, TypeOK, Time
  <2>3. attempts' \in [Addrs -> [window_started : 0..MaxTime,
                                 blocked_until : 0..(MaxTime + Minute),
                                 failures : Nat]]
    BY <1>7, <2>1, <2>2 DEF LoginWrong, TypeOK
  <2>4. Append(Recall(failed[a]), now) \in Seq(Time)
    BY <2>1, RecallTyped DEF TypeOK
  <2>5. failed' \in [Addrs -> Seq(Time)]
    BY <1>7, <2>1, <2>4 DEF LoginWrong, TypeOK
  <2> QED
    BY <1>7, <2>3, <2>5 DEF LoginWrong, TypeOK, store
<1>8. CASE LoginRight
  <2>1. serving.peer \in Addrs /\ issued' \in 0..MaxSessions
    BY <1>8, ServingTyped DEF LoginRight, TypeOK
  <2>2. Create(issued + 1)
           \in [Tokens -> [csrf : Cookies, expires_at : 0..(MaxTime + Ttl)]]
    BY <1>8 DEF Create, LoginRight, TypeOK, Tokens, Cookies, Time, NoSession
  <2>3. granted' \in [Tokens -> 0..(MaxTime + Ttl)]
    BY <1>8 DEF LoginRight, TypeOK, Tokens, Time
  <2>4. attempts' \in [Addrs -> [window_started : 0..MaxTime,
                                 blocked_until : 0..(MaxTime + Minute),
                                 failures : Nat]]
    BY <1>8, <2>1 DEF LoginRight, TypeOK, NoAttempt
  <2>5. failed' \in [Addrs -> Seq(Time)]
    BY <1>8, <2>1 DEF LoginRight, TypeOK
  <2> QED
    BY <1>8, <2>1, <2>2, <2>3, <2>4, <2>5 DEF LoginRight, TypeOK
<1>9. CASE LoginNoToken
  BY <1>9 DEF LoginNoToken, TypeOK, store, limiter
<1>10. ASSUME NEW t
       PROVE  /\ Validated(t)
                    \in [Tokens -> [csrf : Cookies, expires_at : 0..(MaxTime + Ttl)]]
              /\ Remove(t)
                    \in [Tokens -> [csrf : Cookies, expires_at : 0..(MaxTime + Ttl)]]
  <2>1. NoSession \in [csrf : Cookies, expires_at : 0..(MaxTime + Ttl)]
    BY DEF NoSession, Cookies
  <2> QED
    BY <2>1 DEF Validated, Remove, TypeOK
<1>11. ASSUME NEW t \in Cookies, Unauthorized(t) PROVE TypeOK'
  <2>0. t \in 1..issued => t \in Tokens
    BY DEF TypeOK, Tokens
  <2>1. refused' \subseteq Tokens
    BY <1>11, <2>0 DEF Unauthorized, TypeOK
  <2> QED
    BY <1>10, <1>11, <2>1 DEF Unauthorized, TypeOK, limiter
<1>12. ASSUME NEW t \in Cookies, NotRouted(t) PROVE TypeOK'
  BY <1>10, <1>12 DEF NotRouted, TypeOK, limiter
<1>13. ASSUME NEW t \in Cookies, NEW path \in Open, Read(path, t) PROVE TypeOK'
  BY <1>10, <1>13 DEF Read, TypeOK, limiter, Cookies
<1>14. ASSUME NEW t \in Cookies, NEW h \in Cookies, NEW c \in Cookies,
              Forbidden(t, h, c)
       PROVE  TypeOK'
  BY <1>10, <1>14 DEF Forbidden, TypeOK, limiter
<1>15. ASSUME NEW path \in Mutating, NEW t \in Cookies, NEW h \in Cookies,
              NEW c \in Cookies, Write(path, t, h, c)
       PROVE  TypeOK'
  <2>1. t \in Tokens
    BY <1>15 DEF Write, Valid
  <2> QED
    BY <1>10, <1>15, <2>1 DEF Write, TypeOK, limiter
<1>16. CASE Logout
  <2>1. serving.cookie \in Tokens
    BY <1>16, ServingTyped DEF Logout
  <2> QED
    BY <1>10, <1>16, <2>1 DEF Logout, TypeOK, limiter
<1>17. CASE UNCHANGED vars
  BY <1>17 DEF vars, store, limiter, TypeOK
<1> QED
  BY <1>1, <1>2, <1>3, <1>5, <1>6, <1>7, <1>8, <1>9, <1>11, <1>12, <1>13,
     <1>14, <1>15, <1>16, <1>17 DEF Next

-----------------------------------------------------------------------------
(* Sessions.                                                               *)

\* What a request that finds a valid session leaves alone.
Keeps == UNCHANGED <<sessions, issued, granted, refused>>

\* The initial states satisfy the invariant of the sessions.
LEMMA SessionInit == Init => SessionInv
<1> SUFFICES ASSUME Init PROVE SessionInv
  OBVIOUS
<1>1. TypeOK
  BY TypeInit
<1>2. EntriesOK /\ RefusedOK
  BY DEF Init, EntriesOK, RefusedOK
<1>3. LogoutOK /\ LiveSessionOnly /\ CsrfOfSession
  BY DEF Init, LogoutOK, LiveSessionOnly, CsrfOfSession, Idle
<1> QED
  BY <1>1, <1>2, <1>3 DEF SessionInv

\* A step that leaves the store, the request under way and the reply alone
\* keeps the invariant of the sessions.
LEMMA SessionFrame ==
    ASSUME SessionInv, Keeps, TypeOK',
           serving' = serving \/ serving'.op # "/logout",
           reply' = reply \/ reply' = NoReply
    PROVE  SessionInv'
<1>1. EntriesOK' /\ RefusedOK'
  BY DEF SessionInv, Keeps, EntriesOK, RefusedOK
<1>2. LogoutOK'
  BY DEF SessionInv, Keeps, LogoutOK
<1>3. LiveSessionOnly' /\ CsrfOfSession'
  BY DEF SessionInv, Keeps, LiveSessionOnly, CsrfOfSession
<1> QED
  BY <1>1, <1>2, <1>3 DEF SessionInv

\* Erasing the entries of refused tokens keeps the invariant of the sessions.
LEMMA SessionErase ==
    ASSUME SessionInv, TypeOK', NEW t,
           issued' = issued, granted' = granted, reply' = NoReply,
           serving'.op # "/logout",
           \A u \in Tokens : sessions'[u] = IF u = t THEN NoSession ELSE sessions[u],
           \A u \in refused' : u \in refused \/ (u = t /\ t \in 1..issued)
    PROVE  SessionInv'
<1>1. EntriesOK'
  BY DEF SessionInv, EntriesOK
<1>2. RefusedOK'
  BY DEF SessionInv, RefusedOK, TypeOK, Tokens
<1>3. LogoutOK' /\ LiveSessionOnly' /\ CsrfOfSession'
  BY DEF LogoutOK, LiveSessionOnly, CsrfOfSession
<1> QED
  BY <1>1, <1>2, <1>3 DEF SessionInv

\* A protected handler that runs for a valid token keeps the invariant of the
\* sessions: the entry says that the login's time is not over, and whose CSRF
\* token was compared.
LEMMA SessionServe ==
    ASSUME SessionInv, Keeps, TypeOK', NEW t, Valid(t), NEW path, NEW header,
           path \in Open \/ header = sessions[t].csrf,
           reply' = [op |-> path, cookie |-> t, csrf |-> header, at |-> now],
           serving'.op = "/logout" => serving'.cookie = t
    PROVE  SessionInv'
<1>1. t \in Tokens /\ sessions[t] # NoSession /\ now < sessions[t].expires_at
  BY ValidEntry DEF SessionInv
<1>2. t \in 1..issued /\ sessions[t].csrf = t /\ sessions[t].expires_at = granted[t]
  BY <1>1 DEF SessionInv, EntriesOK, TypeOK, Tokens
<1>3. EntriesOK' /\ RefusedOK'
  BY DEF SessionInv, Keeps, EntriesOK, RefusedOK
<1>4. LogoutOK'
  BY <1>2 DEF Keeps, LogoutOK
<1>5. LiveSessionOnly'
  BY <1>1, <1>2 DEF Keeps, LiveSessionOnly
<1>6. CsrfOfSession'
  BY <1>2 DEF CsrfOfSession, Open, Mutating
<1> QED
  BY <1>3, <1>4, <1>5, <1>6 DEF SessionInv

\* Every step keeps the invariant of the sessions.
LEMMA SessionStep == SessionInv /\ [Next]_vars => SessionInv'
<1> SUFFICES ASSUME SessionInv, [Next]_vars PROVE SessionInv'
  OBVIOUS
<1>0. TypeOK /\ TypeOK'
  BY TypeStep DEF SessionInv
<1> USE <1>0
<1>1. CASE Tick
  BY <1>1, SessionFrame DEF Tick, store, Keeps
<1>2. CASE StepClock
  BY <1>2, SessionFrame DEF StepClock, store, Keeps
<1>3. ASSUME NEW a \in Addrs, LoginBlocked(a) PROVE SessionInv'
  BY <1>3, SessionFrame DEF LoginBlocked, store, Keeps
<1>4. ASSUME NEW a \in Addrs, LoginBadBody(a) PROVE SessionInv'
  BY <1>4, SessionFrame DEF LoginBadBody, store, Keeps
<1>5. ASSUME NEW a \in Addrs, LoginStart(a) PROVE SessionInv'
  BY <1>5, SessionFrame DEF LoginStart, store, Keeps
<1>6. CASE LoginWrong
  BY <1>6, SessionFrame DEF LoginWrong, store, Keeps, Idle
<1>7. CASE LoginRight
  <2> DEFINE t == issued + 1
  <2>1. /\ t \in Tokens /\ issued' = t
        /\ \A u \in Tokens : sessions'[u] =
              IF u = t THEN [csrf |-> t, expires_at |-> now + Ttl]
              ELSE IF Expired(sessions[u]) THEN NoSession ELSE sessions[u]
        /\ \A u \in Tokens : granted'[u] = IF u = t THEN now + Ttl ELSE granted[u]
    BY <1>7 DEF LoginRight, Create, TypeOK, Tokens
  <2>2. EntriesOK'
    <3> SUFFICES ASSUME NEW u \in Tokens, sessions'[u] # NoSession
                 PROVE  /\ u <= issued'
                        /\ sessions'[u].csrf = u
                        /\ sessions'[u].expires_at = granted'[u]
      BY DEF EntriesOK
    <3>1. CASE u = t
      BY <2>1, <3>1 DEF Tokens
    <3>2. CASE u # t
      <4>1. sessions'[u] = sessions[u] /\ granted'[u] = granted[u]
        BY <2>1, <3>2
      <4>2. u <= issued /\ sessions[u].csrf = u /\ sessions[u].expires_at = granted[u]
        BY <4>1 DEF SessionInv, EntriesOK
      <4> QED
        BY <2>1, <4>1, <4>2 DEF TypeOK, Tokens
    <3> QED
      BY <3>1, <3>2
  <2>3. RefusedOK'
    <3> SUFFICES ASSUME NEW u \in refused'
                 PROVE  u <= issued' /\ sessions'[u] = NoSession
      BY DEF RefusedOK
    <3>1. u \in refused /\ u <= issued /\ sessions[u] = NoSession
      BY <1>7 DEF LoginRight, SessionInv, RefusedOK
    <3>2. u \in Tokens /\ u # t
      <4>1. u \in Tokens /\ issued \in Int
        BY <3>1 DEF TypeOK
      <4>2. u \in Int
        BY <4>1 DEF Tokens
      <4> QED
        BY <3>1, <4>1, <4>2
    <3>3. sessions'[u] = NoSession
      BY <2>1, <3>1, <3>2
    <3>4. u \in Int /\ issued \in Int
      BY <3>2 DEF TypeOK, Tokens
    <3> QED
      BY <2>1, <3>1, <3>3, <3>4
  <2>4. LogoutOK'
    BY <1>7 DEF LoginRight, LogoutOK, Idle
  <2>5. LiveSessionOnly' /\ CsrfOfSession'
    <3>1. reply' = reply /\ LiveSessionOnly /\ CsrfOfSession
      BY <1>7 DEF LoginRight, SessionInv
    <3>2. reply # NoReply => reply.cookie \in Tokens /\ reply.cookie # t
      <4>1. issued \in 0..MaxSessions
        BY DEF TypeOK
      <4> QED
        BY <3>1, <4>1, AccessAssumption DEF LiveSessionOnly, Tokens
    <3> QED
      BY <2>1, <3>1, <3>2 DEF LiveSessionOnly, CsrfOfSession, TypeOK
  <2> QED
    BY <2>2, <2>3, <2>4, <2>5 DEF SessionInv
<1>8. CASE LoginNoToken
  BY <1>8, SessionFrame DEF LoginNoToken, store, Keeps, Idle
<1>9. ASSUME NEW t \in Cookies, Unauthorized(t) PROVE SessionInv'
  <2>1. serving'.op # "/logout" /\ reply' = NoReply
    BY <1>9 DEF Unauthorized, Idle
  <2>2. \A u \in Tokens : sessions'[u] = IF u = t THEN NoSession ELSE sessions[u]
    BY <1>9 DEF Unauthorized, Validated, TypeOK
  <2>3. \A u \in refused' : u \in refused \/ (u = t /\ t \in 1..issued)
    BY <1>9 DEF Unauthorized
  <2> QED
    BY <1>9, <2>1, <2>2, <2>3, SessionErase DEF Unauthorized
<1>10. ASSUME NEW t \in Cookies, NotRouted(t) PROVE SessionInv'
  BY <1>10, ValidEntry, SessionFrame DEF NotRouted, Keeps
<1>11. ASSUME NEW t \in Cookies, NEW path \in Open, Read(path, t) PROVE SessionInv'
  <2>1. serving'.op # "/logout"
    BY <1>11 DEF Read, Idle
  <2>2. Keeps
    BY <1>11, ValidEntry DEF Read, Keeps
  <2> QED
    BY <1>11, <2>1, <2>2, SessionServe DEF Read
<1>12. ASSUME NEW t \in Cookies, NEW h \in Cookies, NEW c \in Cookies,
              Forbidden(t, h, c)
       PROVE  SessionInv'
  BY <1>12, ValidEntry, SessionFrame DEF Forbidden, Keeps
<1>13. ASSUME NEW path \in Mutating, NEW t \in Cookies, NEW h \in Cookies,
              NEW c \in Cookies, Write(path, t, h, c)
       PROVE  SessionInv'
  <2>1. serving'.op = "/logout" => serving'.cookie = t
    BY <1>13 DEF Write, Idle
  <2>2. Keeps
    BY <1>13, ValidEntry DEF Write, Keeps
  <2>3. h = sessions[t].csrf
    BY <1>13 DEF Write, ValidateCsrf
  <2> QED
    BY <1>13, <2>1, <2>2, <2>3, SessionServe DEF Write
<1>14. CASE Logout
  <2> DEFINE t == serving.cookie
  <2>1. t \in 1..issued
    BY <1>14, ServingTyped DEF Logout, SessionInv, LogoutOK, TypeOK, Tokens
  <2>2. serving'.op # "/logout" /\ reply' = NoReply
    BY <1>14 DEF Logout, Idle
  <2>3. \A u \in Tokens : sessions'[u] = IF u = t THEN NoSession ELSE sessions[u]
    BY <1>14, ServingTyped DEF Logout, Validated, Remove, TypeOK
  <2>4. \A u \in refused' : u \in refused \/ (u = t /\ t \in 1..issued)
    BY <1>14, <2>1 DEF Logout
  <2>5. issued' = issued /\ granted' = granted
    BY <1>14 DEF Logout
  <2> HIDE DEF t
  <2> QED
    BY <2>2, <2>3, <2>4, <2>5, SessionErase
<1>15. CASE UNCHANGED vars
  BY <1>15, SessionFrame DEF vars, store, Keeps
<1> QED
  BY <1>1, <1>2, <1>3, <1>4, <1>5, <1>6, <1>7, <1>8, <1>9, <1>10, <1>11, <1>12,
     <1>13, <1>14, <1>15 DEF Next

\* The sessions' invariant holds in every reachable state.
THEOREM SessionInvariance == Spec => []SessionInv
<1> QED
  BY SessionInit, SessionStep, PTL DEF Spec

\* Every variable keeps its type, whatever requests arrive and whatever the
\* clock does.
THEOREM TypeCorrect == Spec => []TypeOK
<1>1. SessionInv => TypeOK
  BY DEF SessionInv
<1> QED
  BY <1>1, SessionInvariance, PTL

\* HandleRequest runs a protected handler only for a session whose login
\* succeeded and whose time to live was not over at that moment.
THEOREM LiveSessionCorrect == Spec => []LiveSessionOnly
<1>1. SessionInv => LiveSessionOnly
  BY DEF SessionInv
<1> QED
  BY <1>1, SessionInvariance, PTL

\* Upload, Delete and Logout run only with the CSRF token that was issued with
\* the session of the request.
THEOREM CsrfCorrect == Spec => []CsrfOfSession
<1>1. SessionInv => CsrfOfSession
  BY DEF SessionInv
<1> QED
  BY <1>1, SessionInvariance, PTL

\* A token that Validate refused or Logout removed is never accepted again,
\* even when the clock is set back to before its expiry.
THEOREM NoRevivalCorrect == Spec => NoRevival
<1>1. SessionInv /\ [Next]_vars =>
        [reply' # NoReply /\ reply' # reply => reply'.cookie \notin refused]_vars
  <2> SUFFICES ASSUME SessionInv, Next, reply' # NoReply, reply' # reply
               PROVE  reply'.cookie \notin refused
    BY DEF vars
  <2>1. ASSUME NEW t, Valid(t) PROVE t \notin refused
    BY <2>1, ValidEntry DEF SessionInv, RefusedOK
  <2>2. \E t \in Cookies : Valid(t) /\ reply'.cookie = t
    BY DEF Next, Tick, StepClock, LoginBlocked, LoginBadBody, LoginStart,
           LoginWrong, LoginRight, LoginNoToken, Unauthorized, NotRouted, Read,
           Forbidden, Write, Logout
  <2> QED
    BY <2>1, <2>2
<1> QED
  BY <1>1, SessionInvariance, PTL DEF Spec, NoRevival

-----------------------------------------------------------------------------
(* The login rate limiter.                                                 *)

\* The numbers the limiter's invariant is about are integers.
LEMMA LimiterTyped ==
    ASSUME TypeOK, NEW a \in Addrs
    PROVE  /\ failed[a] \in Seq(Time)
           /\ Len(failed[a]) \in Nat
           /\ \A i \in 1..Len(failed[a]) : failed[a][i] \in Nat
           /\ attempts[a].window_started \in Nat
           /\ attempts[a].blocked_until \in Nat
           /\ attempts[a].failures \in Nat
           /\ now \in Nat /\ now > 0
           /\ Minute \in Nat /\ Minute > 0
           /\ MaxFailures \in Nat /\ MaxFailures >= 2
           /\ Recalled = 2 * MaxFailures - 1
<1>1. failed[a] \in Seq(Time)
  BY DEF TypeOK
<1>2. Len(failed[a]) \in Nat /\ \A i \in 1..Len(failed[a]) : failed[a][i] \in Nat
  <2>1. \A i \in 1..Len(failed[a]) : failed[a][i] \in Time
    BY <1>1
  <2>2. \A t \in Time : t \in Nat
    BY AccessAssumption DEF Time
  <2> QED
    BY <1>1, <2>1, <2>2, LenProperties
<1>3. /\ attempts[a].window_started \in Nat
      /\ attempts[a].blocked_until \in Nat
      /\ attempts[a].failures \in Nat
  BY DEF TypeOK
<1>4. now \in Nat /\ now > 0
  BY DEF TypeOK, Time
<1> QED
  BY <1>1, <1>2, <1>3, <1>4, AccessAssumption DEF Recalled

\* What the history of failures looks like, from its end, after one more.
LEMMA RecallShape ==
    ASSUME NEW s \in Seq(Time), Len(s) <= Recalled, NEW x \in Time
    PROVE  LET g == Append(Recall(s), x)
           IN  /\ Len(g) = IF Len(s) < Recalled THEN Len(s) + 1 ELSE Recalled
               /\ g[Len(g)] = x
               /\ \A j \in 1..(Len(g) - 1) : g[Len(g) - j] = s[Len(s) - j + 1]
<1> DEFINE g == Append(Recall(s), x)
<1>1. Recalled \in Nat /\ Recalled > 0 /\ Len(s) \in Nat
  BY AccessAssumption, LenProperties DEF Recalled
<1>2. CASE Len(s) < Recalled
  BY <1>1, <1>2, AppendProperties DEF Recall
<1>3. CASE ~(Len(s) < Recalled)
  <2>1. s # << >> /\ Recall(s) = Tail(s)
    BY <1>1, <1>3 DEF Recall
  <2>2. /\ Tail(s) \in Seq(Time) /\ Len(Tail(s)) = Len(s) - 1
        /\ \A i \in 1..Len(Tail(s)) : Tail(s)[i] = s[i + 1]
    BY <2>1, HeadTailProperties
  <2>3. Len(s) = Recalled
    BY <1>1, <1>3
  <2> HIDE DEF Recalled
  <2>4. PICK u : u = Tail(s)
    OBVIOUS
  <2>5. /\ Len(g) = Len(u) + 1 /\ g[Len(u) + 1] = x
        /\ \A i \in 1..Len(u) : g[i] = u[i]
    BY <2>1, <2>2, <2>4, AppendProperties
  <2>6. Len(g) = Recalled
    BY <1>1, <2>2, <2>3, <2>4, <2>5
  <2>7. ASSUME NEW j \in 1..(Len(g) - 1) PROVE g[Len(g) - j] = s[Len(s) - j + 1]
    <3>1. Len(g) - j \in 1..Len(u) /\ (Len(g) - j) + 1 = Len(s) - j + 1
      BY <1>1, <2>2, <2>3, <2>4, <2>5, <2>6
    <3> QED
      BY <2>2, <2>4, <2>5, <3>1
  <2> QED
    BY <1>1, <1>3, <2>2, <2>3, <2>4, <2>5, <2>6, <2>7
<1> QED
  BY <1>2, <1>3

\* When an address is let pass and its entry counts no failure, or is about to
\* be forgotten, the MaxFailures - 1st failure from the end is a minute old.
LEMMA OldEnough ==
    ASSUME TypeOK, NEW a \in Addrs, LimiterOK(a), ~Blocked(a),
           attempts[a].failures = 0 \/ WindowOver(a),
           Len(failed[a]) >= MaxFailures - 1
    PROVE  Last(a, MaxFailures - 2) <= now - Minute
<1> DEFINE f == failed[a]
           n == Len(f)
           c == attempts[a].failures
           k == n - (MaxFailures - 2)
<1>0. /\ n \in Nat /\ c \in Nat /\ k \in 1..n
      /\ attempts[a].window_started \in Nat /\ attempts[a].blocked_until \in Nat
      /\ now \in Nat /\ Minute \in Nat
      /\ MaxFailures \in Nat /\ MaxFailures >= 2
  BY LimiterTyped
<1>e. \A i \in 1..n : f[i] \in Nat
  BY LimiterTyped
<1>1. CASE c = 0
  BY <1>1 DEF LimiterOK, NoWindowOK
<1>2. CASE 1 <= c /\ c < MaxFailures
  <2>1. c <= n /\ f[n - (c - 1)] = attempts[a].window_started
    BY <1>2 DEF LimiterOK, WindowOK, Last
  <2>2. f[k] <= f[n - (c - 1)]
    <3>1. n - (c - 1) \in 1..n /\ k <= n - (c - 1)
      <4> HIDE DEF f, n, c
      <4> QED
        BY <1>0, <1>2, <2>1
    <3> QED
      BY <1>0, <3>1 DEF LimiterOK, Sorted
  <2>3. now - attempts[a].window_started > Minute
    BY <1>2 DEF WindowOver
  <2>4. f[k] \in Nat
    BY <1>0, <1>e
  <2>5. f[k] <= now - Minute
    <3> HIDE DEF f, n, c, k
    <3> QED
      BY <1>0, <2>1, <2>2, <2>3, <2>4
  <2> QED
    BY <2>5 DEF Last
<1>3. CASE c >= MaxFailures
  <2>1. n > 0 /\ attempts[a].blocked_until >= f[n - 0] + Minute
    BY <1>3 DEF LimiterOK, FullOK, Last
  <2>2. f[k] <= f[n]
    <3>1. n \in 1..n /\ k <= n
      BY <1>0, <2>1
    <3> QED
      BY <1>0, <3>1 DEF LimiterOK, Sorted
  <2>3. attempts[a].blocked_until <= now
    BY <1>0 DEF Blocked
  <2>4. n - 0 = n /\ f[n] \in Nat /\ f[k] \in Nat
    BY <1>0, <1>e, <2>1
  <2>5. f[k] <= now - Minute
    <3> HIDE DEF f, n, c, k
    <3> QED
      BY <1>0, <2>1, <2>2, <2>3, <2>4
  <2> QED
    BY <2>5 DEF Last
<1> QED
  BY <1>0, <1>1, <1>2, <1>3

\* Time passing and steps about other addresses keep the limiter's invariant.
LEMMA LimiterFrame ==
    ASSUME TypeOK, TypeOK', NEW a \in Addrs, LimiterOK(a),
           failed'[a] = failed[a], attempts'[a] = attempts[a], now' >= now,
           PassedOK(a)'
    PROVE  LimiterOK(a)'
<1> DEFINE f == failed[a]
           n == Len(f)
<1>0. /\ n \in Nat /\ \A i \in 1..n : f[i] \in Nat
      /\ now \in Nat /\ Minute \in Nat
      /\ MaxFailures \in Nat /\ MaxFailures >= 2
  BY LimiterTyped
<1>a. now' \in Nat
  BY AccessAssumption DEF TypeOK, Time
<1>1. Sorted(a)'
  <2>1. \A i \in 1..n : f[i] <= now'
    <3> SUFFICES ASSUME NEW i \in 1..n PROVE f[i] <= now'
      OBVIOUS
    <3>1. f[i] \in Nat /\ f[i] <= now
      BY <1>0 DEF LimiterOK, Sorted
    <3> QED
      BY <1>0, <1>a, <3>1
  <2> QED
    BY <2>1 DEF LimiterOK, Sorted
<1>2. NoWindowOK(a)'
  <2> SUFFICES ASSUME attempts[a].failures = 0, n >= MaxFailures - 1
               PROVE  f[n - (MaxFailures - 2)] <= now' - Minute
    BY DEF NoWindowOK, Last
  <2>1. f[n - (MaxFailures - 2)] <= now - Minute
    BY DEF LimiterOK, NoWindowOK, Last
  <2>2. n - (MaxFailures - 2) \in 1..n
    BY <1>0
  <2>3. f[n - (MaxFailures - 2)] \in Nat
    BY <1>0, <2>2
  <2> QED
    BY <1>0, <1>a, <2>1, <2>3
<1>3. WindowOK(a)' /\ FullOK(a)'
  BY DEF LimiterOK, WindowOK, FullOK, Last
<1> QED
  BY <1>1, <1>2, <1>3 DEF LimiterOK

\* Allow keeps the limiter's invariant.
LEMMA LimiterAllow ==
    ASSUME TypeOK, TypeOK', NEW a \in Addrs, LimiterOK(a), ~Blocked(a),
           failed'[a] = failed[a], attempts'[a] = Allowed(a), now' = now
    PROVE  LimiterOK(a)'
<1>1. CASE ~WindowOver(a)
  <2>1. attempts'[a] = attempts[a]
    BY <1>1 DEF Allowed
  <2>2. PassedOK(a)'
    BY <2>1 DEF PassedOK, Blocked
  <2>3. now' >= now
    BY LimiterTyped
  <2> QED
    BY <2>1, <2>2, <2>3, LimiterFrame
<1>2. CASE WindowOver(a)
  <2>1. /\ attempts'[a].failures = 0 /\ attempts'[a].window_started = 0
        /\ attempts'[a].blocked_until = 0
    BY <1>2 DEF Allowed, NoAttempt
  <2>2. NoWindowOK(a)'
    BY <1>2, OldEnough DEF NoWindowOK, Last
  <2>3. WindowOK(a)' /\ FullOK(a)'
    BY <2>1, LimiterTyped DEF WindowOK, FullOK
  <2>4. Sorted(a)'
    BY DEF LimiterOK, Sorted
  <2>5. PassedOK(a)'
    BY <2>1, LimiterTyped DEF PassedOK, Blocked
  <2> QED
    BY <2>1, <2>2, <2>3, <2>4, <2>5 DEF LimiterOK
<1> QED
  BY <1>1, <1>2

\* Failure keeps the limiter's invariant for the address it counts.
LEMMA LimiterFail ==
    ASSUME TypeOK, TypeOK', NEW a \in Addrs, LimiterOK(a), ~Blocked(a),
           failed'[a] = Append(Recall(failed[a]), now),
           attempts'[a] = Failure(a), now' = now, serving' = Idle
    PROVE  LimiterOK(a)'
<1> DEFINE f == failed[a]
           n == Len(f)
           c == attempts[a].failures
           w == attempts[a].window_started
           g == failed'[a]
           m == Len(g)
           d == attempts'[a].failures
           v == attempts'[a].window_started
           M == MaxFailures
           fresh == w = 0 \/ WindowOver(a)
<1>1. /\ n \in Nat /\ c \in Nat /\ w \in Nat /\ m \in Nat /\ d \in Nat /\ v \in Nat
      /\ M \in Nat /\ M >= 2 /\ now \in Nat /\ now > 0
      /\ Minute \in Nat /\ Minute > 0
      /\ Recalled = 2 * M - 1
      /\ n <= Recalled
  <2>1. m \in Nat
    BY LenProperties DEF TypeOK
  <2>2. d \in Nat /\ v \in Nat
    BY DEF TypeOK
  <2> QED
    BY <2>1, <2>2, LimiterTyped DEF LimiterOK, Sorted
<1>2. /\ \A i \in 1..n : f[i] \in Nat /\ f[i] <= now
      /\ \A i, j \in 1..n : i <= j => f[i] <= f[j]
  BY LimiterTyped DEF LimiterOK, Sorted
<1>3. /\ m = IF n < Recalled THEN n + 1 ELSE Recalled
      /\ g[m] = now
      /\ \A j \in 1..(m - 1) : g[m - j] = f[n - j + 1]
  <2>1. f \in Seq(Time) /\ now \in Time /\ Len(f) <= Recalled
    BY <1>1 DEF TypeOK
  <2>2. g = Append(Recall(f), now)
    OBVIOUS
  <2> HIDE DEF f, g, Recalled
  <2> QED
    BY <2>1, <2>2, RecallShape
<1>4. /\ d = (IF fresh THEN 0 ELSE c) + 1
      /\ v = IF fresh THEN now ELSE w
      /\ d >= M => attempts'[a].blocked_until = now + Minute
  BY DEF Failure
<1>5. w = 0 <=> c = 0
  BY DEF LimiterOK
<1>6. fresh /\ n >= M - 1 => f[n - (M - 2)] <= now - Minute
  BY <1>5, OldEnough DEF Last
<1>7. ~fresh /\ c < M =>
        /\ c <= n
        /\ f[n - (c - 1)] = w
        /\ n >= c + M - 1 => f[n - (c + M - 2)] <= w - Minute
  BY <1>1, <1>5 DEF LimiterOK, WindowOK, Last
<1>8. c >= M => n > 0 /\ f[n] <= now - Minute
  <2> SUFFICES ASSUME c >= M PROVE n > 0 /\ f[n] <= now - Minute
    OBVIOUS
  <2>1. n > 0 /\ attempts[a].blocked_until >= f[n - 0] + Minute
    BY DEF LimiterOK, FullOK, Last
  <2>a. n - 0 = n /\ n \in 1..n
    <3> HIDE DEF n
    <3> QED
      BY <1>1, <2>1
  <2>2. n - 0 = n /\ f[n] \in Nat
    BY <1>2, <2>a
  <2>3. attempts[a].blocked_until \in Nat /\ attempts[a].blocked_until <= now
    BY LimiterTyped DEF Blocked
  <2> HIDE DEF f, n
  <2> QED
    BY <1>1, <2>1, <2>2, <2>3
<1>9. ~fresh /\ 1 <= c => now - w <= Minute
  BY <1>1 DEF WindowOver
<1>10. m > 0
  BY <1>1, <1>3
<1>11. Sorted(a)'
  <2> SUFFICES /\ m <= Recalled
               /\ \A i, j \in 1..m : i <= j => g[i] <= g[j]
               /\ \A i \in 1..m : g[i] <= now
    BY DEF Sorted
  <2> HIDE DEF f, n, g, m
  <2>1. \A i \in 1..(m - 1) : i + (n + 1 - m) \in 1..n /\ g[i] = f[i + (n + 1 - m)]
    <3> SUFFICES ASSUME NEW i \in 1..(m - 1)
                 PROVE  i + (n + 1 - m) \in 1..n /\ g[i] = f[i + (n + 1 - m)]
      OBVIOUS
    <3>1. m - i \in 1..(m - 1) /\ m - (m - i) = i /\ n - (m - i) + 1 = i + (n + 1 - m)
      BY <1>1
    <3>2. i + (n + 1 - m) \in 1..n
      BY <1>1, <1>3
    <3> QED
      BY <1>3, <3>1, <3>2
  <2>2. \A i \in 1..m : g[i] <= now
    <3> SUFFICES ASSUME NEW i \in 1..m PROVE g[i] <= now
      OBVIOUS
    <3>1. CASE i = m
      BY <1>1, <1>3, <3>1
    <3>2. CASE i # m
      <4>1. i \in 1..(m - 1)
        BY <1>1, <3>2
      <4> QED
        BY <1>2, <2>1, <4>1
    <3> QED
      BY <3>1, <3>2
  <2>3. \A i, j \in 1..m : i <= j => g[i] <= g[j]
    <3> SUFFICES ASSUME NEW i \in 1..m, NEW j \in 1..m, i <= j PROVE g[i] <= g[j]
      OBVIOUS
    <3>1. CASE j = m
      BY <1>3, <2>2, <3>1
    <3>2. CASE j # m
      <4>1. i \in 1..(m - 1) /\ j \in 1..(m - 1)
        BY <1>1, <3>2
      <4>2. i + (n + 1 - m) <= j + (n + 1 - m)
        BY <1>1
      <4> QED
        BY <1>2, <2>1, <4>1, <4>2
    <3> QED
      BY <3>1, <3>2
  <2> QED
    BY <1>1, <1>3, <2>2, <2>3
<1>12. NoWindowOK(a)'
  BY <1>1, <1>4 DEF NoWindowOK
<1>13. WindowOK(a)'
  <2> SUFFICES ASSUME 1 <= d, d < M
               PROVE  /\ d <= m
                      /\ g[m - (d - 1)] = v
                      /\ m >= d + M - 1 => g[m - (d + M - 2)] <= v - Minute
    BY DEF WindowOK, Last
  <2> HIDE DEF f, n, g, m, c, w, d, v, fresh
  <2>1. CASE fresh
    <3>1. d = 1 /\ v = now
      BY <1>1, <1>4, <2>1
    <3>2. m - (d - 1) = m
      BY <1>1, <3>1
    <3>3. ASSUME m >= d + M - 1 PROVE g[m - (d + M - 2)] <= v - Minute
      <4>1. M - 1 \in 1..(m - 1) /\ m - (d + M - 2) = m - (M - 1)
            /\ n - (M - 1) + 1 = n - (M - 2) /\ n >= M - 1
        BY <1>1, <1>3, <3>1, <3>3
      <4>2. g[m - (M - 1)] = f[n - (M - 2)]
        BY <1>3, <4>1
      <4> QED
        BY <1>6, <2>1, <3>1, <4>1, <4>2
    <3> QED
      BY <1>1, <1>3, <1>10, <3>1, <3>2, <3>3
  <2>2. CASE ~fresh
    <3>1. d = c + 1 /\ v = w /\ c < M
      BY <1>1, <1>4, <2>2
    <3>2. /\ c <= n /\ f[n - (c - 1)] = w
          /\ n >= c + M - 1 => f[n - (c + M - 2)] <= w - Minute
      BY <1>7, <2>2, <3>1
    <3>3. 1 <= c
      BY <1>1, <1>5, <2>2 DEF fresh
    <3>4. d <= m
      BY <1>1, <1>3, <3>1, <3>2
    <3>5. g[m - (d - 1)] = v
      <4>1. c \in 1..(m - 1) /\ m - (d - 1) = m - c /\ n - c + 1 = n - (c - 1)
        BY <1>1, <3>1, <3>3, <3>4
      <4> QED
        BY <1>3, <3>1, <3>2, <4>1
    <3>6. ASSUME m >= d + M - 1 PROVE g[m - (d + M - 2)] <= v - Minute
      <4>1. c + M - 1 \in 1..(m - 1) /\ m - (d + M - 2) = m - (c + M - 1)
            /\ n - (c + M - 1) + 1 = n - (c + M - 2) /\ n >= c + M - 1
        BY <1>1, <1>3, <3>1, <3>3, <3>6
      <4>2. g[m - (c + M - 1)] = f[n - (c + M - 2)]
        BY <1>3, <4>1
      <4> QED
        BY <3>1, <3>2, <4>1, <4>2
    <3> QED
      BY <3>4, <3>5, <3>6
  <2> QED
    BY <2>1, <2>2
<1>14. FullOK(a)'
  <2>1. m - 0 = m
    BY <1>1
  <2> SUFFICES ASSUME d >= M PROVE m > 0 /\ attempts'[a].blocked_until >= g[m] + Minute
    BY <2>1 DEF FullOK, Last
  <2> QED
    BY <1>1, <1>3, <1>4, <1>10
<1>15. PassedOK(a)'
  BY DEF PassedOK, Idle
<1>16. m = Recalled => g[Recalled] - g[1] >= Minute
  <2> SUFFICES ASSUME m = Recalled PROVE g[m] - g[1] >= Minute
    OBVIOUS
  <2> DEFINE k == n - (2 * M - 3)
  <2> HIDE DEF f, n, g, m, c, w, d, v, fresh
  <2>1. m - 1 \in 1..(m - 1) /\ m - (m - 1) = 1 /\ n - (m - 1) + 1 = k
    BY <1>1
  <2>2. g[1] = f[k]
    BY <1>3, <2>1
  <2>3. k \in 1..n /\ n \in 1..n
    BY <1>1, <1>3
  <2>4. f[k] <= now - Minute
    <3>0. f[k] \in Nat
      BY <1>2, <2>3
    <3>1. CASE fresh
      <4>1. n - (M - 2) \in 1..n /\ k <= n - (M - 2) /\ n >= M - 1
        BY <1>1, <1>3
      <4>2. f[k] <= f[n - (M - 2)] /\ f[n - (M - 2)] \in Nat
        BY <1>2, <2>3, <4>1
      <4>3. f[n - (M - 2)] <= now - Minute
        BY <1>6, <3>1, <4>1
      <4> QED
        BY <1>1, <3>0, <4>2, <4>3
    <3>2. CASE ~fresh /\ c < M
      <4>1. 1 <= c
        BY <1>1, <1>5, <3>2 DEF fresh
      <4>2. n - (c + M - 2) \in 1..n /\ k <= n - (c + M - 2) /\ n >= c + M - 1
        BY <1>1, <1>3, <3>2, <4>1
      <4>3. f[k] <= f[n - (c + M - 2)] /\ f[n - (c + M - 2)] \in Nat
        BY <1>2, <2>3, <4>2
      <4>4. f[n - (c + M - 2)] <= w - Minute
        BY <1>7, <3>2, <4>2
      <4>5. c <= n /\ n - (c - 1) \in 1..n /\ f[n - (c - 1)] = w
        BY <1>1, <1>7, <3>2, <4>1
      <4>6. w <= now
        BY <1>2, <4>5
      <4> QED
        BY <1>1, <3>0, <4>3, <4>4, <4>6
    <3>3. CASE c >= M
      <4>1. f[k] <= f[n] /\ f[n] \in Nat
        BY <1>1, <1>2, <2>3
      <4> QED
        BY <1>1, <1>8, <3>0, <3>3, <4>1
    <3> QED
      BY <1>1, <3>1, <3>2, <3>3
  <2>5. f[k] \in Nat
    BY <1>2, <2>3
  <2> QED
    BY <1>1, <1>3, <2>2, <2>4, <2>5
<1>17. v = 0 <=> d = 0
  BY <1>1, <1>4
<1> QED
  BY <1>11, <1>12, <1>13, <1>14, <1>15, <1>16, <1>17 DEF LimiterOK

\* The initial states satisfy the limiter's invariant.
LEMMA ThrottleInit == Init => ThrottleInv
<1> SUFFICES ASSUME Init PROVE ThrottleInv
  OBVIOUS
<1>1. TypeOK
  BY TypeInit
<1>2. ASSUME NEW a \in Addrs PROVE LimiterOK(a)
  <2>1. /\ failed[a] = << >> /\ Len(failed[a]) = 0 /\ attempts[a] = NoAttempt
        /\ serving.op = "idle"
    BY DEF Init, Idle
  <2>2. /\ attempts[a].failures = 0 /\ attempts[a].window_started = 0
    BY <2>1 DEF NoAttempt
  <2>3. MaxFailures \in Nat /\ MaxFailures >= 2 /\ Recalled = 2 * MaxFailures - 1
    BY AccessAssumption DEF Recalled
  <2>4. Sorted(a)
    BY <2>1, <2>3 DEF Sorted
  <2>5. NoWindowOK(a) /\ WindowOK(a) /\ FullOK(a)
    BY <2>1, <2>2, <2>3 DEF NoWindowOK, WindowOK, FullOK
  <2>6. PassedOK(a)
    BY <2>1 DEF PassedOK
  <2>7. Len(failed[a]) # Recalled
    BY <2>1, <2>3
  <2> QED
    BY <2>2, <2>4, <2>5, <2>6, <2>7 DEF LimiterOK
<1> QED
  BY <1>1, <1>2 DEF ThrottleInv

\* A login that succeeds leaves an address without failures.
LEMMA LimiterForgive ==
    ASSUME TypeOK, TypeOK', NEW a \in Addrs, failed'[a] = << >>,
           attempts'[a] = NoAttempt, serving' = Idle
    PROVE  LimiterOK(a)'
<1>1. Len(failed'[a]) = 0
  OBVIOUS
<1>2. attempts'[a].failures = 0 /\ attempts'[a].window_started = 0
  BY DEF NoAttempt
<1>3. MaxFailures \in Nat /\ MaxFailures >= 2 /\ Recalled = 2 * MaxFailures - 1
  BY AccessAssumption DEF Recalled
<1>4. Sorted(a)'
  BY <1>1, <1>3 DEF Sorted
<1>5. NoWindowOK(a)' /\ WindowOK(a)' /\ FullOK(a)'
  BY <1>1, <1>2, <1>3 DEF NoWindowOK, WindowOK, FullOK
<1>6. PassedOK(a)'
  BY DEF PassedOK, Idle
<1>7. Len(failed'[a]) # Recalled
  BY <1>1, <1>3
<1> QED
  BY <1>2, <1>4, <1>5, <1>6, <1>7 DEF LimiterOK

\* Every step keeps the limiter's invariant.
LEMMA ThrottleStep == ThrottleInv /\ [Next]_vars => ThrottleInv'
<1> SUFFICES ASSUME ThrottleInv, [Next]_vars PROVE ThrottleInv'
  OBVIOUS
<1>0. TypeOK /\ TypeOK'
  BY TypeStep DEF ThrottleInv
<1> USE <1>0
<1> SUFFICES ASSUME steps' = 0, NEW b \in Addrs PROVE LimiterOK(b)'
  BY DEF ThrottleInv
<1>n. now \in Int /\ now' \in Int /\ steps \in Nat
  BY AccessAssumption DEF TypeOK, Time
<1>s. ~StepClock /\ steps = 0
  <2>1. ~StepClock
    BY <1>n DEF StepClock
  <2>2. CASE UNCHANGED vars
    BY <2>1, <2>2 DEF vars
  <2>3. CASE Next
    BY <2>1, <2>3 DEF Next, Tick, LoginBlocked, LoginBadBody, LoginStart,
           LoginWrong, LoginRight, LoginNoToken, Unauthorized, NotRouted, Read,
           Forbidden, Write, Logout
  <2> QED
    BY <2>1, <2>2, <2>3
<1>i. LimiterOK(b)
  BY <1>s DEF ThrottleInv
<1>f. ASSUME failed'[b] = failed[b], attempts'[b] = attempts[b], now' >= now,
             serving' = serving \/ serving'.op # "login"
      PROVE  LimiterOK(b)'
  <2>1. attempts[b].blocked_until \in Int
    BY LimiterTyped
  <2>2. PassedOK(b)'
    BY <1>n, <1>f, <1>i, <2>1 DEF LimiterOK, PassedOK, Blocked
  <2> QED
    BY <1>f, <1>i, <2>2, LimiterFrame
<1>1. CASE Tick
  BY <1>1, <1>n, <1>f DEF Tick, limiter
<1>3. ASSUME NEW a \in Addrs, LoginBlocked(a) PROVE LimiterOK(b)'
  BY <1>3, <1>n, <1>f DEF LoginBlocked, limiter
<1>4. ASSUME NEW a \in Addrs, LoginBadBody(a) PROVE LimiterOK(b)'
  <2>1. failed' = failed /\ now' = now /\ serving' = serving /\ ~Blocked(a)
    BY <1>4 DEF LoginBadBody
  <2>2. attempts'[b] = IF b = a THEN Allowed(a) ELSE attempts[b]
    BY <1>4 DEF LoginBadBody, TypeOK
  <2>3. CASE b = a
    BY <1>i, <2>1, <2>2, <2>3, LimiterAllow
  <2>4. CASE b # a
    BY <1>n, <1>f, <2>1, <2>2, <2>4
  <2> QED
    BY <2>3, <2>4
<1>5. ASSUME NEW a \in Addrs, LoginStart(a) PROVE LimiterOK(b)'
  <2>1. failed' = failed /\ now' = now /\ ~Blocked(a) /\ serving'.peer = a
    BY <1>5 DEF LoginStart
  <2>2. attempts'[b] = IF b = a THEN Allowed(a) ELSE attempts[b]
    BY <1>5 DEF LoginStart, TypeOK
  <2>3. CASE b = a
    BY <1>i, <2>1, <2>2, <2>3, LimiterAllow
  <2>4. CASE b # a
    <3>1. PassedOK(b)'
      BY <2>1, <2>4 DEF PassedOK
    <3> QED
      BY <1>n, <1>i, <2>1, <2>2, <2>4, <3>1, LimiterFrame
  <2> QED
    BY <2>3, <2>4
<1>6. CASE LoginWrong
  <2> DEFINE a == serving.peer
  <2>1. a \in Addrs /\ now' = now /\ serving' = Idle /\ serving.op = "login"
    BY <1>6, ServingTyped DEF LoginWrong, store
  <2>2. /\ attempts'[b] = IF b = a THEN Failure(a) ELSE attempts[b]
        /\ failed'[b] = IF b = a THEN Append(Recall(failed[a]), now) ELSE failed[b]
    BY <1>6 DEF LoginWrong, TypeOK
  <2>3. CASE b = a
    <3>1. ~Blocked(b)
      BY <1>i, <2>1, <2>3 DEF LimiterOK, PassedOK
    <3> HIDE DEF a
    <3> QED
      BY <1>i, <2>1, <2>2, <2>3, <3>1, LimiterFail
  <2>4. CASE b # a
    BY <1>n, <1>f, <2>1, <2>2, <2>4 DEF Idle
  <2> QED
    BY <2>3, <2>4
<1>7. CASE LoginRight
  <2> DEFINE a == serving.peer
  <2>1. now' = now /\ serving' = Idle
    BY <1>7 DEF LoginRight
  <2>2. /\ attempts'[b] = IF b = a THEN NoAttempt ELSE attempts[b]
        /\ failed'[b] = IF b = a THEN << >> ELSE failed[b]
    BY <1>7 DEF LoginRight, TypeOK
  <2>3. CASE b = a
    BY <2>1, <2>2, <2>3, LimiterForgive
  <2>4. CASE b # a
    BY <1>n, <1>f, <2>1, <2>2, <2>4 DEF Idle
  <2> QED
    BY <2>3, <2>4
<1>8. CASE LoginNoToken
  BY <1>8, <1>n, <1>f DEF LoginNoToken, limiter, Idle
<1>9. ASSUME NEW t \in Cookies, Unauthorized(t) PROVE LimiterOK(b)'
  BY <1>9, <1>n, <1>f DEF Unauthorized, limiter
<1>10. ASSUME NEW t \in Cookies, NotRouted(t) PROVE LimiterOK(b)'
  BY <1>10, <1>n, <1>f DEF NotRouted, limiter
<1>11. ASSUME NEW t \in Cookies, NEW path \in Open, Read(path, t) PROVE LimiterOK(b)'
  BY <1>11, <1>n, <1>f DEF Read, limiter
<1>12. ASSUME NEW t \in Cookies, NEW h \in Cookies, NEW c \in Cookies,
              Forbidden(t, h, c)
       PROVE  LimiterOK(b)'
  BY <1>12, <1>n, <1>f DEF Forbidden, limiter
<1>13. ASSUME NEW path \in Mutating, NEW t \in Cookies, NEW h \in Cookies,
              NEW c \in Cookies, Write(path, t, h, c)
       PROVE  LimiterOK(b)'
  <2>1. serving'.op # "login"
    BY <1>13 DEF Write, Idle
  <2> QED
    BY <1>13, <1>n, <1>f, <2>1 DEF Write, limiter
<1>14. CASE Logout
  BY <1>14, <1>n, <1>f DEF Logout, limiter, Idle
<1>15. CASE UNCHANGED vars
  BY <1>15, <1>n, <1>f DEF vars, limiter
<1> QED
  BY <1>1, <1>s, <1>3, <1>4, <1>5, <1>6, <1>7, <1>8, <1>9, <1>10, <1>11, <1>12,
     <1>13, <1>14, <1>15 DEF Next

\* The limiter's invariant holds in every reachable state.
THEOREM ThrottleInvariance == Spec => []ThrottleInv
<1> QED
  BY ThrottleInit, ThrottleStep, PTL DEF Spec

\* While the clock is not stepped, no address gets more than 2 * MaxFailures - 2
\* wrong passwords past the limiter within a minute.
THEOREM ThrottleCorrect == Spec => []ThrottleBound
<1>1. ThrottleInv => ThrottleBound
  BY DEF ThrottleInv, ThrottleBound, LimiterOK
<1> QED
  BY <1>1, ThrottleInvariance, PTL

=============================================================================
