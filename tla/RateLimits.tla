----------------------------- MODULE RateLimits -----------------------------
(***************************************************************************)
(* What a worker process counts before it serves a request: requests and   *)
(* logins per address, failed logins per account, registrations per        *)
(* address, questions and uploads per user and per tenant.                 *)
(* backend/app/main.py (GlobalRateLimitMiddleware), api/auth_routes.py,    *)
(* api/chat_routes.py, api/document_routes.py, core/tenant.py              *)
(* (TenantQuotaEnforcer).                                                  *)
(*                                                                         *)
(* All of it lives in the memory of the process, and no handler awaits     *)
(* while it counts: a request is one step.  A list of times is the         *)
(* sequence of their ages; what has left its window is dropped as time     *)
(* passes, where the code drops it when it counts next.  Left out: the     *)
(* streamed questions, which only the middleware counts, and the watch for *)
(* repeated ones, which only logs.                                         *)
(***************************************************************************)
EXTENDS Integers, Sequences, FiniteSets

CONSTANTS
    Ip, Account, Tenant,
    \* windows, in some unit of time
    GLOBAL_RATE_WINDOW, LOGIN_WINDOW_SECONDS, FAILED_WINDOW,
    REGISTRATION_WINDOW_SECONDS, USER_QUERY_RATE_WINDOW, UPLOAD_RATE_WINDOW,
    QUERY_WINDOW, DAY, ACCOUNT_LOCKOUT_SECONDS,
    \* limits
    GLOBAL_RATE_LIMIT, MAX_LOGIN_ATTEMPTS_PER_IP, MAX_FAILED_PER_ACCOUNT,
    MAX_REGISTRATIONS_PER_IP, USER_QUERY_RATE_LIMIT, UPLOAD_RATE_LIMIT,
    queries_per_hour, uploads_per_day

VARIABLES
    log,    \* for each counter the ages of what it counted, oldest first
    lock,   \* _account_lockouts: the time an account stays locked
    wrong   \* history: the ages of the wrong passwords an account was tried with

vars == <<log, lock, wrong>>

-----------------------------------------------------------------------------
(* The counters *)

Window(k) ==
    CASE k[1] = "requests"      -> GLOBAL_RATE_WINDOW
      [] k[1] = "logins"        -> LOGIN_WINDOW_SECONDS
      [] k[1] = "failed"        -> FAILED_WINDOW
      [] k[1] = "registrations" -> REGISTRATION_WINDOW_SECONDS
      [] k[1] = "questions"     -> USER_QUERY_RATE_WINDOW
      [] k[1] = "uploading"     -> UPLOAD_RATE_WINDOW
      [] k[1] = "queries"       -> QUERY_WINDOW
      [] k[1] = "uploads"       -> DAY

Counters == ({"requests", "logins", "registrations"} \X Ip)
            \cup ({"failed", "questions", "uploading"} \X Account)
            \cup ({"queries", "uploads"} \X Tenant)

Noted(l, k) == [l EXCEPT ![k] = Append(@, 0)]

\* What is younger than the window counts: the last ones, as times are noted in order.
Aged(ages, window) ==
    LET young == Cardinality({i \in DOMAIN ages : ages[i] + 1 < window})
    IN  [i \in 1 .. young |-> ages[Len(ages) - young + i] + 1]

Init ==
    /\ log = [k \in Counters |-> <<>>]
    /\ lock = [a \in Account |-> 0]
    /\ wrong = [a \in Account |-> <<>>]

Tick ==
    /\ log' = [k \in Counters |-> Aged(log[k], Window(k))]
    /\ lock' = [a \in Account |-> IF lock[a] = 0 THEN 0 ELSE lock[a] - 1]
    /\ wrong' = [a \in Account |-> Aged(wrong[a], ACCOUNT_LOCKOUT_SECONDS)]

\* GlobalRateLimitMiddleware: a request gets through or is answered 429.
Passes(i) == Len(log[<<"requests", i>>]) < GLOBAL_RATE_LIMIT
Counted(i) == Noted(log, <<"requests", i>>)

\* A counter at its limit refuses the request.
Refuses(k, limit) == Len(log[k]) >= limit

-----------------------------------------------------------------------------
(* POST /auth/login *)

\* _check_rate_limit: the lock first, then the address.
Locked(a)    == lock[a] > 0
Crowded(i)   == Refuses(<<"logins", i>>, MAX_LOGIN_ATTEMPTS_PER_IP)
Attempted(i) == Noted(Counted(i), <<"logins", i>>)

LoginRefused(i, a) ==
    /\ Passes(i) /\ (Locked(a) \/ Crowded(i))
    /\ log' = Counted(i)
    /\ UNCHANGED <<lock, wrong>>

LoginRight(i, a) ==
    /\ Passes(i) /\ ~Locked(a) /\ ~Crowded(i)
    /\ log' = Attempted(i)
    /\ UNCHANGED <<lock, wrong>>

\* _record_failed_login: a list that is full stays so when the lock ends.
RecordFailed_LocksLate(i, a) ==
    LET l == Noted(Attempted(i), <<"failed", a>>)
    IN  /\ log' = l
        /\ lock' = [lock EXCEPT ![a] = IF Len(log[<<"failed", a>>]) >= MAX_FAILED_PER_ACCOUNT
                                       THEN ACCOUNT_LOCKOUT_SECONDS ELSE @]
RecordFailed(i, a) ==
    LET l == Noted(Attempted(i), <<"failed", a>>)
    IN  /\ log' = l
        /\ lock' = [lock EXCEPT ![a] = IF Len(l[<<"failed", a>>]) >= MAX_FAILED_PER_ACCOUNT
                                       THEN ACCOUNT_LOCKOUT_SECONDS ELSE @]

LoginWrong(i, a) ==
    /\ Passes(i) /\ ~Locked(a) /\ ~Crowded(i)
    /\ RecordFailed(i, a)
    /\ wrong' = [wrong EXCEPT ![a] = Append(@, 0)]

-----------------------------------------------------------------------------
(* The others *)

Served(next) == log' = next /\ UNCHANGED <<lock, wrong>>

\* POST /auth/register, of a valid name and password.
Register(i) ==
    LET k == <<"registrations", i>>
    IN  /\ Passes(i)
        /\ Served(IF Refuses(k, MAX_REGISTRATIONS_PER_IP) THEN Counted(i)
                  ELSE Noted(Counted(i), k))

\* POST /chat/query: what the tenant's quota refuses the user has spent.
Query(i, a, t) ==
    LET user == <<"questions", a>>
        tenant == <<"queries", t>>
        asked == Noted(Counted(i), user)
    IN  /\ Passes(i)
        /\ Served(IF Refuses(user, USER_QUERY_RATE_LIMIT) THEN Counted(i)
                  ELSE IF Refuses(tenant, queries_per_hour) THEN asked
                  ELSE Noted(asked, tenant))

\* POST /documents/upload: the tenant first, then the number of its documents,
\* then the user; what the last two refuse the tenant has spent.
Upload(i, a, t, room) ==
    LET user == <<"uploading", a>>
        tenant == <<"uploads", t>>
        sent == Noted(Counted(i), tenant)
    IN  /\ Passes(i)
        /\ Served(IF Refuses(tenant, uploads_per_day) THEN Counted(i)
                  ELSE IF ~room \/ Refuses(user, UPLOAD_RATE_LIMIT) THEN sent
                  ELSE Noted(sent, user))

\* POST /documents/upload-async: no tenant is asked.
UploadAsync(i, a) ==
    LET user == <<"uploading", a>>
    IN  /\ Passes(i)
        /\ Served(IF Refuses(user, UPLOAD_RATE_LIMIT) THEN Counted(i)
                  ELSE Noted(Counted(i), user))

Next ==
    \/ Tick
    \/ \E i \in Ip, a \in Account : LoginRefused(i, a) \/ LoginRight(i, a) \/ LoginWrong(i, a)
    \/ \E i \in Ip : Register(i)
    \/ \E i \in Ip, a \in Account, t \in Tenant :
          \/ Query(i, a, t) \/ UploadAsync(i, a)
          \/ \E room \in BOOLEAN : Upload(i, a, t, room)

Spec == Init /\ [][Next]_vars

-----------------------------------------------------------------------------
(* Properties *)

TypeOK ==
    /\ DOMAIN log = Counters
    /\ \A k \in Counters : \A i \in DOMAIN log[k] : log[k][i] \in 0..Window(k) - 1
    /\ lock \in [Account -> 0..ACCOUNT_LOCKOUT_SECONDS]
    /\ \A a \in Account : \A i \in DOMAIN wrong[a] : wrong[a][i] < ACCOUNT_LOCKOUT_SECONDS

\* However many addresses take part and however they space their attempts, the
\* logins of one process try an account with no more than MAX_FAILED_PER_ACCOUNT
\* wrong passwords in any stretch of ACCOUNT_LOCKOUT_SECONDS: not across the end of
\* a lock, which leaves the list full, nor around a login that succeeds
\* (_check_rate_limit, _record_failed_login). Each worker process counts for itself.
GuessesAreBounded ==
    \A a \in Account : Len(wrong[a]) <= MAX_FAILED_PER_ACCOUNT
=============================================================================
