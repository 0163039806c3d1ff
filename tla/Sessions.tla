------------------------------ MODULE Sessions ------------------------------
(***************************************************************************)
(* Tokens and passwords: backend/app/api/auth_routes.py, core/security.py, *)
(* services/email_service.py and the erasure of user_routes.py.            *)
(*                                                                         *)
(* A session is what one login or one refresh hands out: an access token,  *)
(* valid everywhere until it expires unless the worker that is asked holds *)
(* it in its blocklist, and a refresh token, a row of refresh_tokens that  *)
(* lives until it is exchanged, revoked, deleted or expires.  Each step is *)
(* one transaction of a handler; workers interleave between steps.         *)
(*                                                                         *)
(* Accounts stay as they are here (see Users): all may log in.  Left out:  *)
(* rate limits and account lockout, which refuse requests, and audit rows. *)
(* X_Something beside X is X with a plausible bug, for the mutation checks.*)
(***************************************************************************)
EXTENDS Integers, FiniteSets

CONSTANTS
    Worker,       \* uvicorn worker processes
    User,         \* accounts
    MaxSessions,  \* bound: sessions ever issued
    MaxEpoch,     \* bound: password resets and erasures of an account
    MaxCode       \* bound: one-time codes issued to an account

SessionId == 1 .. MaxSessions

VARIABLES
    sess,      \* the sessions issued so far
    access,    \* sessions whose access token has not expired
    blocked,   \* _revoked_tokens of each worker, as sessions
    cred,      \* what the users row holds of each account's credentials
    epoch,     \* history: how often the account's sessions were to end
    spent,     \* history: one-time codes that reset a password
    req        \* the request each worker serves

vars == <<sess, access, blocked, cred, epoch, spent, req>>
history == <<epoch, spent>>

(* password: a password is set (not '[deleted]').  slot: verification_token,  *)
(* which a reset by secret answer and a one-time code share: the number of    *)
(* the code, 0 for anything else.  sent: the codes mailed to the account.     *)
Credentials == [password : BOOLEAN, slot : 0 .. MaxCode, codes : 0 .. MaxCode,
                sent : SUBSET (1 .. MaxCode)]
Session == [user : User, parent : 0 .. MaxSessions, epoch : 0 .. MaxEpoch,
            live : BOOLEAN]
Issued == DOMAIN sess
Idle == [op |-> "idle"]
Live(s) == sess[s].live

TypeOK ==
    /\ Issued = 1 .. Cardinality(Issued) /\ Issued \subseteq SessionId
    /\ \A s \in Issued : sess[s] \in Session
    /\ access \subseteq Issued
    /\ blocked \in [Worker -> SUBSET SessionId]
    /\ cred \in [User -> Credentials]
    /\ epoch \in [User -> 0 .. MaxEpoch]
    /\ spent \in [User -> SUBSET (1 .. MaxCode)]
    /\ DOMAIN req = Worker

Init ==
    /\ sess = [s \in {} |-> Idle]
    /\ access = {}
    /\ blocked = [w \in Worker |-> {}]
    /\ cred = [u \in User |-> [password |-> TRUE, slot |-> 0, codes |-> 0, sent |-> {}]]
    /\ epoch = [u \in User |-> 0]
    /\ spent = [u \in User |-> {}]
    /\ req = [w \in Worker |-> Idle]

Begin(w, r)      == req[w] = Idle /\ req' = [req EXCEPT ![w] = r]
At(w, op)        == req[w].op = op
Continue(w, r)   == req' = [req EXCEPT ![w] = r]
Ending(u)        == [op |-> "revoke_all", user |-> u]
SetCred(u, c)    == cred' = [cred EXCEPT ![u] = c]
\* UPDATE or DELETE refresh_tokens.  validate_refresh_token answers None for a row
\* that is revoked, expired or gone, and no handler tells these apart.
Revoke(S) == sess' = [s \in Issued |-> [sess[s] EXCEPT !.live = @ /\ s \notin S]]
SessionsOf(u) == {s \in Issued : sess[s].user = u}

-----------------------------------------------------------------------------
(* Login, refresh, logout *)

\* POST /auth/login with the right password.
LoginRead(w, u) ==
    /\ cred[u].password
    /\ Begin(w, [op |-> "issue", user |-> u, parent |-> 0, epoch |-> epoch[u]])
    /\ UNCHANGED <<sess, access, blocked, cred, history>>

\* create_access_token, create_refresh_token.
Issue(w) ==
    /\ At(w, "issue") /\ Cardinality(Issued) < MaxSessions
    /\ LET s == Cardinality(Issued) + 1
           r == req[w]
       IN  /\ sess' = [x \in Issued \cup {s} |->
                 IF x = s THEN [user |-> r.user, parent |-> r.parent, epoch |-> r.epoch,
                                live |-> TRUE]
                 ELSE sess[x]]
           /\ access' = access \cup {s}
    /\ Continue(w, Idle)
    /\ UNCHANGED <<blocked, cred, history>>

\* POST /auth/refresh: validate, revoke, issue, in three transactions.
Refresh(w, s) ==
    /\ Live(s)
    /\ Begin(w, [op |-> "rotate", user |-> sess[s].user, parent |-> s, epoch |-> sess[s].epoch])
    /\ UNCHANGED <<sess, access, blocked, cred, history>>
Rotate_KeepsOld(w) ==
    /\ At(w, "rotate")
    /\ Continue(w, [req[w] EXCEPT !.op = "issue"])
    /\ UNCHANGED <<sess, access, blocked, cred, history>>
Rotate(w) ==
    /\ At(w, "rotate")
    /\ Revoke({req[w].parent})
    /\ Continue(w, [req[w] EXCEPT !.op = "issue"])
    /\ UNCHANGED <<access, blocked, cred, history>>

\* POST /auth/logout, with a refresh token in the body (with = its session) or
\* without one (with = 0).  The blocklist is this process's own.
Logout(w, s, with) ==
    /\ req[w] = Idle /\ s \in access
    /\ blocked' = [blocked EXCEPT ![w] = @ \cup {s}]
    /\ Revoke(IF with = 0 THEN SessionsOf(sess[s].user) ELSE {with})
    /\ UNCHANGED <<access, cred, history, req>>

\* revoke_all_user_refresh_tokens, the last step of a reset and of an erasure.
RevokeAll_Newest(w) ==
    /\ At(w, "revoke_all")
    /\ Revoke({s \in SessionsOf(req[w].user) : \A t \in SessionsOf(req[w].user) : t <= s})
    /\ Continue(w, Idle)
    /\ UNCHANGED <<access, blocked, cred, history>>
RevokeAll(w) ==
    /\ At(w, "revoke_all")
    /\ Revoke(SessionsOf(req[w].user))
    /\ Continue(w, Idle)
    /\ UNCHANGED <<access, blocked, cred, history>>

\* Time.  A restart of a worker empties its blocklist.
AccessExpires(s) ==
    /\ access' = access \ {s}
    /\ UNCHANGED <<sess, blocked, cred, history, req>>
RefreshExpires(s) ==
    /\ Live(s)
    /\ Revoke({s})
    /\ UNCHANGED <<access, blocked, cred, history, req>>

\* get_current_user at worker w with the access token of session s.
Authorised(w, s) == s \in access \ blocked[w]

-----------------------------------------------------------------------------
(* Passwords *)

NewEpoch(u) == epoch[u] < MaxEpoch /\ epoch' = [epoch EXCEPT ![u] = @ + 1]

\* POST /auth/verify-secret: the reset token it stores overwrites a one-time code,
\* and nothing ever asks for it.
VerifySecret(w, u) ==
    /\ req[w] = Idle /\ cred[u].slot # 0
    /\ SetCred(u, [cred[u] EXCEPT !.slot = 0])
    /\ UNCHANGED <<sess, access, blocked, history, req>>

\* POST /auth/reset-password with the right answer.
ResetBySecret(w, u) ==
    /\ NewEpoch(u)
    /\ SetCred(u, [cred[u] EXCEPT !.password = TRUE, !.slot = 0])
    /\ Begin(w, Ending(u))
    /\ UNCHANGED <<sess, access, blocked, spent>>

\* POST /auth/change-password, with an access token that any worker takes until it
\* expires, blocked or not. The password is checked in one transaction and written
\* in another; no session ends.
ChangeRead(w, s) ==
    /\ s \in access /\ cred[sess[s].user].password
    /\ Begin(w, [op |-> "change", user |-> sess[s].user])
    /\ UNCHANGED <<sess, access, blocked, cred, history>>
ChangeWrite(w) ==
    /\ At(w, "change")
    /\ cred' = [cred EXCEPT ![req[w].user].password = TRUE]
    /\ Continue(w, Idle)
    /\ UNCHANGED <<sess, access, blocked, history>>

\* POST /auth/request-otp: the code is stored before it is mailed; mailing may fail.
RequestOtp(w, u, delivered) ==
    /\ req[w] = Idle /\ cred[u].codes < MaxCode
    /\ LET code == cred[u].codes + 1
       IN SetCred(u, [cred[u] EXCEPT !.slot = code, !.codes = code,
                                     !.sent = IF delivered THEN @ \cup {code} ELSE @])
    /\ UNCHANGED <<sess, access, blocked, history, req>>

\* POST /auth/reset-with-otp: verify_otp, then the password, clear_otp, and the
\* refresh tokens, each in a transaction of its own.
OtpMatches(u, code) == code \in cred[u].sent /\ cred[u].slot = code
OtpRead(w, u, code) ==
    /\ OtpMatches(u, code)
    /\ Begin(w, [op |-> "otp", user |-> u, code |-> code])
    /\ UNCHANGED <<sess, access, blocked, cred, history>>
OtpPassword(w) ==
    /\ At(w, "otp")
    /\ NewEpoch(req[w].user)
    /\ cred' = [cred EXCEPT ![req[w].user].password = TRUE]
    /\ spent' = [spent EXCEPT ![req[w].user] = @ \cup {req[w].code}]
    /\ Continue(w, [op |-> "otp_clear", user |-> req[w].user])
    /\ UNCHANGED <<sess, access, blocked>>
OtpClear_Forgotten(w) ==
    /\ At(w, "otp_clear")
    /\ Continue(w, Ending(req[w].user))
    /\ UNCHANGED <<sess, access, blocked, cred, history>>
OtpClear(w) ==
    /\ At(w, "otp_clear")
    /\ cred' = [cred EXCEPT ![req[w].user].slot = 0]
    /\ Continue(w, Ending(req[w].user))
    /\ UNCHANGED <<sess, access, blocked, history>>
OtpExpires(u) ==
    /\ cred[u].slot # 0
    /\ cred' = [cred EXCEPT ![u].slot = 0]
    /\ UNCHANGED <<sess, access, blocked, history, req>>

\* DELETE /user/data: the tokens are deleted with the rest, then revoked again.
Erase(w, s) ==
    /\ Authorised(w, s)
    /\ NewEpoch(sess[s].user)
    /\ cred' = [cred EXCEPT ![sess[s].user].password = FALSE]
    /\ Revoke(SessionsOf(sess[s].user))
    /\ Begin(w, Ending(sess[s].user))
    /\ UNCHANGED <<access, blocked, spent>>

-----------------------------------------------------------------------------

Receive(w) ==
    \/ \E u \in User :
          \/ LoginRead(w, u)
          \/ VerifySecret(w, u)
          \/ ResetBySecret(w, u)
          \/ \E delivered \in BOOLEAN : RequestOtp(w, u, delivered)
          \/ \E code \in 1 .. MaxCode : OtpRead(w, u, code)
    \/ \E s \in Issued :
          \/ Refresh(w, s)
          \/ \E with \in {0} \cup Issued : Logout(w, s, with)
          \/ ChangeRead(w, s)
          \/ Erase(w, s)

Proceed(w) ==
    \/ Issue(w)
    \/ Rotate(w)
    \/ RevokeAll(w)
    \/ ChangeWrite(w)
    \/ OtpPassword(w)
    \/ OtpClear(w)

Time == \/ \E s \in Issued : AccessExpires(s) \/ RefreshExpires(s)
        \/ \E u \in User : OtpExpires(u)

Next == Time \/ \E w \in Worker : Receive(w) \/ Proceed(w)

Spec == Init /\ [][Next]_vars

-----------------------------------------------------------------------------
(* What sessions promise, with a single worker process *)

\* A refresh token is exchanged once: rotation makes a line of sessions, not a tree
\* (auth_routes.refresh, "Rotate: revoke old refresh token, issue new pair").
RotationIsLinear ==
    \A s, t \in Issued : sess[s].parent # 0 /\ sess[s].parent = sess[t].parent => s = t

\* Once a reset or an erasure is over, no session that was opened before it can be
\* refreshed, neither it nor one that came from it by refreshing
\* (auth_routes.reset_password, reset_password_with_otp, user_routes.delete_user_data).
ResetEndsSessions ==
    \A s \in Issued :
        Live(s) /\ sess[s].epoch # epoch[sess[s].user] =>
            \E w \in Worker : req[w].op \in {"otp_clear", "revoke_all"} /\ req[w].user = sess[s].user

\* A one-time code resets a password once, whatever other codes, answers and
\* resets come between (email_service.verify_otp, clear_otp).
CodeIsSpentOnce ==
    \A u \in User, code \in 1 .. MaxCode :
        code \in spent[u] => ~\E w \in Worker : req[w].op = "otp" /\ req[w].user = u /\ req[w].code = code
=============================================================================
