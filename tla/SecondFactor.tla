---------------------------- MODULE SecondFactor ----------------------------
(***************************************************************************)
(* Enrolling in and leaving the second factor: /auth/2fa of                *)
(* backend/app/api/auth_routes.py, with core/totp.py.  The handlers read   *)
(* the users row on one connection and write it on the next.               *)
(*                                                                         *)
(* A code is computed from a secret at hand: code c proves secret c.       *)
(* Login does not ask for a code (auth_routes.login), so the factor guards *)
(* nothing but its own removal.                                            *)
(***************************************************************************)
EXTENDS Integers

CONSTANTS
    Worker,     \* uvicorn worker processes
    User,       \* accounts, all of them signed in
    MaxSecret   \* bound: secrets generated for an account

Secret == 0 .. MaxSecret     \* 0: no secret

VARIABLES
    totp,       \* totp_secret of each account
    enabled,    \* accounts with totp_enabled
    issued,     \* how many secrets each account was given
    accepted,   \* history: the secret that was last proved in order to enable
    req         \* the request each worker serves

vars == <<totp, enabled, issued, accepted, req>>
Idle == [op |-> "idle"]

TypeOK ==
    /\ totp \in [User -> Secret] /\ issued \in [User -> Secret]
    /\ enabled \subseteq User
    /\ accepted \in [User -> Secret]
    /\ DOMAIN req = Worker

Init ==
    /\ totp = [u \in User |-> 0] /\ issued = [u \in User |-> 0]
    /\ enabled = {}
    /\ accepted = [u \in User |-> 0]
    /\ req = [w \in Worker |-> Idle]

Begin(w, r) == req[w] = Idle /\ req' = [req EXCEPT ![w] = r]
Finish(w)   == req' = [req EXCEPT ![w] = Idle]
At(w, op)   == req[w].op = op

\* verify_totp: no code proves an empty secret.
CodeProves(u, code) == totp[u] # 0 /\ totp[u] = code

\* POST /auth/2fa/setup: 409 once enabled.  The secret is shown to the user.
SetupRead_Again(w, u) ==
    /\ Begin(w, [op |-> "setup", user |-> u])
    /\ UNCHANGED <<totp, enabled, issued, accepted>>
SetupRead(w, u) ==
    /\ u \notin enabled
    /\ Begin(w, [op |-> "setup", user |-> u])
    /\ UNCHANGED <<totp, enabled, issued, accepted>>
SetupWrite(w) ==
    /\ At(w, "setup") /\ issued[req[w].user] < MaxSecret
    /\ issued' = [issued EXCEPT ![req[w].user] = @ + 1]
    /\ totp' = [totp EXCEPT ![req[w].user] = issued[req[w].user] + 1]
    /\ Finish(w)
    /\ UNCHANGED <<enabled, accepted>>

\* POST /auth/2fa/verify.
VerifyRead(w, u, code) ==
    /\ CodeProves(u, code)
    /\ Begin(w, [op |-> "verify", user |-> u, code |-> code])
    /\ UNCHANGED <<totp, enabled, issued, accepted>>
VerifyWrite(w) ==
    /\ At(w, "verify")
    /\ enabled' = enabled \cup {req[w].user}
    /\ accepted' = [accepted EXCEPT ![req[w].user] = req[w].code]
    /\ Finish(w)
    /\ UNCHANGED <<totp, issued>>

\* DELETE /auth/2fa.
DisableRead(w, u, code) ==
    /\ u \in enabled /\ CodeProves(u, code)
    /\ Begin(w, [op |-> "disable", user |-> u])
    /\ UNCHANGED <<totp, enabled, issued, accepted>>
DisableWrite(w) ==
    /\ At(w, "disable")
    /\ enabled' = enabled \ {req[w].user}
    /\ totp' = [totp EXCEPT ![req[w].user] = 0]
    /\ Finish(w)
    /\ UNCHANGED <<issued, accepted>>

Receive(w) ==
    \E u \in User :
        \/ SetupRead(w, u)
        \/ \E code \in Secret : VerifyRead(w, u, code) \/ DisableRead(w, u, code)
Proceed(w) == SetupWrite(w) \/ VerifyWrite(w) \/ DisableWrite(w)

Next == \E w \in Worker : Receive(w) \/ Proceed(w)

Spec == Init /\ [][Next]_vars

\* The factor is only ever on with a secret its owner has shown he holds; with
\* another one he could neither use it nor turn it off (auth_routes.setup_2fa,
\* verify_and_enable_2fa).  With a single worker process.
EnabledSecretWasAccepted == \A u \in enabled : totp[u] # 0 /\ totp[u] = accepted[u]
=============================================================================
