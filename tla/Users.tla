------------------------------- MODULE Users -------------------------------
(***************************************************************************)
(* Accounts and who may change them: registration with its bootstrap       *)
(* roles, approval, suspension, role changes, creation by an               *)
(* administrator, single sign-on, erasure.  backend/app/api/auth_routes.py,*)
(* admin_routes.py, user_routes.py and core/permissions.py.                *)
(*                                                                         *)
(* Every handler first reads (the caller's role, then the account in       *)
(* question), decides, and writes in a later transaction.  Inside a worker *)
(* process no other request comes between, between workers one may.        *)
(*                                                                         *)
(* Left out: names, e-mail addresses and passwords (their checks refuse a  *)
(* request and change nothing), rate limits, the audit tables.             *)
(* X_Something beside X is X with a plausible bug, for the mutation checks.*)
(***************************************************************************)
EXTENDS Integers, FiniteSets

CONSTANTS
    Worker,      \* uvicorn worker processes
    Account,     \* user ids that may ever be issued
    Asked,       \* bound: roles that requests name, a subset of VALID_ROLES
    MaxBarred    \* bound: accounts suspended or without a password at a time

(* Roles, their levels, and who approves whom.  hr_head and hr_admin are one *)
(* role under two names, and so are admin and super_admin.                   *)
HrHead == {"hr_head", "hr_admin"}
Admin  == {"admin", "super_admin"}
VALID_ROLES == HrHead \cup Admin \cup {"hr_team", "manager", "employee"}
Level(role) ==
    CASE role \in Admin -> 100 [] role \in HrHead -> 50 [] role = "hr_team" -> 30
      [] role = "manager" -> 20 [] role = "employee" -> 10 [] OTHER -> 0

ASSUME AskedAssumption == Asked \subseteq VALID_ROLES

APPROVAL_CHAIN == [role \in {"employee", "hr_team", "manager", "hr_head"} |->
                       IF role = "hr_head" THEN Admin ELSE HrHead \cup Admin]
SELF_REGISTER_ROLES == {"employee", "hr_team"}

\* ROLE_PERMISSIONS, for the two permissions these handlers ask for.
HasPermission(role, permission) ==
    role \in CASE permission \in {"users.create", "users.change_role"} -> HrHead \cup Admin
               [] permission = "users.delete" -> Admin

VARIABLES
    acct,     \* table users: the rows that exist
    holders,  \* accounts that hold a valid access token
    req       \* the request each worker serves

vars == <<acct, holders, req>>

Row == [role : VALID_ROLES, requested : VALID_ROLES, suspended : BOOLEAN, password : BOOLEAN,
        status : {"pending_approval", "active", "rejected"}]
Users == DOMAIN acct
Idle  == [op |-> "idle"]

(* password: hashed_password is a hash that some password matches, not       *)
(* '[deleted]' or 'sso-auth'.                                                *)

(* Those whose requests to manage accounts are let in while they hold a token: *)
(* require_role(user, "hr_admin") asks for the role of the row and not for its *)
(* standing.  Barred are those whom login refuses whatever they type.          *)
InCharge == {u \in Users : Level(acct[u].role) >= 50}
Barred   == {u \in Users : acct[u].suspended \/ ~acct[u].password}
(* Those who can sign in and then manage accounts. *)
CanManage == {u \in InCharge \ Barred : acct[u].status # "pending_approval"}
WithRole(roles) == {u \in Users : acct[u].role \in roles}

TypeOK ==
    /\ Users \subseteq Account
    /\ \A u \in Users : acct[u] \in Row
    /\ holders \subseteq Users
    /\ DOMAIN req = Worker

Init ==
    /\ acct = [u \in {} |-> Idle]
    /\ holders = {}
    /\ req = [w \in Worker |-> Idle]

Begin(w, r)  == req[w] = Idle /\ req' = [req EXCEPT ![w] = r]
Finish(w)    == req' = [req EXCEPT ![w] = Idle]
At(w, op)    == req[w].op = op
Busy(op)     == {w \in Worker : req[w].op = op}
Fresh(u)     == u \in Account \ Users /\ u \notin {req[w].user : w \in Busy("register") \cup Busy("create")}
Insert(u, r) == acct' = [x \in Users \cup {u} |-> IF x = u THEN r ELSE acct[x]]

-----------------------------------------------------------------------------
(* Tokens, as far as accounts are concerned: login gives one to an account   *)
(* in good standing; nothing but time and logout takes it away.              *)

\* POST /auth/login.  Of the standings only 'pending_approval' is refused: a
\* registration that was rejected can log in.
Login(u) ==
    /\ u \in Users \ Barred /\ acct[u].status # "pending_approval"
    /\ holders' = holders \cup {u}
    /\ UNCHANGED <<acct, req>>

\* Logout, or the token expires.
TokenEnds(u) ==
    /\ u \in holders
    /\ holders' = holders \ {u}
    /\ UNCHANGED <<acct, req>>

\* get_current_user, then require_role(user, "hr_admin"): the role is the one of
\* the database, the standing of the account is not looked at.
Authorise(w, by, r) ==
    /\ by \in holders /\ Level(acct[by].role) >= 50
    /\ Begin(w, r)

-----------------------------------------------------------------------------
(* Registration *)

\* Bootstrap roles, allowed only when those roles do not exist yet.
BootstrapRoles_SkipsHead ==
    (IF WithRole(Admin) = {} THEN {"admin"} ELSE {}) \cup
    (IF WithRole({"hr_admin"}) = {} THEN {"hr_head"} ELSE {})
BootstrapRoles ==
    (IF WithRole(Admin) = {} THEN {"admin"} ELSE {}) \cup
    (IF WithRole(HrHead) = {} THEN {"hr_head"} ELSE {})

Registration(asked) ==
    LET requested == IF asked \in SELF_REGISTER_ROLES \cup BootstrapRoles
                     THEN asked ELSE "employee"
        bootstrap == requested \in BootstrapRoles
    IN  [role |-> IF bootstrap THEN requested ELSE "employee", requested |-> requested,
         status |-> IF bootstrap THEN "active" ELSE "pending_approval",
         suspended |-> FALSE, password |-> TRUE]

\* POST /auth/register: the counts are read on one connection ...
RegisterRead(w, u, asked) ==
    /\ Fresh(u)
    /\ Begin(w, [op |-> "register", user |-> u, row |-> Registration(asked)])
    /\ UNCHANGED <<acct, holders>>
\* ... and the row is inserted on the next.
RegisterWrite(w) ==
    /\ At(w, "register")
    /\ Insert(req[w].user, req[w].row)
    /\ Finish(w)
    /\ UNCHANGED holders
-----------------------------------------------------------------------------
(* Approval *)

\* The role an approval gives: the one it names, or else the one that was asked for.
Granted(named, requested, by) ==
    IF named \in DOMAIN APPROVAL_CHAIN /\ by \in APPROVAL_CHAIN[named] THEN named ELSE requested

\* POST /admin/users/{id}/approve.
ApproveAuth(w, by, u, action, named) ==
    /\ u \in Users
    /\ Authorise(w, by, [op |-> "approve", by |-> by, role |-> acct[by].role, user |-> u,
                         action |-> action, named |-> named])
    /\ UNCHANGED <<acct, holders>>
ApproveRead(w) ==
    /\ At(w, "approve")
    /\ LET r == req[w]
           row == acct[r.user]
           may == row.status = "pending_approval" /\ r.role \in APPROVAL_CHAIN[row.requested]
       IN req' = [req EXCEPT ![w] =
                  IF ~may THEN Idle
                  ELSE [op |-> "decide", user |-> r.user, by |-> r.by, action |-> r.action,
                        role |-> Granted(r.named, row.requested, r.role)]]
    /\ UNCHANGED <<acct, holders>>
ApproveWrite(w) ==
    /\ At(w, "decide")
    /\ acct' = IF req[w].action = "approve"
               THEN [acct EXCEPT ![req[w].user].status = "active",
                                 ![req[w].user].role = req[w].role]
               ELSE [acct EXCEPT ![req[w].user].status = "rejected"]
    /\ Finish(w)
    /\ UNCHANGED holders

-----------------------------------------------------------------------------
(* Suspension, roles, creation *)

\* POST /admin/users/{id}/suspend: a switch, thrown from what was read before.
SuspendAuth(w, by, u) ==
    /\ u \in Users \ {by} /\ Cardinality(Barred \ {u}) < MaxBarred
    /\ Authorise(w, by, [op |-> "suspend", by |-> by, user |-> u])
    /\ UNCHANGED <<acct, holders>>
SuspendRead(w) ==
    /\ At(w, "suspend")
    /\ req' = [req EXCEPT ![w] = [op |-> "switch", by |-> req[w].by, user |-> req[w].user,
                                  to |-> ~acct[req[w].user].suspended]]
    /\ UNCHANGED <<acct, holders>>
SuspendWrite(w) ==
    /\ At(w, "switch")
    /\ acct' = [acct EXCEPT ![req[w].user].suspended = req[w].to]
    /\ Finish(w)
    /\ UNCHANGED holders

\* PATCH /admin/users/{id}/role.
RoleAuth_OfAnyone(w, by, u, role) ==
    /\ u \in Users
    /\ HasPermission(acct[by].role, "users.change_role")
    /\ Authorise(w, by, [op |-> "role", by |-> by, user |-> u, role |-> role])
    /\ UNCHANGED <<acct, holders>>
RoleAuth_ByAnyone(w, by, u, role) ==
    /\ u \in Users \ {by}
    /\ Begin(w, [op |-> "role", by |-> by, user |-> u, role |-> role])
    /\ UNCHANGED <<acct, holders>>
RoleAuth(w, by, u, role) ==
    /\ u \in Users \ {by}
    /\ HasPermission(acct[by].role, "users.change_role")
    /\ Authorise(w, by, [op |-> "role", by |-> by, user |-> u, role |-> role])
    /\ UNCHANGED <<acct, holders>>
RoleWrite(w) ==
    /\ At(w, "role")
    /\ acct' = [acct EXCEPT ![req[w].user].role = req[w].role]
    /\ Finish(w)
    /\ UNCHANGED holders

\* POST /admin/users: the account is active at once.  The handler then fails on
\* a name it does not define (logger) and answers 500, but the row is committed.
CreateAuth(w, by, u, role) ==
    /\ Fresh(u) /\ HasPermission(acct[by].role, "users.create")
    /\ Authorise(w, by, [op |-> "create", by |-> by, user |-> u, role |-> role])
    /\ UNCHANGED <<acct, holders>>
CreateWrite(w) ==
    /\ At(w, "create")
    /\ Insert(req[w].user, [role |-> req[w].role, requested |-> "employee", status |-> "active",
                            suspended |-> FALSE, password |-> TRUE])
    /\ Finish(w)
    /\ UNCHANGED holders

-----------------------------------------------------------------------------
(* Single sign-on and erasure *)

\* GET /auth/sso/callback for an e-mail address no account has.  What follows the
\* INSERT calls create_access_token without its second argument and fails, so
\* nobody is signed in; an address that has an account fails at the same place.
SsoProvision(w, u) ==
    /\ req[w] = Idle /\ Fresh(u) /\ Cardinality(Barred) < MaxBarred
    /\ Insert(u, [role |-> "employee", requested |-> "employee", status |-> "active",
                  suspended |-> FALSE, password |-> FALSE])
    /\ UNCHANGED <<holders, req>>

\* DELETE /user/data keeps the row; the caller's access token stays valid.
EraseAuth(w, u) ==
    /\ u \in holders /\ Cardinality(Barred \ {u}) < MaxBarred
    /\ Begin(w, [op |-> "erase", user |-> u])
    /\ UNCHANGED <<acct, holders>>
EraseWrite(w) ==
    /\ At(w, "erase")
    /\ acct' = [acct EXCEPT ![req[w].user].password = FALSE]
    /\ Finish(w)
    /\ UNCHANGED holders

\* A password reset (by secret answer or by code) gives any account a password.
PasswordReset(u) ==
    /\ u \in Users /\ ~acct[u].password
    /\ acct' = [acct EXCEPT ![u].password = TRUE]
    /\ UNCHANGED <<holders, req>>

-----------------------------------------------------------------------------

Receive(w) ==
    \/ \E u \in Account, role \in Asked : RegisterRead(w, u, role)
    \/ \E u \in Account : SsoProvision(w, u)
    \/ \E by \in holders :
          \/ \E u \in Users, role \in Asked, action \in {"approve", "reject"} :
                ApproveAuth(w, by, u, action, role)
          \/ \E u \in Users : SuspendAuth(w, by, u)
          \/ \E u \in Users, role \in Asked : RoleAuth(w, by, u, role)
          \/ \E u \in Account, role \in Asked : CreateAuth(w, by, u, role)
          \/ EraseAuth(w, by)

Proceed(w) ==
    \/ RegisterWrite(w)
    \/ ApproveRead(w)
    \/ ApproveWrite(w)
    \/ SuspendRead(w)
    \/ SuspendWrite(w)
    \/ RoleWrite(w)
    \/ CreateWrite(w)
    \/ EraseWrite(w)

Next ==
    \/ \E w \in Worker : Receive(w) \/ Proceed(w)
    \/ \E u \in Users : Login(u) \/ TokenEnds(u) \/ PasswordReset(u)

Spec == Init /\ [][Next]_vars

-----------------------------------------------------------------------------
(* What the accounts promise, with a single worker process *)

\* The last account that can sign in and manage accounts is lost in two ways only:
\* it erases itself, or somebody who is barred himself, and acts on a token that
\* outlived that, suspends or demotes it.  Whoever could sign in himself leaves
\* himself behind, as nobody suspends himself or changes his own role
\* (admin_routes.suspend_user, update_user_role).
LastManagerIsSafe ==
    [][CanManage # {} /\ CanManage' = {} =>
          \/ \E w \in Busy("erase") : req[w].user \in CanManage
          \/ \E w \in Busy("switch") \cup Busy("role") : req[w].by \in Barred]_vars

\* Authority is given by somebody else who has it while he gives it: whoever
\* approves, promotes or creates (admin_routes) has the role for it when the row is
\* written, and is not the one he promotes.  The one exception is a registration
\* as the first administrator or HR head (auth_routes.register, "when those roles
\* don't exist yet").
AuthorityIsGiven ==
    [][\A u \in InCharge' \ InCharge :
          \/ \E w \in Busy("decide") \cup Busy("role") \cup Busy("create") :
                req[w].user = u /\ req[w].by \in InCharge \ {u}
          \/ u \notin Users /\ acct'[u].role = "admin" /\ WithRole(Admin) = {}
          \/ u \notin Users /\ acct'[u].role = "hr_head" /\ WithRole(HrHead) = {}]_vars

\* Nobody appoints himself to a role that somebody has, however many requests,
\* demotions and approvals came before (auth_routes.register): whoever asked for
\* "admin" and has it found no administrator.
BootstrapOnlyWhenVacant ==
    [][\A u \in Users' \ Users :
          /\ acct'[u].requested \in Admin => WithRole(Admin) = {}
          /\ acct'[u].requested \in HrHead => WithRole(HrHead) = {}]_vars
=============================================================================
