--------------------------- MODULE AccountsProofs ---------------------------
(***************************************************************************)
(* Proofs about accounts: Sessions, SecondFactor and Users, for any number *)
(* of users, sessions, codes and secrets, and one worker process.          *)
(*                                                                         *)
(* OneWorker is the hypothesis of every theorem and not a convenience: the *)
(* properties are false with two workers, because each handler writes what *)
(* it decided on from rows it read before; with one worker no other        *)
(* request runs in between, only time passes and tokens end.  README.md    *)
(* says where the code meets it.                                           *)
(*                                                                         *)
(* SInv, FInv and UInv are the inductive invariants.  Each says what the   *)
(* request under way still knows to be true of the rows it has read: that  *)
(* the session it replaces has no other successor and is revoked           *)
(* (Opening), that the code it spends has not been spent (Codes), that the *)
(* secret it enables is the one that was accepted (Enrolling), that        *)
(* whoever gives authority still has it (Informed).                        *)
(***************************************************************************)
EXTENDS MCAccounts, FiniteSetTheorems, TLAPS

OneWorker == \A v, w \in Worker : v = w

-----------------------------------------------------------------------------
(* Sessions *)

Opener == [op : {"issue", "rotate"}, user : User, parent : Nat, epoch : Nat]
SReq ==
    [op : {"idle"}] \cup Opener
    \cup [op : {"change", "otp_clear", "revoke_all"}, user : User]
    \cup [op : {"otp"}, user : User, code : Nat]

SessionRow == [user : User, parent : Nat, epoch : Nat, live : BOOLEAN]
CredRow    == [password : BOOLEAN, slot : Nat, codes : Nat, sent : SUBSET Nat]

STypes ==
    /\ \E n \in Nat : DOMAIN sess = 1 .. n
    /\ \A s \in S!Issued : sess[s] \in SessionRow
    /\ access \subseteq S!Issued
    /\ cred \in [User -> CredRow]
    /\ epoch \in [User -> Nat]
    /\ spent \in [User -> SUBSET Nat]
    /\ sreq \in [Worker -> SReq]

(* A session that was exchanged is not live. *)
Lineage ==
    \A s \in S!Issued : sess[s].parent # 0 =>
        sess[s].parent \in S!Issued /\ ~S!Live(sess[s].parent)

Childless(p) == \A s \in S!Issued : sess[s].parent # p

(* A login or a refresh under way. *)
Opening ==
    \A w \in Worker : sreq[w].op \in {"issue", "rotate"} =>
        /\ sreq[w].epoch = epoch[sreq[w].user]
        /\ sreq[w].parent # 0 =>
              /\ sreq[w].parent \in S!Issued
              /\ Childless(sreq[w].parent)
              /\ sreq[w].op = "issue" => ~S!Live(sreq[w].parent)

(* One-time codes are numbered as they are issued; a code that was spent is  *)
(* in its slot only until the request that spent it clears it.               *)
Codes ==
    /\ \A u \in User : cred[u].slot <= cred[u].codes
    /\ \A u \in User : \A c \in spent[u] :
          /\ c <= cred[u].codes
          /\ cred[u].slot = c /\ c # 0 =>
                \E w \in Worker : sreq[w].op = "otp_clear" /\ sreq[w].user = u
    /\ \A w \in Worker : sreq[w].op = "otp" =>
          /\ sreq[w].code <= cred[sreq[w].user].codes
          /\ sreq[w].code \notin spent[sreq[w].user]

SInv == STypes /\ Lineage /\ Opening /\ Codes /\ RotationIsLinear /\ ResetEndsSessions

(* SInv holds when the program starts.                                       *)
LEMMA SInit == S!Init => SInv
  <1> SUFFICES ASSUME S!Init PROVE SInv
    OBVIOUS
  <1>1. DOMAIN sess = {} /\ DOMAIN sess = 1 .. 0
    BY DEF S!Init
  <1>2. \A w \in Worker : sreq[w] = [op |-> "idle"]
    BY DEF S!Init, S!Idle
  <1>3. STypes
    BY <1>1 DEF S!Init, STypes, S!Issued, S!Idle, SReq, Opener, CredRow
  <1>4. Lineage /\ RotationIsLinear /\ ResetEndsSessions
    BY <1>1 DEF Lineage, RotationIsLinear, ResetEndsSessions, S!RotationIsLinear, S!ResetEndsSessions, S!Issued
  <1>5. Opening /\ Codes
    BY <1>2 DEF Opening, Codes, S!Init
  <1> QED
    BY <1>3, <1>4, <1>5 DEF SInv

(* What revoking does to the rows. *)
LEMMA RevokeRows ==
    ASSUME STypes, NEW R, S!Revoke(R)
    PROVE  /\ DOMAIN sess' = DOMAIN sess
           /\ \A s \in S!Issued :
                 /\ sess'[s] \in SessionRow
                 /\ sess'[s].user = sess[s].user
                 /\ sess'[s].parent = sess[s].parent
                 /\ sess'[s].epoch = sess[s].epoch
                 /\ sess'[s].live <=> sess[s].live /\ s \notin R
  BY DEF S!Revoke, S!Issued, STypes, SessionRow

(* STEPS *)
(* Steps that change neither the sessions nor the epochs nor what was spent. *)
LEMMA LoginReadInv ==
    ASSUME OneWorker, SInv, NEW w \in Worker, NEW u \in User, S!LoginRead(w, u)
    PROVE  SInv'
  <1> DEFINE r == [op |-> "issue", user |-> u, parent |-> 0, epoch |-> epoch[u]]
  <1>1. sreq[w] = [op |-> "idle"] /\ sreq' = [sreq EXCEPT ![w] = r]
    BY DEF S!LoginRead, S!Begin, S!Idle
  <1>2. UNCHANGED <<sess, access, blocked, cred, epoch, spent>>
    BY DEF S!LoginRead, S!history
  <1>3. r \in SReq
    BY DEF SInv, STypes, SReq, Opener
  <1>4. \A v \in Worker : sreq'[v] = r /\ sreq[v] = [op |-> "idle"]
    BY <1>1 DEF OneWorker, SInv, STypes
  <1>5. STypes'
    BY <1>1, <1>2, <1>3 DEF SInv, STypes, S!Issued
  <1>6. Lineage' /\ RotationIsLinear'
    BY <1>2 DEF SInv, Lineage, RotationIsLinear, S!RotationIsLinear, S!Issued, S!Live
  <1>7. Opening'
    BY <1>2, <1>4 DEF Opening
  <1>8. Codes'
    BY <1>2, <1>4 DEF SInv, Codes
  <1>9. ResetEndsSessions'
    BY <1>2, <1>4 DEF SInv, ResetEndsSessions, S!ResetEndsSessions, S!Issued, S!Live
  <1> QED
    BY <1>5, <1>6, <1>7, <1>8, <1>9 DEF SInv

(* Sessions counts with an instance of FiniteSets of its own.                *)
LEMMA SameCardinality == \A T : S!Cardinality(T) = Cardinality(T)
  BY Zenon DEF S!Cardinality, Cardinality

(* create_session: a row for a new session, which replaces one that is       *)
(* revoked.                                                                  *)
LEMMA IssueInv ==
    ASSUME OneWorker, SInv, NEW w \in Worker, S!Issue(w)
    PROVE  SInv'
  <1> DEFINE r == sreq[w]
  <1>1. PICK n \in Nat : DOMAIN sess = 1 .. n
    BY DEF SInv, STypes
  <1>2. S!Cardinality(S!Issued) = n
    BY <1>1, FS_Interval, SameCardinality DEF S!Issued
  <1>3. r \in SReq /\ r.op = "issue" /\ r.user \in User /\ r.parent \in Nat /\ r.epoch \in Nat
    BY DEF S!Issue, S!At, SInv, STypes, SReq, Opener
  <1> DEFINE new == [user |-> r.user, parent |-> r.parent, epoch |-> r.epoch, live |-> TRUE]
  <1>4. /\ DOMAIN sess' = 1 .. n + 1
        /\ sess'[n + 1] = new /\ new \in SessionRow
        /\ \A s \in 1 .. n : sess'[s] = sess[s]
    BY <1>1, <1>2, <1>3 DEF S!Issue, S!Issued, SessionRow
  <1>5. /\ access' = access \cup {n + 1}
        /\ UNCHANGED <<blocked, cred, epoch, spent>>
        /\ sreq' = [sreq EXCEPT ![w] = [op |-> "idle"]]
    BY <1>2 DEF S!Issue, S!Continue, S!Idle, S!history
  <1>6. \A v \in Worker : sreq'[v] = [op |-> "idle"] /\ v = w
    BY <1>5 DEF OneWorker, SInv, STypes
  <1>7. sreq' \in [Worker -> SReq]
    BY <1>5 DEF SInv, STypes, SReq
  <1>8. STypes'
    BY <1>1, <1>4, <1>5, <1>6, <1>7 DEF SInv, STypes, S!Issued
  <1>9. r.parent # 0 => r.parent \in 1 .. n /\ ~S!Live(r.parent) /\ Childless(r.parent)
    BY <1>1, <1>3 DEF SInv, Opening, S!Issued
  <1>10. Lineage'
    BY <1>1, <1>3, <1>4, <1>9 DEF SInv, Lineage, S!Issued, S!Live
  <1>11. RotationIsLinear'
    BY <1>1, <1>3, <1>4, <1>9 DEF SInv, Childless, RotationIsLinear, S!RotationIsLinear, S!Issued
  <1>12. Opening' /\ Codes'
    BY <1>5, <1>6, <1>3 DEF SInv, Opening, Codes
  <1>13. ResetEndsSessions'
    <2>1. r.epoch = epoch[r.user]
      BY <1>3 DEF SInv, Opening
    <2> QED
      BY <1>1, <1>3, <1>4, <1>5, <1>6, <2>1
         DEF OneWorker, SInv, ResetEndsSessions, S!ResetEndsSessions, S!Issued, S!Live
  <1> QED
    BY <1>8, <1>10, <1>11, <1>12, <1>13 DEF SInv

(* Every other step leaves the sessions as they are, or ends some. *)
Fades ==
    /\ DOMAIN sess' = DOMAIN sess
    /\ \A s \in S!Issued :
          /\ sess'[s] \in SessionRow
          /\ sess'[s].user = sess[s].user
          /\ sess'[s].parent = sess[s].parent
          /\ sess'[s].epoch = sess[s].epoch
          /\ sess'[s].live => sess[s].live

(* Sessions that only end keep the lines of succession.                      *)
LEMMA FadesKeep ==
    ASSUME STypes, Lineage, RotationIsLinear, Fades
    PROVE  /\ Lineage' /\ RotationIsLinear'
           /\ \A p : Childless(p) => Childless(p)'
  BY DEF STypes, SessionRow, Lineage, RotationIsLinear, S!RotationIsLinear, S!Issued, S!Live,
         Fades, Childless

LEMMA SameFades == STypes /\ sess' = sess => Fades
  BY DEF STypes, S!Issued, Fades
LEMMA RevokeFades == ASSUME STypes, NEW R, S!Revoke(R) PROVE Fades
  BY RevokeRows DEF Fades

(* With one worker, a request that begins or goes on is the only one. *)
LEMMA OneRequest ==
    ASSUME OneWorker, STypes, NEW w \in Worker, NEW r, sreq' = [sreq EXCEPT ![w] = r]
    PROVE  \A v \in Worker : v = w /\ sreq'[v] = r
  BY DEF OneWorker, STypes

(* refresh_token, from its read of the session it exchanges.                 *)
LEMMA RefreshInv ==
    ASSUME OneWorker, SInv, NEW w \in Worker, NEW s \in S!Issued, S!Refresh(w, s)
    PROVE  SInv'
  <1> DEFINE r == [op |-> "rotate", user |-> sess[s].user, parent |-> s, epoch |-> sess[s].epoch]
  <1>1. /\ sreq[w] = [op |-> "idle"] /\ sreq' = [sreq EXCEPT ![w] = r]
        /\ S!Live(s)
        /\ UNCHANGED <<sess, access, blocked, cred, epoch, spent>>
    BY DEF S!Refresh, S!Begin, S!Idle, S!history
  <1>2. s \in Nat /\ s # 0 /\ sess[s] \in SessionRow
    BY DEF SInv, STypes, S!Issued
  <1>3. r \in SReq
    BY <1>2 DEF SReq, Opener, SessionRow
  <1>4. \A v \in Worker : v = w /\ sreq'[v] = r
    BY <1>1, OneRequest DEF SInv
  <1>5. STypes'
    BY <1>1, <1>3 DEF SInv, STypes, S!Issued
  <1>6. Lineage' /\ RotationIsLinear' /\ (Childless(s) => Childless(s)')
    BY <1>1, SameFades, FadesKeep DEF SInv
  <1>7. Childless(s)
    BY <1>1, <1>2 DEF SInv, Lineage, Childless
  <1>8. sess[s].epoch = epoch[sess[s].user]
    BY <1>1 DEF SInv, ResetEndsSessions, S!ResetEndsSessions, S!Live, OneWorker
  <1>9. Opening'
    BY <1>1, <1>4, <1>6, <1>7, <1>8 DEF Opening, S!Issued
  <1>10. Codes'
    BY <1>1, <1>4 DEF SInv, Codes
  <1>11. ResetEndsSessions'
    BY <1>1, <1>4 DEF SInv, ResetEndsSessions, S!ResetEndsSessions, S!Issued, S!Live
  <1> QED
    BY <1>5, <1>6, <1>9, <1>10, <1>11 DEF SInv

(* A rotation goes on as the creation of a session.                          *)
LEMMA AsIssue ==
    ASSUME NEW q \in Opener, NEW r, r = [q EXCEPT !.op = "issue"]
    PROVE  /\ r \in Opener
           /\ r.op = "issue" /\ r.user = q.user /\ r.parent = q.parent /\ r.epoch = q.epoch
  <1>1. r \in Opener
    BY DEF Opener
  <1>2. r.op = "issue" /\ r.user = q.user /\ r.parent = q.parent /\ r.epoch = q.epoch
    BY DEF Opener
  <1> QED
    BY <1>1, <1>2

(* refresh_token, revoking the session it replaces.                          *)
LEMMA RotateInv ==
    ASSUME OneWorker, SInv, NEW w \in Worker, S!Rotate(w)
    PROVE  SInv'
  <1>1. PICK r : r = [sreq[w] EXCEPT !.op = "issue"]
    OBVIOUS
  <1>2. PICK p : p = sreq[w].parent
    OBVIOUS
  <1>3. /\ sreq[w].op = "rotate" /\ sreq' = [sreq EXCEPT ![w] = r]
        /\ S!Revoke({p})
        /\ UNCHANGED <<access, blocked, cred, epoch, spent>>
    BY <1>1, <1>2, Zenon DEF S!Rotate, S!At, S!Continue, S!history
  <1>4. sreq[w] \in Opener
    BY <1>3 DEF SInv, STypes, SReq, Opener
  <1>5. /\ r \in Opener /\ r.op = "issue" /\ r.parent = p
        /\ r.user = sreq[w].user /\ r.epoch = sreq[w].epoch
    BY <1>1, <1>2, <1>4, AsIssue
  <1>6. \A v \in Worker : v = w /\ sreq'[v] = r
    BY <1>3, OneRequest DEF SInv
  <1>7. Fades /\ (p \in S!Issued => ~sess'[p].live)
    BY <1>3, RevokeFades, RevokeRows DEF SInv
  <1>8. STypes'
    BY <1>3, <1>5, <1>7 DEF SInv, STypes, S!Issued, Fades, SReq
  <1>9. Lineage' /\ RotationIsLinear' /\ (Childless(p) => Childless(p)')
    BY <1>7, FadesKeep DEF SInv
  <1>10. p # 0 => p \in S!Issued /\ Childless(p)
    BY <1>2, <1>3 DEF SInv, Opening
  <1>11. r.epoch = epoch[r.user]
    BY <1>3, <1>5 DEF SInv, Opening
  <1>12. Opening'
    BY <1>3, <1>5, <1>6, <1>7, <1>9, <1>10, <1>11 DEF Opening, S!Issued, S!Live, Fades
  <1>13. Codes'
    BY <1>3, <1>5, <1>6 DEF SInv, Codes
  <1>14. ResetEndsSessions'
    BY <1>3, <1>6, <1>7 DEF SInv, ResetEndsSessions, S!ResetEndsSessions, S!Issued, S!Live, Fades
  <1> QED
    BY <1>8, <1>9, <1>12, <1>13, <1>14 DEF SInv

(* The steps that open no session: the ones that leave the requests alone and *)
(* the ones after which no login and no refresh is under way.                *)
LEMMA OpeningKept ==
    ASSUME SInv, Fades,
           \/ sreq' = sreq /\ epoch' = epoch
           \/ \A w \in Worker : sreq'[w].op \notin {"issue", "rotate"}
    PROVE  Lineage' /\ RotationIsLinear' /\ Opening'
  <1>1. Lineage' /\ RotationIsLinear' /\ \A p : Childless(p) => Childless(p)'
    BY FadesKeep DEF SInv
  <1>2. CASE sreq' = sreq /\ epoch' = epoch
    BY <1>1, <1>2 DEF SInv, Opening, Fades, S!Issued, S!Live
  <1>3. CASE \A w \in Worker : sreq'[w].op \notin {"issue", "rotate"}
    BY <1>1, <1>3 DEF Opening
  <1> QED
    BY <1>2, <1>3

Ends(w, u) == sreq[w].op \in {"otp_clear", "revoke_all"} /\ sreq[w].user = u

(* A password that changes leaves no session of the old one, or a request    *)
(* that is about to end them.                                                *)
LEMMA EndsKept ==
    ASSUME SInv, Fades,
           \A u \in User :
              \/ epoch'[u] = epoch[u] /\ \A w \in Worker : Ends(w, u) => Ends(w, u)'
              \/ \E w \in Worker : Ends(w, u)'
              \/ \A s \in S!Issued : sess[s].user = u => ~sess'[s].live
    PROVE  ResetEndsSessions'
  <1> SUFFICES ASSUME NEW s \in S!Issued, sess'[s].live, NEW u, u = sess[s].user,
                      sess'[s].epoch # epoch'[u]
               PROVE  \E w \in Worker : Ends(w, u)'
    BY DEF ResetEndsSessions, S!ResetEndsSessions, S!Live, S!Issued, Fades, Ends
  <1>1. sess'[s].epoch = sess[s].epoch /\ sess[s].live /\ u \in User
    BY DEF Fades, SInv, STypes, SessionRow
  <1>2. CASE epoch'[u] = epoch[u] /\ \A w \in Worker : Ends(w, u) => Ends(w, u)'
    <2>1. PICK w \in Worker : Ends(w, u)
      BY <1>1, <1>2 DEF SInv, ResetEndsSessions, S!ResetEndsSessions, S!Live, Ends
    <2> QED
      BY <1>2, <2>1
  <1>3. CASE \A t \in S!Issued : sess[t].user = u => ~sess'[t].live
    BY <1>3
  <1> QED
    BY <1>1, <1>2, <1>3

LEMMA LogoutInv ==
    ASSUME OneWorker, SInv, NEW w \in Worker, NEW s \in S!Issued, NEW with, S!Logout(w, s, with)
    PROVE  SInv'
  <1>1. /\ UNCHANGED <<access, cred, epoch, spent, sreq>>
        /\ Fades
    BY RevokeFades DEF S!Logout, S!history, SInv
  <1>2. STypes'
    BY <1>1 DEF SInv, STypes, S!Issued, Fades
  <1>3. Lineage' /\ RotationIsLinear' /\ Opening'
    BY <1>1, OpeningKept
  <1>4. Codes'
    BY <1>1 DEF SInv, Codes
  <1>5. ResetEndsSessions'
    BY <1>1, EndsKept DEF Ends
  <1> QED
    BY <1>2, <1>3, <1>4, <1>5 DEF SInv

LEMMA RefreshExpiresInv ==
    ASSUME SInv, NEW s \in S!Issued, S!RefreshExpires(s)
    PROVE  SInv'
  <1>1. /\ UNCHANGED <<access, cred, epoch, spent, sreq>>
        /\ Fades
    BY RevokeFades DEF S!RefreshExpires, S!history, SInv
  <1>2. STypes'
    BY <1>1 DEF SInv, STypes, S!Issued, Fades
  <1>3. Lineage' /\ RotationIsLinear' /\ Opening'
    BY <1>1, OpeningKept
  <1>4. Codes'
    BY <1>1 DEF SInv, Codes
  <1>5. ResetEndsSessions'
    BY <1>1, EndsKept DEF Ends
  <1> QED
    BY <1>2, <1>3, <1>4, <1>5 DEF SInv

(* Steps that change nothing but the access tokens. *)
LEMMA QuietInv ==
    ASSUME SInv, UNCHANGED <<sess, cred, epoch, spent, sreq>>, access' \subseteq access
    PROVE  SInv'
  <1>1. Fades
    BY SameFades DEF SInv
  <1>2. STypes'
    BY DEF SInv, STypes, S!Issued
  <1>3. Lineage' /\ RotationIsLinear' /\ Opening'
    BY <1>1, OpeningKept
  <1>4. Codes'
    BY DEF SInv, Codes
  <1>5. ResetEndsSessions'
    BY <1>1, EndsKept DEF Ends
  <1> QED
    BY <1>2, <1>3, <1>4, <1>5 DEF SInv

LEMMA RevokeAllInv ==
    ASSUME OneWorker, SInv, NEW w \in Worker, S!RevokeAll(w)
    PROVE  SInv'
  <1>1. /\ sreq[w].op = "revoke_all" /\ sreq' = [sreq EXCEPT ![w] = [op |-> "idle"]]
        /\ S!Revoke(S!SessionsOf(sreq[w].user))
        /\ UNCHANGED <<access, blocked, cred, epoch, spent>>
    BY DEF S!RevokeAll, S!At, S!Continue, S!Idle, S!history
  <1>2. \A v \in Worker : v = w /\ sreq'[v] = [op |-> "idle"]
    BY <1>1, OneRequest DEF SInv
  <1>3. Fades /\ \A s \in S!Issued : sess[s].user = sreq[w].user => ~sess'[s].live
    BY <1>1, RevokeFades, RevokeRows DEF SInv, S!SessionsOf
  <1>4. STypes'
    BY <1>1, <1>3 DEF SInv, STypes, S!Issued, Fades, SReq
  <1>5. Lineage' /\ RotationIsLinear' /\ Opening'
    BY <1>2, <1>3, OpeningKept
  <1>6. Codes'
    BY <1>1, <1>2 DEF SInv, Codes
  <1>7. ResetEndsSessions'
    BY <1>1, <1>2, <1>3, EndsKept DEF Ends
  <1> QED
    BY <1>4, <1>5, <1>6, <1>7 DEF SInv

(* Steps of the requests that touch credentials: what each leaves of the     *)
(* sessions is the same, so it is shown once.                                *)
LEMMA CredentialStep ==
    ASSUME OneWorker, SInv, NEW w \in Worker, Fades, Codes', access' \subseteq access,
           cred' \in [User -> CredRow], epoch' \in [User -> Nat],
           spent' \in [User -> SUBSET Nat], sreq' \in [Worker -> SReq],
           sreq'[w].op \notin {"issue", "rotate"},
           \A u \in User : epoch'[u] = epoch[u] \/ Ends(w, u)',
           \A u \in User : Ends(w, u) => Ends(w, u)'
    PROVE  SInv'
  <1>1. \A v \in Worker : v = w
    BY DEF OneWorker
  <1>2. STypes'
    BY DEF SInv, STypes, S!Issued, Fades
  <1>3. Lineage' /\ RotationIsLinear' /\ Opening'
    BY <1>1, OpeningKept
  <1>4. ResetEndsSessions'
    BY <1>1, EndsKept
  <1> QED
    BY <1>2, <1>3, <1>4 DEF SInv

LEMMA ResetBySecretInv ==
    ASSUME OneWorker, SInv, NEW w \in Worker, NEW u \in User, S!ResetBySecret(w, u)
    PROVE  SInv'
  <1> DEFINE r == [op |-> "revoke_all", user |-> u]
  <1>1. /\ sreq[w] = [op |-> "idle"] /\ sreq' = [sreq EXCEPT ![w] = r]
        /\ epoch' = [epoch EXCEPT ![u] = @ + 1]
        /\ cred' = [cred EXCEPT ![u] = [cred[u] EXCEPT !.password = TRUE, !.slot = 0]]
        /\ UNCHANGED <<sess, access, spent>>
    BY DEF S!ResetBySecret, S!NewEpoch, S!SetCred, S!Begin, S!Idle, S!Ending
  <1>2. r \in SReq
    BY DEF SReq
  <1>3. /\ cred' \in [User -> CredRow] /\ cred'[u].slot = 0 /\ cred'[u].codes = cred[u].codes
        /\ \A x \in User \ {u} : cred'[x] = cred[x]
    BY <1>1 DEF SInv, STypes, CredRow
  <1>4. \A v \in Worker : v = w /\ sreq'[v] = r
    BY <1>1, OneRequest DEF SInv
  <1>5. Codes'
    BY <1>1, <1>4, <1>3 DEF SInv, Codes, STypes, CredRow
  <1>6. /\ access' \subseteq access /\ cred' \in [User -> CredRow]
        /\ epoch' \in [User -> Nat] /\ spent' \in [User -> SUBSET Nat]
    BY <1>1, <1>2, <1>3 DEF SInv, STypes
  <1>7. sreq' \in [Worker -> SReq] /\ sreq'[w] = r
    BY <1>1, <1>2 DEF SInv, STypes
  <1>8. \A x \in User : epoch'[x] = epoch[x] \/ Ends(w, x)'
    BY <1>1, <1>2, <1>7 DEF Ends, SInv, STypes
  <1>9. \A x \in User : Ends(w, x) => Ends(w, x)'
    BY <1>1, <1>7 DEF Ends
  <1>10. sreq'[w].op \notin {"issue", "rotate"}
    BY <1>7
  <1>11. Fades
    BY <1>1, SameFades DEF SInv
  <1> QED
    BY <1>5, <1>6, <1>7, <1>8, <1>9, <1>10, <1>11, CredentialStep

LEMMA ChangeReadInv ==
    ASSUME OneWorker, SInv, NEW w \in Worker, NEW s \in S!Issued, S!ChangeRead(w, s)
    PROVE  SInv'
  <1> DEFINE r == [op |-> "change", user |-> sess[s].user]
  <1>1. /\ sreq[w] = [op |-> "idle"] /\ sreq' = [sreq EXCEPT ![w] = r]
        /\ UNCHANGED <<sess, access, cred, epoch, spent>>
    BY DEF S!ChangeRead, S!Begin, S!Idle, S!history
  <1>2. r \in SReq
    BY DEF SInv, STypes, SessionRow, SReq
  <1>3. \A v \in Worker : v = w /\ sreq'[v] = r
    BY <1>1, OneRequest DEF SInv
  <1>4. Codes'
    BY <1>1, <1>3 DEF SInv, Codes
  <1>5. /\ access' \subseteq access /\ cred' \in [User -> CredRow]
        /\ epoch' \in [User -> Nat] /\ spent' \in [User -> SUBSET Nat]
    BY <1>1, <1>2 DEF SInv, STypes
  <1>6. sreq' \in [Worker -> SReq] /\ sreq'[w] = r
    BY <1>1, <1>2 DEF SInv, STypes
  <1>7. \A x \in User : epoch'[x] = epoch[x] \/ Ends(w, x)'
    BY <1>1, <1>2, <1>6 DEF Ends, SInv, STypes
  <1>8. \A x \in User : Ends(w, x) => Ends(w, x)'
    BY <1>1, <1>6 DEF Ends
  <1>9. sreq'[w].op \notin {"issue", "rotate"}
    BY <1>6
  <1>10. Fades
    BY <1>1, SameFades DEF SInv
  <1> QED
    BY <1>4, <1>5, <1>6, <1>7, <1>8, <1>9, <1>10, CredentialStep

LEMMA ChangeWriteInv ==
    ASSUME OneWorker, SInv, NEW w \in Worker, S!ChangeWrite(w)
    PROVE  SInv'
  <1> DEFINE r == [op |-> "idle"]
             u == sreq[w].user
  <1>1. /\ sreq[w].op = "change" /\ sreq' = [sreq EXCEPT ![w] = r]
        /\ cred' = [cred EXCEPT ![u].password = TRUE]
        /\ UNCHANGED <<sess, access, epoch, spent>>
    BY DEF S!ChangeWrite, S!At, S!Continue, S!Idle, S!history
  <1>2. u \in User /\ r \in SReq
    BY <1>1 DEF SInv, STypes, SReq, Opener
  <1>3. /\ cred' \in [User -> CredRow]
        /\ \A x \in User : cred'[x].slot = cred[x].slot /\ cred'[x].codes = cred[x].codes
    BY <1>1, <1>2 DEF SInv, STypes, CredRow
  <1>4. \A v \in Worker : v = w /\ sreq'[v] = r
    BY <1>1, OneRequest DEF SInv
  <1>5. Codes'
    BY <1>1, <1>3, <1>4 DEF SInv, Codes
  <1>6. /\ access' \subseteq access /\ cred' \in [User -> CredRow]
        /\ epoch' \in [User -> Nat] /\ spent' \in [User -> SUBSET Nat]
    BY <1>1, <1>2, <1>3 DEF SInv, STypes
  <1>7. sreq' \in [Worker -> SReq] /\ sreq'[w] = r
    BY <1>1, <1>2 DEF SInv, STypes
  <1>8. \A x \in User : epoch'[x] = epoch[x] \/ Ends(w, x)'
    BY <1>1, <1>2, <1>7 DEF Ends, SInv, STypes
  <1>9. \A x \in User : Ends(w, x) => Ends(w, x)'
    BY <1>1, <1>7 DEF Ends
  <1>10. sreq'[w].op \notin {"issue", "rotate"}
    BY <1>7
  <1>11. Fades
    BY <1>1, SameFades DEF SInv
  <1> QED
    BY <1>5, <1>6, <1>7, <1>8, <1>9, <1>10, <1>11, CredentialStep

LEMMA OtpReadInv ==
    ASSUME OneWorker, SInv, NEW w \in Worker, NEW u \in User, NEW code \in 1 .. MaxCode,
           S!OtpRead(w, u, code)
    PROVE  SInv'
  <1> DEFINE r == [op |-> "otp", user |-> u, code |-> code]
  <1>1. /\ sreq[w] = [op |-> "idle"] /\ sreq' = [sreq EXCEPT ![w] = r]
        /\ UNCHANGED <<sess, access, cred, epoch, spent>>
        /\ cred[u].slot = code
    BY DEF S!OtpRead, S!OtpMatches, S!Begin, S!Idle, S!history
  <1>2. code \in Nat /\ code # 0 /\ r \in SReq
    BY DEF SReq
  <1>3. \A v \in Worker : v = w /\ sreq'[v] = r
    BY <1>1, OneRequest DEF SInv
  <1>4. code \notin spent[u] /\ code <= cred[u].codes
    <2>1. \A v \in Worker : sreq[v].op # "otp_clear"
      BY <1>1, <1>3
    <2> QED
      BY <1>1, <1>2, <2>1 DEF SInv, Codes
  <1>5. Codes'
    BY <1>1, <1>3, <1>4 DEF SInv, Codes
  <1>6. /\ access' \subseteq access /\ cred' \in [User -> CredRow]
        /\ epoch' \in [User -> Nat] /\ spent' \in [User -> SUBSET Nat]
    BY <1>1, <1>2 DEF SInv, STypes
  <1>7. sreq' \in [Worker -> SReq] /\ sreq'[w] = r
    BY <1>1, <1>2 DEF SInv, STypes
  <1>8. \A x \in User : epoch'[x] = epoch[x] \/ Ends(w, x)'
    BY <1>1, <1>2, <1>7 DEF Ends, SInv, STypes
  <1>9. \A x \in User : Ends(w, x) => Ends(w, x)'
    BY <1>1, <1>7 DEF Ends
  <1>10. sreq'[w].op \notin {"issue", "rotate"}
    BY <1>7
  <1>11. Fades
    BY <1>1, SameFades DEF SInv
  <1> QED
    BY <1>5, <1>6, <1>7, <1>8, <1>9, <1>10, <1>11, CredentialStep

LEMMA OtpPasswordInv ==
    ASSUME OneWorker, SInv, NEW w \in Worker, S!OtpPassword(w)
    PROVE  SInv'
  <1> DEFINE u == sreq[w].user
             c == sreq[w].code
             r == [op |-> "otp_clear", user |-> u]
  <1>1. /\ sreq[w].op = "otp" /\ sreq' = [sreq EXCEPT ![w] = r]
        /\ epoch' = [epoch EXCEPT ![u] = @ + 1]
        /\ cred' = [cred EXCEPT ![u].password = TRUE]
        /\ spent' = [spent EXCEPT ![u] = @ \cup {c}]
        /\ UNCHANGED <<sess, access>>
    BY DEF S!OtpPassword, S!At, S!NewEpoch, S!Continue
  <1>2. u \in User /\ c \in Nat /\ r \in SReq
    BY <1>1 DEF SInv, STypes, SReq, Opener
  <1>3. /\ cred' \in [User -> CredRow]
        /\ \A x \in User : cred'[x].slot = cred[x].slot /\ cred'[x].codes = cred[x].codes
    BY <1>1, <1>2 DEF SInv, STypes, CredRow
  <1>4. epoch' \in [User -> Nat] /\ spent' \in [User -> SUBSET Nat]
    BY <1>1, <1>2 DEF SInv, STypes
  <1>5. \A v \in Worker : v = w /\ sreq'[v] = r
    BY <1>1, OneRequest DEF SInv
  <1>6. Codes'
    <2>1. c <= cred[u].codes
      BY <1>1 DEF SInv, Codes
    <2>2. \A x \in User : x # u => spent'[x] = spent[x] /\ ~\E v \in Worker : sreq[v].op = "otp_clear"
      BY <1>1, <1>5 DEF SInv, STypes
    <2>3. spent'[u] = spent[u] \cup {c}
      BY <1>1, <1>2 DEF SInv, STypes
    <2> QED
      BY <1>2, <1>3, <1>5, <2>1, <2>2, <2>3 DEF SInv, Codes
  <1>7. /\ access' \subseteq access /\ cred' \in [User -> CredRow]
        /\ epoch' \in [User -> Nat] /\ spent' \in [User -> SUBSET Nat]
    BY <1>1, <1>2, <1>3, <1>4 DEF SInv, STypes
  <1>8. sreq' \in [Worker -> SReq] /\ sreq'[w] = r
    BY <1>1, <1>2 DEF SInv, STypes
  <1>9. \A x \in User : epoch'[x] = epoch[x] \/ Ends(w, x)'
    BY <1>1, <1>2, <1>8 DEF Ends, SInv, STypes
  <1>10. \A x \in User : Ends(w, x) => Ends(w, x)'
    BY <1>1, <1>8 DEF Ends
  <1>11. sreq'[w].op \notin {"issue", "rotate"}
    BY <1>8
  <1>12. Fades
    BY <1>1, SameFades DEF SInv
  <1> QED
    BY <1>6, <1>7, <1>8, <1>9, <1>10, <1>11, <1>12, CredentialStep

LEMMA OtpClearInv ==
    ASSUME OneWorker, SInv, NEW w \in Worker, S!OtpClear(w)
    PROVE  SInv'
  <1> DEFINE u == sreq[w].user
             r == [op |-> "revoke_all", user |-> u]
  <1>1. /\ sreq[w].op = "otp_clear" /\ sreq' = [sreq EXCEPT ![w] = r]
        /\ cred' = [cred EXCEPT ![u].slot = 0]
        /\ UNCHANGED <<sess, access, epoch, spent>>
    BY DEF S!OtpClear, S!At, S!Continue, S!Ending, S!history
  <1>2. u \in User /\ r \in SReq
    BY <1>1 DEF SInv, STypes, SReq, Opener
  <1>3. /\ cred' \in [User -> CredRow] /\ cred'[u].slot = 0 /\ cred'[u].codes = cred[u].codes
        /\ \A x \in User \ {u} : cred'[x] = cred[x]
    BY <1>1, <1>2 DEF SInv, STypes, CredRow
  <1>4. \A v \in Worker : v = w /\ sreq'[v] = r
    BY <1>1, OneRequest DEF SInv
  <1>5. Codes'
    BY <1>1, <1>2, <1>3, <1>4 DEF SInv, Codes, STypes, CredRow
  <1>6. /\ access' \subseteq access /\ cred' \in [User -> CredRow]
        /\ epoch' \in [User -> Nat] /\ spent' \in [User -> SUBSET Nat]
    BY <1>1, <1>2, <1>3 DEF SInv, STypes
  <1>7. sreq' \in [Worker -> SReq] /\ sreq'[w] = r
    BY <1>1, <1>2 DEF SInv, STypes
  <1>8. \A x \in User : epoch'[x] = epoch[x] \/ Ends(w, x)'
    BY <1>1, <1>2, <1>7 DEF Ends, SInv, STypes
  <1>9. \A x \in User : Ends(w, x) => Ends(w, x)'
    BY <1>1, <1>7 DEF Ends
  <1>10. sreq'[w].op \notin {"issue", "rotate"}
    BY <1>7
  <1>11. Fades
    BY <1>1, SameFades DEF SInv
  <1> QED
    BY <1>5, <1>6, <1>7, <1>8, <1>9, <1>10, <1>11, CredentialStep

LEMMA EraseInv ==
    ASSUME OneWorker, SInv, NEW w \in Worker, NEW s \in S!Issued, S!Erase(w, s)
    PROVE  SInv'
  <1> DEFINE u == sess[s].user
             r == [op |-> "revoke_all", user |-> u]
  <1>1. /\ sreq[w] = [op |-> "idle"] /\ sreq' = [sreq EXCEPT ![w] = r]
        /\ epoch' = [epoch EXCEPT ![u] = @ + 1]
        /\ cred' = [cred EXCEPT ![u].password = FALSE]
        /\ S!Revoke(S!SessionsOf(u))
        /\ UNCHANGED <<access, spent>>
    BY DEF S!Erase, S!NewEpoch, S!Begin, S!Idle, S!Ending
  <1>2. u \in User /\ r \in SReq
    BY DEF SInv, STypes, SessionRow, SReq
  <1>3. /\ cred' \in [User -> CredRow]
        /\ \A x \in User : cred'[x].slot = cred[x].slot /\ cred'[x].codes = cred[x].codes
    BY <1>1, <1>2 DEF SInv, STypes, CredRow
  <1>4. epoch' \in [User -> Nat]
    BY <1>1, <1>2 DEF SInv, STypes
  <1>5. \A v \in Worker : v = w /\ sreq'[v] = r
    BY <1>1, OneRequest DEF SInv
  <1>6. Codes'
    BY <1>1, <1>3, <1>5 DEF SInv, Codes
  <1>7. Fades
    BY <1>1, RevokeFades DEF SInv
  <1>8. /\ access' \subseteq access /\ cred' \in [User -> CredRow]
        /\ epoch' \in [User -> Nat] /\ spent' \in [User -> SUBSET Nat]
    BY <1>1, <1>2, <1>3, <1>4 DEF SInv, STypes
  <1>9. sreq' \in [Worker -> SReq] /\ sreq'[w] = r
    BY <1>1, <1>2 DEF SInv, STypes
  <1>10. \A x \in User : epoch'[x] = epoch[x] \/ Ends(w, x)'
    BY <1>1, <1>2, <1>9 DEF Ends, SInv, STypes
  <1>11. \A x \in User : Ends(w, x) => Ends(w, x)'
    BY <1>1, <1>9 DEF Ends
  <1>12. sreq'[w].op \notin {"issue", "rotate"}
    BY <1>9
  <1> QED
    BY <1>6, <1>8, <1>9, <1>10, <1>11, <1>12, <1>7, CredentialStep

(* The steps that change the code an account holds, whatever is under way. *)
LEMMA SlotInv ==
    ASSUME SInv, NEW u \in User, cred' = [cred EXCEPT ![u] = [cred[u] EXCEPT !.slot = 0]],
           UNCHANGED <<sess, access, epoch, spent, sreq>>
    PROVE  SInv'
  <1>1. Fades
    BY SameFades DEF SInv
  <1>2. /\ cred' \in [User -> CredRow] /\ cred'[u].slot = 0 /\ cred'[u].codes = cred[u].codes
        /\ \A x \in User \ {u} : cred'[x] = cred[x]
    BY DEF SInv, STypes, CredRow
  <1>3. STypes'
    BY <1>2 DEF SInv, STypes, S!Issued
  <1>4. Lineage' /\ RotationIsLinear' /\ Opening'
    BY <1>1, OpeningKept
  <1>5. Codes'
    BY <1>2 DEF SInv, STypes, CredRow, Codes
  <1>6. ResetEndsSessions'
    BY <1>1, EndsKept DEF Ends
  <1> QED
    BY <1>3, <1>4, <1>5, <1>6 DEF SInv

LEMMA RequestOtpInv ==
    ASSUME OneWorker, SInv, NEW w \in Worker, NEW u \in User, NEW delivered \in BOOLEAN,
           S!RequestOtp(w, u, delivered)
    PROVE  SInv'
  <1> DEFINE code == cred[u].codes + 1
             sent == IF delivered THEN cred[u].sent \cup {code} ELSE cred[u].sent
  <1>1. /\ sreq[w] = [op |-> "idle"]
        /\ cred' = [cred EXCEPT ![u] = [cred[u] EXCEPT !.slot = code, !.codes = code, !.sent = sent]]
        /\ UNCHANGED <<sess, access, epoch, spent, sreq>>
    BY DEF S!RequestOtp, S!SetCred, S!Idle, S!history
  <1>2. code \in Nat /\ sent \in SUBSET Nat
    BY DEF SInv, STypes, CredRow
  <1>3. /\ cred' \in [User -> CredRow] /\ cred'[u].slot = code /\ cred'[u].codes = code
        /\ \A x \in User \ {u} : cred'[x] = cred[x]
    <2> HIDE DEF code, sent
    <2> QED
      BY <1>1, <1>2 DEF SInv, STypes, CredRow
  <1>4. Fades
    BY <1>1, SameFades DEF SInv
  <1>5. STypes'
    BY <1>1, <1>3 DEF SInv, STypes, S!Issued
  <1>6. Lineage' /\ RotationIsLinear' /\ Opening'
    BY <1>1, <1>4, OpeningKept
  <1>7. \A v \in Worker : sreq[v] = [op |-> "idle"]
    BY <1>1 DEF OneWorker
  <1>8. cred[u].codes \in Nat /\ \A c \in spent[u] : c \in Nat /\ c <= cred[u].codes
    BY DEF SInv, STypes, CredRow, Codes
  <1>9. Codes'
    BY <1>1, <1>2, <1>3, <1>7, <1>8 DEF SInv, Codes
  <1>10. ResetEndsSessions'
    BY <1>1, <1>4, EndsKept DEF Ends
  <1> QED
    BY <1>5, <1>6, <1>9, <1>10 DEF SInv

(* The inductive invariant of Sessions: with one worker process every        *)
(* session that was exchanged is revoked and has one successor, and no       *)
(* request spends a code a second time.                                      *)
THEOREM SessionsInvariant == OneWorker => (S!Spec => []SInv)
  <1> SUFFICES ASSUME OneWorker PROVE S!Spec => []SInv
    OBVIOUS
  <1>1. S!Init => SInv
    BY SInit
  <1>2. ASSUME SInv, [S!Next]_svars
        PROVE  SInv'
    <2>1. CASE S!Time
      <3>1. CASE \E s \in S!Issued : S!AccessExpires(s)
        BY <3>1, QuietInv, <1>2 DEF S!AccessExpires, S!history
      <3>2. CASE \E s \in S!Issued : S!RefreshExpires(s)
        BY <3>2, RefreshExpiresInv, <1>2
      <3>3. CASE \E u \in User : S!OtpExpires(u)
        <4>1. PICK u \in User : S!OtpExpires(u)
          BY <3>3
        <4>2. cred' = [cred EXCEPT ![u] = [cred[u] EXCEPT !.slot = 0]]
          BY <4>1 DEF S!OtpExpires
        <4> QED
          BY <4>1, <4>2, SlotInv, <1>2 DEF S!OtpExpires, S!history
      <3> QED
        BY <2>1, <3>1, <3>2, <3>3 DEF S!Time
    <2>2. ASSUME NEW w \in Worker, S!Receive(w)
          PROVE  SInv'
      <3>1. ASSUME NEW u \in User, S!VerifySecret(w, u) PROVE SInv'
        <4>1. cred' = [cred EXCEPT ![u] = [cred[u] EXCEPT !.slot = 0]]
              /\ UNCHANGED <<sess, access, epoch, spent, sreq>>
          BY <3>1 DEF S!VerifySecret, S!SetCred, S!history
        <4> QED
          BY <4>1, SlotInv, <1>2
      <3>2. ASSUME NEW u \in User, NEW delivered \in BOOLEAN, S!RequestOtp(w, u, delivered)
            PROVE  SInv'
        BY <3>2, RequestOtpInv, <1>2
      <3>3. ASSUME NEW s \in S!Issued, NEW with, S!Logout(w, s, with)
            PROVE  SInv'
        BY <3>3, LogoutInv, <1>2
      <3> QED
        BY <1>2, <2>2, <3>1, <3>2, <3>3, LoginReadInv, ResetBySecretInv, OtpReadInv, RefreshInv,
           ChangeReadInv, EraseInv DEF S!Receive
    <2>3. ASSUME NEW w \in Worker, S!Proceed(w)
          PROVE  SInv'
      BY <1>2, <2>3, IssueInv, RotateInv, RevokeAllInv, ChangeWriteInv, OtpPasswordInv, OtpClearInv
         DEF S!Proceed
    <2>4. CASE UNCHANGED svars
      BY <2>4, QuietInv, <1>2 DEF svars
    <2> QED
      BY <1>2, <2>1, <2>2, <2>3, <2>4 DEF S!Next
  <1> QED
    BY <1>1, <1>2, PTL DEF S!Spec, S!vars, svars

(* With one worker process a refresh token is exchanged for one other at     *)
(* most, however refreshes, resets, expiry and logouts interleave.           *)
THEOREM RotationStaysLinear == OneWorker => (S!Spec => []RotationIsLinear)
  <1>1. SInv => RotationIsLinear
    BY DEF SInv
  <1> QED
    BY <1>1, SessionsInvariant, PTL

(* With one worker process no session opened before a change of the          *)
(* password outlives the request that made it.                               *)
THEOREM ResetsEndSessions == OneWorker => (S!Spec => []ResetEndsSessions)
  <1>1. SInv => ResetEndsSessions
    BY DEF SInv
  <1> QED
    BY <1>1, SessionsInvariant, PTL

(* With one worker process a one-time code resets one password, once.        *)
THEOREM CodesAreSpentOnce == OneWorker => (S!Spec => []CodeIsSpentOnce)
  <1>1. SInv => CodeIsSpentOnce
    BY DEF SInv, Codes, CodeIsSpentOnce, S!CodeIsSpentOnce
  <1> QED
    BY <1>1, SessionsInvariant, PTL

-----------------------------------------------------------------------------
(* The second factor *)

FReq == [op : {"idle"}] \cup [op : {"setup", "disable"}, user : User]
        \cup [op : {"verify"}, user : User, code : Nat]

FTypes ==
    /\ totp \in [User -> Nat] /\ issued \in [User -> Nat] /\ accepted \in [User -> Nat]
    /\ enabled \subseteq User
    /\ freq \in [Worker -> FReq]

(* What was checked when a request began still holds when it writes. *)
Enrolling ==
    \A w \in Worker :
        /\ freq[w].op = "setup" => freq[w].user \notin enabled
        /\ freq[w].op = "verify" => freq[w].code # 0 /\ freq[w].code = totp[freq[w].user]

FInv == FTypes /\ Enrolling /\ EnabledSecretWasAccepted

(* A request that reads begins alone, one that writes ends alone. *)
LEMMA FactorAlone ==
    ASSUME OneWorker, FTypes, NEW w \in Worker, NEW r \in FReq, freq' = [freq EXCEPT ![w] = r]
    PROVE  freq' \in [Worker -> FReq] /\ \A v \in Worker : v = w /\ freq'[v] = r
  BY DEF OneWorker, FTypes

(* Setup, verification and disabling, up to what they check.                 *)
LEMMA FactorReads ==
    ASSUME OneWorker, FInv, NEW w \in Worker, NEW u \in User, NEW code \in Nat,
           F!SetupRead(w, u) \/ F!VerifyRead(w, u, code) \/ F!DisableRead(w, u, code)
    PROVE  FInv'
  <1>1. UNCHANGED <<totp, enabled, issued, accepted>>
    BY DEF F!SetupRead, F!VerifyRead, F!DisableRead
  <1>2. EnabledSecretWasAccepted'
    BY <1>1 DEF FInv, EnabledSecretWasAccepted, F!EnabledSecretWasAccepted
  <1>3. CASE F!SetupRead(w, u)
    <2> DEFINE r == [op |-> "setup", user |-> u]
    <2>1. freq' = [freq EXCEPT ![w] = r] /\ u \notin enabled /\ r \in FReq
      BY <1>3 DEF F!SetupRead, F!Begin, FReq
    <2>2. freq' \in [Worker -> FReq] /\ \A v \in Worker : freq'[v] = r
      BY <2>1, FactorAlone DEF FInv
    <2> QED
      BY <1>1, <1>2, <2>1, <2>2 DEF FInv, FTypes, Enrolling
  <1>4. CASE F!VerifyRead(w, u, code)
    <2> DEFINE r == [op |-> "verify", user |-> u, code |-> code]
    <2>1. freq' = [freq EXCEPT ![w] = r] /\ code # 0 /\ totp[u] = code /\ r \in FReq
      BY <1>4 DEF F!VerifyRead, F!Begin, F!CodeProves, FReq
    <2>2. freq' \in [Worker -> FReq] /\ \A v \in Worker : freq'[v] = r
      BY <2>1, FactorAlone DEF FInv
    <2> QED
      BY <1>1, <1>2, <2>1, <2>2 DEF FInv, FTypes, Enrolling
  <1>5. CASE F!DisableRead(w, u, code)
    <2> DEFINE r == [op |-> "disable", user |-> u]
    <2>1. freq' = [freq EXCEPT ![w] = r] /\ r \in FReq
      BY <1>5 DEF F!DisableRead, F!Begin, FReq
    <2>2. freq' \in [Worker -> FReq] /\ \A v \in Worker : freq'[v] = r
      BY <2>1, FactorAlone DEF FInv
    <2> QED
      BY <1>1, <1>2, <2>1, <2>2 DEF FInv, FTypes, Enrolling
  <1> QED
    BY <1>3, <1>4, <1>5

(* What setup, verification and disabling write.                             *)
LEMMA FactorWrites ==
    ASSUME OneWorker, FInv, NEW w \in Worker, F!Proceed(w)
    PROVE  FInv'
  <1> DEFINE r == [op |-> "idle"]
  <1>1. freq' = [freq EXCEPT ![w] = r]
    BY DEF F!Proceed, F!SetupWrite, F!VerifyWrite, F!DisableWrite, F!Finish, F!Idle
  <1>2. r \in FReq
    BY DEF FReq
  <1>3. freq' \in [Worker -> FReq] /\ \A v \in Worker : freq'[v] = r
    BY <1>1, <1>2, FactorAlone DEF FInv
  <1>4. Enrolling'
    BY <1>3 DEF Enrolling
  <1>5. freq[w] \in FReq /\ freq[w].op # "idle" => freq[w].user \in User
    BY DEF FInv, FTypes, FReq
  <1>6. CASE F!SetupWrite(w)
    BY <1>3, <1>4, <1>5, <1>6 DEF F!SetupWrite, F!At, FInv, FTypes, Enrolling,
       EnabledSecretWasAccepted, F!EnabledSecretWasAccepted
  <1>7. CASE F!VerifyWrite(w)
    <2>1. freq[w].code \in Nat
      BY <1>7 DEF F!VerifyWrite, F!At, FInv, FTypes, FReq
    <2> QED
      BY <1>3, <1>4, <1>5, <1>7, <2>1 DEF F!VerifyWrite, F!At, FInv, FTypes, Enrolling,
         EnabledSecretWasAccepted, F!EnabledSecretWasAccepted
  <1>8. CASE F!DisableWrite(w)
    BY <1>3, <1>4, <1>5, <1>8 DEF F!DisableWrite, F!At, FInv, FTypes,
       EnabledSecretWasAccepted, F!EnabledSecretWasAccepted
  <1> QED
    BY <1>6, <1>7, <1>8 DEF F!Proceed

(* With one worker process the second factor is enabled only with a secret   *)
(* of which the user has shown a code.                                       *)
THEOREM SecretsAreAccepted == OneWorker => (F!Spec => []EnabledSecretWasAccepted)
  <1> SUFFICES ASSUME OneWorker PROVE F!Spec => []EnabledSecretWasAccepted
    OBVIOUS
  <1>1. F!Init => FInv
    <2> SUFFICES ASSUME F!Init PROVE FInv
      OBVIOUS
    <2>1. [op |-> "idle"] \in FReq
      BY DEF FReq
    <2>2. FTypes
      BY <2>1 DEF F!Init, F!Idle, FTypes
    <2>3. Enrolling
      BY DEF F!Init, F!Idle, Enrolling
    <2> QED
      BY <2>2, <2>3 DEF FInv, F!Init, EnabledSecretWasAccepted, F!EnabledSecretWasAccepted
  <1>2. ASSUME FInv, [F!Next]_fvars PROVE FInv'
    <2>1. ASSUME NEW w \in Worker, F!Receive(w) PROVE FInv'
      BY <1>2, <2>1, FactorReads DEF F!Receive, F!Secret
    <2>2. ASSUME NEW w \in Worker, F!Proceed(w) PROVE FInv'
      BY <1>2, <2>2, FactorWrites
    <2>3. CASE UNCHANGED fvars
      BY <1>2, <2>3 DEF fvars, FInv, FTypes, Enrolling, EnabledSecretWasAccepted,
         F!EnabledSecretWasAccepted
    <2> QED
      BY <1>2, <2>1, <2>2, <2>3 DEF F!Next
  <1>3. FInv => EnabledSecretWasAccepted
    BY DEF FInv
  <1> QED
    BY <1>1, <1>2, <1>3, PTL DEF F!Spec, F!vars, fvars

-----------------------------------------------------------------------------
(* Accounts *)

Charge == HrHead \cup Admin

(* What a request knows of the accounts, from the moment it has read them.   *)
Informed(r) ==
    /\ r.op \in {"approve", "decide", "role", "create", "suspend", "switch"} =>
          r.by \in InCharge /\ acct[r.by].status # "pending_approval"
    /\ r.op = "approve" => r.role = acct[r.by].role
    /\ r.op = "decide" => acct[r.user].status = "pending_approval"
    /\ r.op \in {"role", "suspend", "switch"} => r.user # r.by
    /\ r.op \in {"approve", "decide", "role", "suspend", "switch", "erase"} => r.user \in Users
    /\ r.op \in {"decide", "role", "create"} => r.role \in VALID_ROLES
    /\ r.op = "switch" => r.to \in BOOLEAN
    /\ r.op \in {"register", "create"} => r.user \notin Users
    /\ r.op = "register" =>
          /\ r.row \in Row
          /\ r.row.role \in {"employee", r.row.requested}
          /\ r.row.requested \in Admin => r.row.requested = "admin" /\ WithRole(Admin) = {}
          /\ r.row.requested \in HrHead => r.row.requested = "hr_head" /\ WithRole(HrHead) = {}

UTypes ==
    /\ acct \in [Users -> Row]
    /\ holders \subseteq Users
    /\ DOMAIN req = Worker

(* Nobody signs in before the registration was decided on. *)
Admitted == \A u \in holders : acct[u].status # "pending_approval"

UInv == UTypes /\ Admitted /\ \A w \in Worker : Informed(req[w])

(* Authority over accounts, which the code compares by level, is a set of    *)
(* roles.                                                                    *)
LEMMA InChargeByRole == \A r \in VALID_ROLES : Level(r) >= 50 <=> r \in Charge
  BY DEF VALID_ROLES, Level, Charge, HrHead, Admin

(* What the three promises say of a step. *)
KeepsManager ==
    CanManage # {} /\ CanManage' = {} =>
          \/ \E w \in Busy("erase") : req[w].user \in CanManage
          \/ \E w \in Busy("switch") \cup Busy("role") : req[w].by \in Barred
GivesAuthority ==
    \A u \in InCharge' \ InCharge :
          \/ \E w \in Busy("decide") \cup Busy("role") \cup Busy("create") :
                req[w].user = u /\ req[w].by \in InCharge \ {u}
          \/ u \notin Users /\ acct'[u].role = "admin" /\ WithRole(Admin) = {}
          \/ u \notin Users /\ acct'[u].role = "hr_head" /\ WithRole(HrHead) = {}
Bootstraps ==
    \A u \in Users' \ Users :
          /\ acct'[u].requested \in Admin => WithRole(Admin) = {}
          /\ acct'[u].requested \in HrHead => WithRole(HrHead) = {}
Kept == UInv' /\ KeepsManager /\ GivesAuthority /\ Bootstraps

(* Steps that leave roles and standings as they are. *)
SameStanding ==
    /\ Users' = Users /\ acct' \in [Users -> Row]
    /\ \A u \in Users : acct'[u].role = acct[u].role /\ acct'[u].status = acct[u].status

(* Such steps neither give nor take authority.                               *)
LEMMA StandingKept ==
    ASSUME UTypes, SameStanding
    PROVE  /\ InCharge' = InCharge
           /\ \A roles : WithRole(roles)' = WithRole(roles)
           /\ \A r : Informed(r) => Informed(r)'
  <1>1. InCharge' = InCharge
    BY DEF InCharge, SameStanding, Users
  <1>2. \A roles : WithRole(roles)' = WithRole(roles)
    BY DEF WithRole, SameStanding, Users
  <1>3. ASSUME NEW r, Informed(r)
        PROVE  Informed(r)'
    <2>1. InCharge \subseteq Users
      BY DEF InCharge
    <2> QED
      BY <1>1, <1>2, <1>3, <2>1 DEF Informed, SameStanding
  <1> QED
    BY <1>1, <1>2, <1>3

(* ... and keep the invariant, whatever request they start or end.           *)
LEMMA StandingStep ==
    ASSUME UInv, SameStanding, KeepsManager, DOMAIN req' = Worker,
           \A w \in Worker : req'[w] = req[w] \/ Informed(req'[w]),
           holders' \subseteq Users,
           \A u \in holders' \ holders : acct[u].status # "pending_approval"
    PROVE  Kept
  <1>1. UTypes'
    BY DEF UInv, UTypes, SameStanding
  <1>2. Admitted'
    BY DEF UInv, Admitted, SameStanding
  <1>3. ASSUME NEW w \in Worker PROVE Informed(req[w])'
    <2>1. PICK r : r = req'[w]
      OBVIOUS
    <2>2. Informed(r)
      BY <2>1 DEF UInv
    <2>3. Informed(r)'
      BY <2>2, StandingKept DEF UInv
    <2> QED
      BY <2>1, <2>3 DEF Informed
  <1> QED
    BY <1>1, <1>2, <1>3, StandingKept DEF Kept, UInv, KeepsManager, GivesAuthority, Bootstraps, SameStanding

(* A step that changes no account takes nobody's authority. *)
LEMMA SameKeepsManager == ASSUME acct' = acct PROVE KeepsManager
  BY DEF KeepsManager, CanManage, InCharge, Barred, Users

(* The handlers that read and decide. *)
LEMMA BeginStep ==
    ASSUME UInv, NEW w \in Worker, NEW r, Informed(r), req' = [req EXCEPT ![w] = r],
           UNCHANGED <<acct, holders>>
    PROVE  Kept
  <1>1. SameStanding
    BY DEF SameStanding, Users, UInv, UTypes
  <1>2. DOMAIN req' = Worker /\ \A v \in Worker : req'[v] = req[v] \/ Informed(req'[v])
    BY DEF UInv, UTypes
  <1>3. KeepsManager
    BY SameKeepsManager
  <1> QED
    BY <1>1, <1>2, <1>3, StandingStep DEF UInv, UTypes

LEMMA AuthoriseStep ==
    ASSUME UInv, NEW w \in Worker, NEW by \in holders, NEW r, Authorise(w, by, r)
    PROVE  /\ by \in InCharge /\ by \in Users /\ acct[by].status # "pending_approval"
           /\ req' = [req EXCEPT ![w] = r]
  BY DEF Authorise, Begin, InCharge, UInv, UTypes, Admitted

LEMMA RegisterReadStep ==
    ASSUME UInv, NEW w \in Worker, NEW u, NEW asked \in Asked, RegisterRead(w, u, asked)
    PROVE  Kept
  <1> DEFINE row == Registration(asked)
             r == [op |-> "register", user |-> u, row |-> row]
  <1>1. req' = [req EXCEPT ![w] = r] /\ u \notin Users /\ UNCHANGED <<acct, holders>>
    BY DEF RegisterRead, Begin, Fresh
  <1>2. PICK q : q = IF asked \in SELF_REGISTER_ROLES \cup BootstrapRoles THEN asked ELSE "employee"
    OBVIOUS
  <1>3. q \in VALID_ROLES /\ q \in {"employee", "hr_team"} \cup BootstrapRoles
    BY <1>2, AskedAssumption DEF SELF_REGISTER_ROLES, VALID_ROLES
  <1>4. row = [role |-> IF q \in BootstrapRoles THEN q ELSE "employee", requested |-> q,
               status |-> IF q \in BootstrapRoles THEN "active" ELSE "pending_approval",
               suspended |-> FALSE, password |-> TRUE]
    BY <1>2 DEF Registration
  <1>5. /\ row \in Row /\ row.requested = q /\ row.role \in {"employee", q}
    BY <1>3, <1>4 DEF Row, VALID_ROLES
  <1>6. /\ q \in Admin => q = "admin" /\ WithRole(Admin) = {}
        /\ q \in HrHead => q = "hr_head" /\ WithRole(HrHead) = {}
    BY <1>3 DEF BootstrapRoles, Admin, HrHead
  <1> HIDE DEF row
  <1>7. Informed(r)
    BY <1>1, <1>5, <1>6 DEF Informed
  <1> HIDE DEF r
  <1> QED
    BY <1>1, <1>7, BeginStep

LEMMA ApproveAuthStep ==
    ASSUME UInv, NEW w \in Worker, NEW by \in holders, NEW u \in Users, NEW action, NEW named \in Asked,
           ApproveAuth(w, by, u, action, named)
    PROVE  Kept
  <1> DEFINE r == [op |-> "approve", by |-> by, role |-> acct[by].role, user |-> u,
                   action |-> action, named |-> named]
  <1>1. Authorise(w, by, r) /\ UNCHANGED <<acct, holders>>
    BY DEF ApproveAuth
  <1>2. by \in InCharge /\ acct[by].status # "pending_approval" /\ req' = [req EXCEPT ![w] = r]
    <2> HIDE DEF r
    <2> QED
      BY <1>1, AuthoriseStep
  <1>3. Informed(r)
    BY <1>2 DEF Informed
  <1> HIDE DEF r
  <1> QED
    BY <1>1, <1>2, <1>3, BeginStep

LEMMA ApproveReadStep ==
    ASSUME UInv, NEW w \in Worker, ApproveRead(w)
    PROVE  Kept
  <1> DEFINE q == req[w]
             row == acct[q.user]
             r == [op |-> "decide", user |-> q.user, by |-> q.by, action |-> q.action,
                   role |-> Granted(q.named, row.requested, q.role)]
  <1>1. /\ q.op = "approve" /\ UNCHANGED <<acct, holders>>
        /\ \/ req' = [req EXCEPT ![w] = Idle]
           \/ req' = [req EXCEPT ![w] = r] /\ row.status = "pending_approval"
    <2> DEFINE may == row.status = "pending_approval" /\ q.role \in APPROVAL_CHAIN[row.requested]
    <2>1. q.op = "approve" /\ UNCHANGED <<acct, holders>>
      BY DEF ApproveRead, At
    <2>2. req' = [req EXCEPT ![w] = IF ~may THEN Idle ELSE r]
      BY Zenon DEF ApproveRead
    <2>3. CASE may
      <3>1. req' = [req EXCEPT ![w] = r]
        BY <2>2, <2>3, Zenon
      <3> QED
        BY <2>1, <2>3, <3>1, Zenon
    <2>4. CASE ~may
      <3>1. req' = [req EXCEPT ![w] = Idle]
        BY <2>2, <2>4, Zenon
      <3> QED
        BY <2>1, <3>1, Zenon
    <2> QED
      BY <2>3, <2>4
  <1>2. q.by \in InCharge /\ acct[q.by].status # "pending_approval" /\ q.user \in Users
    BY <1>1 DEF UInv, Informed
  <1>3. Granted(q.named, row.requested, q.role) \in VALID_ROLES
    BY <1>2 DEF Granted, APPROVAL_CHAIN, VALID_ROLES, HrHead, UInv, UTypes, Row
  <1>4. row.status = "pending_approval" => Informed(r)
    BY <1>2, <1>3 DEF Informed
  <1>5. Informed(Idle)
    BY DEF Informed, Idle
  <1> HIDE DEF r
  <1> QED
    BY <1>1, <1>4, <1>5, BeginStep

LEMMA RoleAuthStep ==
    ASSUME UInv, NEW w \in Worker, NEW by \in holders, NEW u \in Users, NEW role \in Asked,
           RoleAuth(w, by, u, role)
    PROVE  Kept
  <1> DEFINE r == [op |-> "role", by |-> by, user |-> u, role |-> role]
  <1>1. Authorise(w, by, r) /\ u # by /\ UNCHANGED <<acct, holders>>
    BY DEF RoleAuth
  <1>2. by \in InCharge /\ acct[by].status # "pending_approval" /\ req' = [req EXCEPT ![w] = r]
    <2> HIDE DEF r
    <2> QED
      BY <1>1, AuthoriseStep
  <1>3. role \in VALID_ROLES
    BY AskedAssumption
  <1>4. Informed(r)
    BY <1>1, <1>2, <1>3 DEF Informed
  <1> HIDE DEF r
  <1> QED
    BY <1>1, <1>2, <1>4, BeginStep

LEMMA CreateAuthStep ==
    ASSUME UInv, NEW w \in Worker, NEW by \in holders, NEW u, NEW role \in Asked,
           CreateAuth(w, by, u, role)
    PROVE  Kept
  <1> DEFINE r == [op |-> "create", by |-> by, user |-> u, role |-> role]
  <1>1. Authorise(w, by, r) /\ u \notin Users /\ UNCHANGED <<acct, holders>>
    BY DEF CreateAuth, Fresh
  <1>2. by \in InCharge /\ acct[by].status # "pending_approval" /\ req' = [req EXCEPT ![w] = r]
    <2> HIDE DEF r
    <2> QED
      BY <1>1, AuthoriseStep
  <1>3. role \in VALID_ROLES
    BY AskedAssumption
  <1>4. Informed(r)
    BY <1>1, <1>2, <1>3 DEF Informed
  <1> HIDE DEF r
  <1> QED
    BY <1>1, <1>2, <1>4, BeginStep

LEMMA SuspendAuthStep ==
    ASSUME UInv, NEW w \in Worker, NEW by \in holders, NEW u \in Users, SuspendAuth(w, by, u)
    PROVE  Kept
  <1> DEFINE r == [op |-> "suspend", by |-> by, user |-> u]
  <1>1. Authorise(w, by, r) /\ u # by /\ UNCHANGED <<acct, holders>>
    BY DEF SuspendAuth
  <1>2. by \in InCharge /\ acct[by].status # "pending_approval" /\ req' = [req EXCEPT ![w] = r]
    <2> HIDE DEF r
    <2> QED
      BY <1>1, AuthoriseStep
  <1>3. Informed(r)
    BY <1>1, <1>2 DEF Informed
  <1> HIDE DEF r
  <1> QED
    BY <1>1, <1>2, <1>3, BeginStep

LEMMA EraseAuthStep ==
    ASSUME UInv, NEW w \in Worker, NEW u \in holders, EraseAuth(w, u)
    PROVE  Kept
  <1> DEFINE r == [op |-> "erase", user |-> u]
  <1>1. req' = [req EXCEPT ![w] = r] /\ UNCHANGED <<acct, holders>>
    BY DEF EraseAuth, Begin
  <1>2. Informed(r)
    BY DEF Informed, UInv, UTypes
  <1> HIDE DEF r
  <1> QED
    BY <1>1, <1>2, BeginStep

LEMMA SuspendReadStep ==
    ASSUME UInv, NEW w \in Worker, SuspendRead(w)
    PROVE  Kept
  <1> DEFINE u == req[w].user
             r == [op |-> "switch", by |-> req[w].by, user |-> u, to |-> ~acct[u].suspended]
  <1>1. req' = [req EXCEPT ![w] = r] /\ UNCHANGED <<acct, holders>> /\ req[w].op = "suspend"
    BY DEF SuspendRead, At
  <1>2. /\ u \in Users /\ u # req[w].by
        /\ req[w].by \in InCharge /\ acct[req[w].by].status # "pending_approval"
    BY <1>1 DEF UInv, Informed
  <1>3. Informed(r)
    BY <1>2 DEF Informed
  <1> HIDE DEF r
  <1> QED
    BY <1>1, <1>3, BeginStep

(* The handlers that write. *)
LEMMA Finished ==
    ASSUME OneWorker, UInv, NEW w \in Worker, Finish(w)
    PROVE  /\ DOMAIN req' = Worker
           /\ \A v \in Worker : req'[v] = [op |-> "idle"]
           /\ \A v \in Worker : Informed(req'[v])
           /\ \A v \in Worker : Informed(req[v])'
  <1>1. DOMAIN req' = Worker /\ \A v \in Worker : req'[v] = [op |-> "idle"]
    BY DEF OneWorker, UInv, UTypes, Finish, Idle
  <1> QED
    BY <1>1 DEF Informed

(* A new account has the role it was registered or created with.             *)
LEMMA InsertStep ==
    ASSUME UInv, NEW u, u \notin Users, NEW row \in Row, Insert(u, row), holders' = holders,
           DOMAIN req' = Worker, \A v \in Worker : Informed(req[v])',
           row.role \in Charge =>
              \/ \E w \in Busy("create") : req[w].user = u /\ req[w].by \in InCharge
              \/ row.role = "admin" /\ WithRole(Admin) = {}
              \/ row.role = "hr_head" /\ WithRole(HrHead) = {},
           row.requested \in Admin => WithRole(Admin) = {},
           row.requested \in HrHead => WithRole(HrHead) = {}
    PROVE  Kept
  <1>1. /\ Users' = Users \cup {u} /\ acct' \in [Users' -> Row]
        /\ acct'[u] = row /\ \A x \in Users : acct'[x] = acct[x]
    BY DEF Insert, Users, UInv, UTypes
  <1>2. UInv'
    BY <1>1 DEF UInv, UTypes, Admitted
  <1>3. /\ InCharge \subseteq Users
        /\ \A x \in Users : x \in InCharge' <=> x \in InCharge
        /\ u \in InCharge' <=> row.role \in Charge
    BY <1>1, InChargeByRole DEF InCharge, Row
  <1>4. InCharge' \subseteq Users'
    BY DEF InCharge
  <1>5. GivesAuthority
    BY <1>1, <1>3, <1>4 DEF GivesAuthority
  <1>6. KeepsManager
    <2>1. CanManage \subseteq CanManage'
      BY <1>1, <1>3 DEF CanManage, Barred
    <2> QED
      BY <2>1 DEF KeepsManager
  <1>7. Bootstraps
    BY <1>1 DEF Bootstraps
  <1> QED
    BY <1>2, <1>5, <1>6, <1>7 DEF Kept

LEMMA RegisterWriteStep ==
    ASSUME OneWorker, UInv, NEW w \in Worker, RegisterWrite(w)
    PROVE  Kept
  <1>1. PICK u, row : u = req[w].user /\ row = req[w].row
    OBVIOUS
  <1>2. req[w].op = "register" /\ Insert(u, row) /\ Finish(w) /\ holders' = holders
    BY <1>1 DEF RegisterWrite, At
  <1>3. /\ u \notin Users /\ row \in Row
        /\ row.role \in {"employee", row.requested}
        /\ row.requested \in Admin => row.requested = "admin" /\ WithRole(Admin) = {}
        /\ row.requested \in HrHead => row.requested = "hr_head" /\ WithRole(HrHead) = {}
    BY <1>1, <1>2 DEF UInv, Informed
  <1>4. row.role \in Charge =>
              \/ row.role = "admin" /\ WithRole(Admin) = {}
              \/ row.role = "hr_head" /\ WithRole(HrHead) = {}
    BY <1>3 DEF Charge, Admin, HrHead
  <1> QED
    BY <1>2, <1>3, <1>4, Finished, InsertStep

LEMMA CreateWriteStep ==
    ASSUME OneWorker, UInv, NEW w \in Worker, CreateWrite(w)
    PROVE  Kept
  <1> DEFINE u == req[w].user
             row == [role |-> req[w].role, requested |-> "employee", status |-> "active",
                     suspended |-> FALSE, password |-> TRUE]
  <1>1. req[w].op = "create" /\ Insert(u, row) /\ Finish(w) /\ holders' = holders
    BY DEF CreateWrite, At
  <1>2. u \notin Users /\ req[w].by \in InCharge /\ req[w].role \in VALID_ROLES
    BY <1>1 DEF UInv, Informed
  <1>3. row \in Row /\ row.requested = "employee"
    BY <1>2 DEF Row, VALID_ROLES
  <1>4. w \in Busy("create")
    BY <1>1 DEF Busy
  <1>5. row.requested \notin Admin /\ row.requested \notin HrHead
    BY <1>3 DEF Admin, HrHead
  <1> HIDE DEF row
  <1> QED
    BY <1>1, <1>2, <1>3, <1>4, <1>5, Finished, InsertStep

LEMMA SsoProvisionStep ==
    ASSUME OneWorker, UInv, NEW w \in Worker, NEW u, SsoProvision(w, u)
    PROVE  Kept
  <1> DEFINE row == [role |-> "employee", requested |-> "employee", status |-> "active",
                     suspended |-> FALSE, password |-> FALSE]
  <1>1. req[w] = Idle /\ u \notin Users /\ Insert(u, row) /\ UNCHANGED <<holders, req>>
    BY DEF SsoProvision, Fresh
  <1>2. row \in Row /\ row.role \notin Charge /\ row.requested \notin Admin /\ row.requested \notin HrHead
    BY DEF Row, VALID_ROLES, Admin, HrHead, Charge
  <1>3. DOMAIN req' = Worker /\ \A v \in Worker : Informed(req[v])'
    <2>1. \A v \in Worker : req'[v] = [op |-> "idle"]
      BY <1>1 DEF OneWorker, Idle
    <2> QED
      BY <1>1, <2>1 DEF UInv, UTypes, Informed
  <1> HIDE DEF row
  <1> QED
    BY <1>1, <1>2, <1>3, InsertStep

(* One account gets another role or standing, by somebody else in charge. *)
LEMMA PromoteStep ==
    ASSUME OneWorker, UInv, NEW w \in Worker, Finish(w), holders' = holders,
           w \in Busy("decide") \cup Busy("role"), NEW u \in Users, u = req[w].user,
           req[w].by \in InCharge \ {u}, acct[req[w].by].status # "pending_approval",
           w \in Busy("role") \/ acct[u].status = "pending_approval",
           NEW row \in Row, row.status # "pending_approval" \/ u \notin holders,
           acct' = [acct EXCEPT ![u] = row]
    PROVE  Kept
  <1>1. /\ Users' = Users /\ acct' \in [Users' -> Row]
        /\ acct'[u] = row /\ \A x \in Users \ {u} : acct'[x] = acct[x]
    BY DEF Users, UInv, UTypes
  <1>2. UInv'
    BY <1>1, Finished DEF UInv, UTypes, Admitted
  <1>3. /\ InCharge \subseteq Users /\ InCharge' \subseteq Users'
        /\ \A x \in Users \ {u} : x \in InCharge' <=> x \in InCharge
    BY <1>1 DEF InCharge
  <1>4. KeepsManager
    <2>1. \A x \in Users \ {u} : x \in CanManage' <=> x \in CanManage
      BY <1>1, <1>3 DEF CanManage, Barred
    <2>2. CASE acct[u].status = "pending_approval"
      BY <2>1, <2>2, <1>3 DEF KeepsManager, CanManage
    <2>3. CASE w \in Busy("role")
      BY <2>1, <2>3, <1>3 DEF KeepsManager, CanManage
    <2> QED
      BY <2>2, <2>3
  <1>5. GivesAuthority
    BY <1>1, <1>3 DEF GivesAuthority
  <1>6. Bootstraps
    BY <1>1 DEF Bootstraps
  <1> QED
    BY <1>2, <1>4, <1>5, <1>6 DEF Kept

LEMMA ApproveWriteStep ==
    ASSUME OneWorker, UInv, NEW w \in Worker, ApproveWrite(w)
    PROVE  Kept
  <1> DEFINE u == req[w].user
  <1>1. req[w].op = "decide" /\ Finish(w) /\ holders' = holders
    BY DEF ApproveWrite, At
  <1>2. /\ u \in Users /\ req[w].by \in InCharge \ {u} /\ req[w].role \in VALID_ROLES
        /\ acct[u] \in Row /\ acct[u].status = "pending_approval"
        /\ acct[req[w].by].status # "pending_approval"
    BY <1>1 DEF UInv, Informed, UTypes
  <1>3. w \in Busy("decide")
    BY <1>1 DEF Busy
  <1>4. PICK row : row = IF req[w].action = "approve"
                         THEN [acct[u] EXCEPT !.status = "active", !.role = req[w].role]
                         ELSE [acct[u] EXCEPT !.status = "rejected"]
    OBVIOUS
  <1>5. row \in Row /\ row.status # "pending_approval"
    BY <1>2, <1>4 DEF Row
  <1>6. acct' = [acct EXCEPT ![u] = row]
    BY <1>2, <1>4 DEF ApproveWrite, UInv, UTypes
  <1> QED
    BY <1>1, <1>2, <1>3, <1>5, <1>6, PromoteStep

LEMMA RoleWriteStep ==
    ASSUME OneWorker, UInv, NEW w \in Worker, RoleWrite(w)
    PROVE  Kept
  <1> DEFINE u == req[w].user
  <1>1. req[w].op = "role" /\ Finish(w) /\ holders' = holders
    BY DEF RoleWrite, At
  <1>2. /\ u \in Users /\ req[w].by \in InCharge \ {u} /\ req[w].role \in VALID_ROLES
        /\ acct[u] \in Row /\ acct[req[w].by].status # "pending_approval"
    BY <1>1 DEF UInv, Informed, UTypes
  <1>3. w \in Busy("role")
    BY <1>1 DEF Busy
  <1>4. PICK row : row = [acct[u] EXCEPT !.role = req[w].role]
    OBVIOUS
  <1>5. row \in Row /\ row.status = acct[u].status
    BY <1>2, <1>4 DEF Row
  <1>6. acct' = [acct EXCEPT ![u] = row]
    BY <1>2, <1>4 DEF RoleWrite
  <1>7. row.status # "pending_approval" \/ u \notin holders
    BY <1>5 DEF UInv, Admitted
  <1> QED
    BY <1>1, <1>2, <1>3, <1>5, <1>6, <1>7, PromoteStep

(* Steps that leave every role and standing alone. *)
LEMMA SwitchSteps ==
    ASSUME OneWorker, UInv, NEW w \in Worker, SuspendWrite(w) \/ EraseWrite(w)
    PROVE  Kept
  <1>1. UTypes
    BY DEF UInv
  <1>2. CASE SuspendWrite(w)
    <2>1. /\ req[w].op = "switch" /\ req[w].user \in Users /\ req[w].to \in BOOLEAN /\ Finish(w)
          /\ req[w].by \in InCharge \ {req[w].user} /\ acct[req[w].by].status # "pending_approval"
      BY <1>2 DEF SuspendWrite, At, UInv, Informed
    <2>2. SameStanding
      BY <1>1, <1>2, <2>1 DEF SuspendWrite, SameStanding, Users, UTypes, Row
    <2>3. KeepsManager
      <3>1. w \in Busy("switch")
        BY <2>1 DEF Busy
      <3>2. req[w].by \in CanManage => req[w].by \in CanManage'
        BY <1>1, <1>2, <2>1 DEF SuspendWrite, CanManage, InCharge, Barred, Users, UTypes
      <3> QED
        BY <2>1, <3>1, <3>2 DEF KeepsManager, CanManage
    <2> QED
      BY <1>1, <1>2, <2>1, <2>2, <2>3, Finished, StandingStep DEF SuspendWrite, UTypes
  <1>3. CASE EraseWrite(w)
    <2>1. req[w].op = "erase" /\ req[w].user \in Users /\ Finish(w)
      BY <1>3 DEF EraseWrite, At, UInv, Informed
    <2>2. SameStanding
      BY <1>1, <1>3, <2>1 DEF EraseWrite, SameStanding, Users, UTypes, Row
    <2>3. KeepsManager
      <3>1. w \in Busy("erase")
        BY <2>1 DEF Busy
      <3>2. CanManage \ {req[w].user} \subseteq CanManage'
        BY <1>1, <1>3, <2>1 DEF EraseWrite, CanManage, InCharge, Barred, Users, UTypes
      <3> QED
        BY <3>1, <3>2 DEF KeepsManager
    <2> QED
      BY <1>1, <1>3, <2>1, <2>2, <2>3, Finished, StandingStep DEF EraseWrite, UTypes
  <1> QED
    BY <1>2, <1>3

LEMMA TokenSteps ==
    ASSUME UInv, NEW u \in Users, Login(u) \/ TokenEnds(u) \/ PasswordReset(u)
    PROVE  Kept
  <1>1. UTypes
    BY DEF UInv
  <1>2. CASE Login(u) \/ TokenEnds(u)
    <2>1. acct' = acct /\ req' = req /\ holders' \subseteq Users
          /\ \A x \in holders' \ holders : acct[x].status # "pending_approval"
      BY <1>1, <1>2 DEF Login, TokenEnds, UTypes
    <2>2. SameStanding
      BY <1>1, <2>1 DEF SameStanding, Users, UTypes
    <2> QED
      BY <1>1, <2>1, <2>2, SameKeepsManager, StandingStep DEF UTypes
  <1>3. CASE PasswordReset(u)
    <2>1. SameStanding
      BY <1>1, <1>3 DEF PasswordReset, SameStanding, Users, UTypes, Row
    <2>2. KeepsManager
      <3>1. CanManage \subseteq CanManage'
        BY <1>1, <1>3 DEF PasswordReset, CanManage, InCharge, Barred, Users, UTypes
      <3> QED
        BY <3>1 DEF KeepsManager
    <2> QED
      BY <1>1, <1>3, <2>1, <2>2, StandingStep DEF PasswordReset, UTypes
  <1> QED
    BY <1>2, <1>3

(* Every step of Users keeps the invariant and the three promises.           *)
LEMMA UsersStep ==
    ASSUME OneWorker, UInv, Next
    PROVE  Kept
  <1>1. ASSUME NEW w \in Worker, Receive(w) PROVE Kept
    <2>1. holders \subseteq Users
      BY DEF UInv, UTypes
    <2> QED
      BY <1>1, <2>1, RegisterReadStep, SsoProvisionStep, ApproveAuthStep, SuspendAuthStep, RoleAuthStep,
         CreateAuthStep, EraseAuthStep DEF Receive
  <1>2. ASSUME NEW w \in Worker, Proceed(w) PROVE Kept
    BY <1>2, RegisterWriteStep, ApproveReadStep, ApproveWriteStep, SuspendReadStep, RoleWriteStep,
       CreateWriteStep, SwitchSteps DEF Proceed
  <1>3. ASSUME NEW u \in Users, Login(u) \/ TokenEnds(u) \/ PasswordReset(u) PROVE Kept
    BY <1>3, TokenSteps
  <1> QED
    BY <1>1, <1>2, <1>3 DEF Next

(* The inductive invariant of Users: what a request has read of the          *)
(* accounts is so until it writes, and nobody signed in awaits approval.     *)
THEOREM AccountsInvariant == OneWorker => (Spec => []UInv)
  <1> SUFFICES ASSUME OneWorker PROVE Spec => []UInv
    OBVIOUS
  <1>1. Init => UInv
    <2> SUFFICES ASSUME Init PROVE UInv
      OBVIOUS
    <2>1. UTypes /\ Admitted
      BY DEF Init, UTypes, Admitted, Users
    <2>2. \A w \in Worker : Informed(req[w])
      BY DEF Init, Idle, Informed
    <2> QED
      BY <2>1, <2>2 DEF UInv
  <1>2. UInv /\ [Next]_vars => UInv'
    <2>1. UInv /\ UNCHANGED vars => UInv'
      BY DEF vars, UInv, UTypes, Admitted, Informed, Users, InCharge, WithRole
    <2> QED
      BY <2>1, UsersStep DEF Kept
  <1> QED
    BY <1>1, <1>2, PTL DEF Spec

(* With one worker process the last account that can sign in and manage      *)
(* others is not suspended or demoted by anybody who could sign in himself,   *)
(* nor lost by a rejection or any sequence of such steps.                     *)
THEOREM LastManagerStays == OneWorker => (Spec => LastManagerIsSafe)
  <1> SUFFICES ASSUME OneWorker PROVE Spec => LastManagerIsSafe
    OBVIOUS
  <1>1. UInv /\ [Next]_vars => [KeepsManager]_vars
    BY UsersStep DEF Kept
  <1> QED
    BY <1>1, AccountsInvariant, PTL DEF Spec, LastManagerIsSafe, KeepsManager

(* With one worker process nobody comes to authority by himself: it is       *)
(* given by another account in charge, or is the first of its kind.          *)
THEOREM AuthorityComesFromOthers == OneWorker => (Spec => AuthorityIsGiven)
  <1> SUFFICES ASSUME OneWorker PROVE Spec => AuthorityIsGiven
    OBVIOUS
  <1>1. UInv /\ [Next]_vars => [GivesAuthority]_vars
    BY UsersStep DEF Kept
  <1> QED
    BY <1>1, AccountsInvariant, PTL DEF Spec, AuthorityIsGiven, GivesAuthority

(* With one worker process a privileged role can be asked for at             *)
(* registration only while nobody has it.                                    *)
THEOREM RolesAreBootstrappedOnce == OneWorker => (Spec => BootstrapOnlyWhenVacant)
  <1> SUFFICES ASSUME OneWorker PROVE Spec => BootstrapOnlyWhenVacant
    OBVIOUS
  <1>1. UInv /\ [Next]_vars => [Bootstraps]_vars
    BY UsersStep DEF Kept
  <1> QED
    BY <1>1, AccountsInvariant, PTL DEF Spec, BootstrapOnlyWhenVacant, Bootstraps

=============================================================================
