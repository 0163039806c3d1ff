----------------------------- MODULE MCAccounts -----------------------------
(***************************************************************************)
(* One instance of the three modules about accounts: a behaviour is one of *)
(* Users, of Sessions or of SecondFactor, whichever "part" says.  The      *)
(* three share no state, so a product of them would show nothing more.     *)
(***************************************************************************)
EXTENDS Users, TLC

CONSTANTS User, MaxSessions, MaxEpoch, MaxCode, MaxSecret

VARIABLES part, sess, access, blocked, cred, epoch, spent, sreq,
          totp, enabled, issued, accepted, freq

S == INSTANCE Sessions WITH req <- sreq
F == INSTANCE SecondFactor WITH req <- freq

svars == <<sess, access, blocked, cred, epoch, spent, sreq>>
fvars == <<totp, enabled, issued, accepted, freq>>

MCInit ==
    /\ part \in {"users", "sessions", "factor"}
    /\ Init /\ S!Init /\ F!Init
MCNext ==
    \/ part = "users" /\ Next /\ UNCHANGED <<part, svars, fvars>>
    \/ part = "sessions" /\ S!Next /\ UNCHANGED <<part, vars, fvars>>
    \/ part = "factor" /\ F!Next /\ UNCHANGED <<part, vars, svars>>
MCSpec == MCInit /\ [][MCNext]_<<part, vars, svars, fvars>>

RotationIsLinear == S!RotationIsLinear
ResetEndsSessions == S!ResetEndsSessions
CodeIsSpentOnce == S!CodeIsSpentOnce
EnabledSecretWasAccepted == F!EnabledSecretWasAccepted

Accounts == Permutations(Account)
=============================================================================
