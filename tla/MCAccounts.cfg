\* One worker process: accounts, their sessions, their second factor.
SPECIFICATION MCSpec
CONSTANTS
  Worker = {w1}
  Account = {a, b, c} Asked = {"admin", "hr_head", "employee"} MaxBarred = 1
  User = {u} MaxSessions = 3 MaxEpoch = 2 MaxCode = 2 MaxSecret = 3
INVARIANTS RotationIsLinear ResetEndsSessions CodeIsSpentOnce EnabledSecretWasAccepted
PROPERTIES LastManagerIsSafe AuthorityIsGiven BootstrapOnlyWhenVacant
SYMMETRY Accounts
CHECK_DEADLOCK FALSE
