\* One worker process: requests cannot interleave, and the workflow's promises hold.
SPECIFICATION Spec
CONSTANTS
  Worker = {w1}
  TicketId = {t1}
  Employee = {ann} HrTeam = {hal} HrHead = {hana}
  None = None
  CloseDelay = 1 MaxCrashes = 0 MaxClock = 1 MaxHistory = 5
INVARIANTS TypeOK AnswerIsAnnounced SettledByTheRightPerson
PROPERTIES TerminalIsFinal AutoClosesOnlyOverdue ImplementsLifecycle
CHECK_DEADLOCK FALSE
