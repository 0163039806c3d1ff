\* Two worker processes, one of which may be killed, under fairness: what holds under
\* every interleaving.
SPECIFICATION FairSpec
CONSTANTS
  Worker = {w1, w2}
  TicketId = {t1}
  Employee = {} HrTeam = {} HrHead = {hana}
  None = None
  CloseDelay = 0 MaxCrashes = 1 MaxClock = 0 MaxHistory = 3
INVARIANTS HistoryEndsInStatus ResolvedHasDeadline
PROPERTIES RequestsEnd OverdueIsSettled
CHECK_DEADLOCK FALSE
