\* Documents ingested by Celery, webhooks, the balancer of the model's nodes,
\* the start of the processes.
SPECIFICATION MCSpec
CONSTANTS
  Worker = {w1} Celery = {c1, c2} max_retries = 1 MaxLost = 1
  Doc = {d1, d2} Content = {x} MaxTasks = 2
  Hook = {h1, h2}
  NodeCount = 2 Caller = {a1} Thread = {p1, p2} MaxOutages = 2
  Process = {s1, s2} Columns = 3 Defaults = 2 MaxOwn = 1 MaxCrashes = 2
INVARIANTS  DuplicatesArePaidFor
PROPERTIES  DispatchEnds UpIsFoundHealthy StartsComplete
CHECK_DEADLOCK FALSE
