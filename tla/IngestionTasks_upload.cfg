\* What upload_async promises of every document it accepts.
SPECIFICATION Spec
CONSTANTS
  Worker = {w1} Celery = {c1} Doc = {d1} Content = {x} MaxTasks = 2 max_retries = 1 MaxLost = 0
PROPERTY UploadIsIngested
CHECK_DEADLOCK FALSE
