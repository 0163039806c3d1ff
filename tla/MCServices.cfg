\* One uvicorn worker, but two (Other) for the conversations.
SPECIFICATION MCSpec
CONSTANTS
  Worker = {w1} One = {x, y} Other = {m, n}
  Celery = {c1} Slug = {"default", "acme"} Reserved = {} None = None Limit = {1} max_retries = 1
  Limits = {1} MaxUsage = 3
  Session = {s1} Stream = {s, t} MAX_TURNS_PER_SESSION = 3
  Doc = {d, e} SameName = {e} MaxEdition = 2 MaxMemory = 1
  min_feedback_count = 2 MaxFeedback = 2 MaxCorrections = 1 MaxVersions = 2 MaxItems = 2
  MAX_TASK_HISTORY = 1 MaxRestarts = 1
  Chunk = {k1, k2, k3} QueryType = {"factual"} Score = {300, 900}
  dense_top_k = 2 bm25_top_k = 2 rerank_top_n = 2 fetch_factor = 1
  size = 6 overlap = 2 MIN_CHUNK_WORDS = 3 Length = {1, 2, 5} MaxSections = 2 MaxSentences = 3
  MAX_RETRIES = 2 MaxParts = 2 MaxClaims = 2
  GLOBAL_RATE_WINDOW = 1 LOGIN_WINDOW_SECONDS = 1 FAILED_WINDOW = 4 ACCOUNT_LOCKOUT_SECONDS = 3
  REGISTRATION_WINDOW_SECONDS = 2 USER_QUERY_RATE_WINDOW = 1 UPLOAD_RATE_WINDOW = 1
  QUERY_WINDOW = 2 DAY = 2
  GLOBAL_RATE_LIMIT = 2 MAX_LOGIN_ATTEMPTS_PER_IP = 1 MAX_FAILED_PER_ACCOUNT = 2
  MAX_REGISTRATIONS_PER_IP = 1 USER_QUERY_RATE_LIMIT = 1 UPLOAD_RATE_LIMIT = 1
  queries_per_hour = 1 uploads_per_day = 1 Account = {"user"}
INVARIANTS CachedConfigIsCurrent SnapshotIsTheTenants OverrunIsBounded
  TurnsAreCapped DeletedIsNotServed
  JobsLeaveAVerdict ReadableIsFound LostPiecesAreShort GuessesAreBounded
PROPERTIES EditsAreRecoverable
SYMMETRY Alike
CHECK_DEADLOCK FALSE
