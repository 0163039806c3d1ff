\* What one question leaves in the answer cache.
SPECIFICATION Spec
CONSTANTS
  Chunk = {k1, k2} QueryType = {"factual"} Score = {300, 900}
  dense_top_k = 2 bm25_top_k = 2 rerank_top_n = 2 fetch_factor = 1
  MAX_RETRIES = 1 MaxParts = 2 MaxClaims = 2
INVARIANT OnlyGroundedIsCached
CHECK_DEADLOCK FALSE
