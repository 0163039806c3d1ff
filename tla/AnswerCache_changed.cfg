\* A document is replaced or reindexed while answers that cite it are cached.
SPECIFICATION Spec
CONSTANTS
  Worker = {w1} Query = {p, q} Doc = {d, e} SameName = {e} MaxEdition = 2 MaxMemory = 1
INVARIANT ServedIsCurrent
CHECK_DEADLOCK FALSE
