\* A session is deleted while a question in it is being answered.
SPECIFICATION Spec
CONSTANTS
  Worker = {w1, w2} User = {u} Session = {s1} Stream = {x} MAX_TURNS_PER_SESSION = 2
INVARIANT DeletedLeavesNothing
CHECK_DEADLOCK FALSE
