CONSTANTS
  Callers = {c1, c2}
  MaxSources = 3
  Nil = Nil
SPECIFICATION Spec
INVARIANTS SerializedUseIsSound TicksEndWithOwner
CHECK_DEADLOCK FALSE
