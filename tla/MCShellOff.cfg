CONSTANTS
  Start = {r1, r2, r3}
  First = r1
  Sender = {t1}
  None = None
  Hasty = TRUE
  Overlap = FALSE
SPECIFICATION Spec
CHECK_DEADLOCK FALSE
INVARIANT OffIsDark
