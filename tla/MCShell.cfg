CONSTANTS
  Start = {r1, r2, r3}
  First = r1
  Sender = {t1, t2}
  None = None
  Hasty = FALSE
  Overlap = FALSE
SPECIFICATION Spec
CHECK_DEADLOCK FALSE
INVARIANTS TypeOK OneCamera NeverDeaf OneTransferInFlight SenderOwnsCamera
PROPERTY OffGoesDark
