CONSTANTS
  Transfer = {file, secret}
  Pair = {secret}
  Symbols = {1, 2, 3}
  K = 2
  None = None
  MaxLoads = 3
  MaxQueue = 2
SPECIFICATION Spec
CHECK_DEADLOCK FALSE
INVARIANTS CheckpointIsPure ResumeRestoresAll DeliveredIsForgotten OnlyStalePairingFails
PROPERTIES SavedNeverShrinks Delivery
