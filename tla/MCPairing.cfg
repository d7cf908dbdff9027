CONSTANTS
  d1 = d1
  d2 = d2
  d3 = d3
  Device = {d1, d2, d3}
  Identified <- MCIdentified
  Peer <- MCPeer
  None = None
  K = 2
SPECIFICATION Spec
CHECK_DEADLOCK FALSE
INVARIANTS TypeOK ReleasedToItsPeer OnlyMeantOpens NeverMixed VerifiedMeansDelivered
PROPERTY LoneTransferDelivers
