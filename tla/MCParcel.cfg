CONSTANTS
  one = one
  two = two
  dead = dead
  None = None
  Rung <- MCRung
  Holds <- MCHolds
  MaxBytes = 3000
  File <- MCFile
  Mtu = 161
  Cuts <- MCCuts
SPECIFICATION Spec
CHECK_DEADLOCK FALSE
INVARIANTS CapacityExact FramesFit OnlyShownIsRead CompleteSetOpens DeliveredAsSent HarmlessLabel
