CONSTANTS
  x = x
  y = y
  hi = hi
  lo = lo
  None = None
  Garbage = Garbage
  WrongKey = WrongKey
  Slack = 1
  MaxPending = 2
  Interval = 3
  FrameIds = 3
  Object <- MCObject
  Sid <- MCObject
  Prefix <- MCObject
  SidOf <- MCSidOf
  PrefixOf <- MCSidOf
  K <- MCK
  KeyFor <- MCKeyFor
  Inflatable <- MCObject
  Paired = {x}
  Aimed = {x}
  Pool <- MCPool
  PacketLen <- MCPacketLen
  Rung = {hi, lo}
  Schedule <- MCSchedule
  Capacity <- MCCapacity
SPECIFICATION FairSpec
INVARIANTS HeldStaysHome
PROPERTIES ImplementsCourier Delivery
