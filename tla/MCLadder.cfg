CONSTANTS
  file = file
  v40 = v40
  v30 = v30
  v25 = v25
  PoolSize = 47
  Paired = {file}
  Interval = 15
  Repair = 15
  FrameIds = 61
  Object <- MCObject
  Pool <- MCPool
  PacketLen <- MCPacketLen
  Rung <- MCRung
  Schedule <- MCSchedule
  Capacity <- MCCapacity
SPECIFICATION LadderSpec
INVARIANT BeaconWithinInterval
PROPERTY EveryRungConverges
