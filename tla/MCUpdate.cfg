CONSTANTS
  t1 = t1
  t2 = t2
  Tab = {t1, t2}
  Private = {t2}
  Builds = 2
SPECIFICATION FairSpec
INVARIANT TapLandsOnNew
PROPERTIES OpenPagesDecide LoadEnds NoDeviceStranded
CHECK_DEADLOCK FALSE
