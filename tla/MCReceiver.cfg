CONSTANTS
  a = a
  b = b
  c = c
  d = d
  s1 = s1
  s2 = s2
  s3 = s3
  p1 = p1
  p2 = p2
  None = None
  Garbage = Garbage
  WrongKey = WrongKey
  Slack = 1
  MaxPending = 3
  Object <- MCObject
  Sid <- MCSid
  Prefix <- MCPrefix
  SidOf <- MCSidOf
  PrefixOf <- MCPrefixOf
  K <- MCK
  KeyFor <- MCKeyFor
  Inflatable <- MCInflatable
  Runs <- MCRuns
SPECIFICATION Spec
INVARIANTS TypeOK CountersAgree OneSession DeliveredIsAnnounced NothingLost NoStrandedObject
PROPERTY DoneIsFinal
