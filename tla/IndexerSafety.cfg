CONSTANTS
  p1 = p1
  p2 = p2
  token = token
  u1 = u1
  v1 = v1
  v2 = v2
  nobody = nobody
  NoLog = NoLog
  Half = 4
  Workers = {v1, v2}
  QueueSize = 1
  Content <- SomeLogs
  Pools = {p1}
  Addresses = {p1, p2, token}
  Accounts = {u1}
  MaxHeight = 4
  MaxFaults = 1
SPECIFICATION Spec
INVARIANTS
  TypeOK
  BlocksAccounted
  PublishedOnce
  SwapsAreFaithful
  NothingLost
PROPERTIES
  NoPoolIsRemembered
  BlocksSettle
CHECK_DEADLOCK FALSE
