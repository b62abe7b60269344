CONSTANTS
  t1 = t1
  t2 = t2
  t3 = t3
  u1 = u1
  d1 = d1
  d2 = d2
  d3 = d3
  s1 = s1
  s2 = s2
  c1 = c1
  c2 = c2
  c3 = c3
  NoTrade = NoTrade
  NoCampaign = NoCampaign
  NoMessage = NoMessage
  Trades = {t1, t2, t3}
  Pushes = {u1}
  Campaigns = {s1, s2}
  CampaignOf <- Named
  Clients = {c1, c2, c3}
  Watches <- Viewers
  Admitted = {c1, c2}
  Capacity = 1
  Deposits = {d1, d2, d3}
  Undecodable = {t3}
  FromPool = {d2}
  Orphans = {d3}
  NotCommon = {t2}
  MaxMessages = 2
  MaxFaults = 1
SPECIFICATION Spec
INVARIANTS
  TypeOK
  StreamsWithoutGaps
  StalledOnlyByLag
  DepositsAreBooked
  AlertsMatchTheBooks
  TradesAnnouncedOnce
PROPERTIES
  TradesAreTaken
  EventsArrive
  DepositsAreHandled
CHECK_DEADLOCK FALSE
