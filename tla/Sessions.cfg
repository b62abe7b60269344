CONSTANTS
  s0 = s0
  r1 = r1
  r2 = r2
  r3 = r3
  u1 = u1
  u2 = u2
  admin = admin
  w1 = w1
  w2 = w2
  gw = gw
  p1 = p1
  p2 = p2
  p3 = p3
  Nothing = Nothing
  Requests = {r1, r2}
  Asks <- SomeAsks
  Seed <- Seeded
  Admins = {admin}
  Wallets = {w1, w2}
  OwnerOf <- WalletOwners
  GasWallet = gw
  Depth <- Reserves
  BadRoute = {p3}
  Start <- Balances
  Padding = 50
  ChunkDivisor = 10
  DefaultSwaps = 2
  MaxSwaps = 5
  Shares = {5, 20}
  MaxFaults = 2
  MaxSales = 2
SPECIFICATION Spec
INVARIANTS
  TypeOK
  SessionsAreWhole
PROPERTIES
  FundedBeforeActive
  GasArrives
CHECK_DEADLOCK FALSE
