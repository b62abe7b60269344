CONSTANTS
  e1 = e1
  e2 = e2
  s1 = s1
  s2 = s2
  r1 = r1
  r2 = r2
  t1 = t1
  t2 = t2
  w1 = w1
  NoEvent = NoEvent
  NoSession = NoSession
  Events = {e1, e2}
  Malformed = {}
  Sessions = {s1}
  Wallets = {w1}
  Approved = {}
  Tasks = {t1, t2}
  Replicas = {r1}
  Home <- OneReplica
  WalletOf <- OneWallet
  Deposit <- Holdings
  Watchers <- EveryoneWatches
  Buy <- Swaps
  PovBps <- TenPercent
  Total <- Totals
  ReconcileLimit = 25
  MaxFaults = 0
SPECIFICATION Spec
INVARIANT NeverOversold
CHECK_DEADLOCK FALSE
