CONSTANTS
  boss = boss
  u = u
  q1 = q1
  q2 = q2
  f1 = f1
  Nothing = Nothing
  Emails = {boss, u}
  AdminEmail = boss
  Requests = {q1, q2}
  Seeds <- Beginnings
  RefundIds = {f1}
  MaxTokens = 2
  MaxWallets = 1
  MaxFaults = 1
SYMMETRY Symmetry
SPECIFICATION Spec
INVARIANTS
  OneWalletPerMail
PROPERTIES
  LastAdminStays
  ReviewsAreFinal
CHECK_DEADLOCK FALSE
