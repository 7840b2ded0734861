SPECIFICATION Spec
CONSTANTS
  t1 = t1
  t2 = t2
  t3 = t3
  k1 = k1
  k2 = k2
  Thread = {t1, t2, t3}
  ProcessOf <- ThreeProcesses
  Key = {k1}
  NoKey = NoKey
  NoThread = NoThread
  Stripe = {1, 2}
  StripeOf <- NoCollision
  ClientTimeout <- TwoTicks
  Margin = 1
  Ceiling = 2
  Apis = FALSE
  Evictions = FALSE
  Hangs = TRUE
  Deaths = FALSE
  Denials = FALSE
PROPERTIES
  OnlyHungPeersAreOvertaken
