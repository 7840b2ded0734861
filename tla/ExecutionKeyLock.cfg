SPECIFICATION Spec
CONSTANTS
  t1 = t1
  t2 = t2
  t3 = t3
  k1 = k1
  k2 = k2
  Thread = {t1, t2, t3}
  ProcessOf <- PairAndPeer
  Key = {k1, k2}
  NoKey = NoKey
  NoThread = NoThread
  Stripe = {1}
  StripeOf <- Collision
  ClientTimeout <- TwoTicks
  Margin = 1
  Ceiling = 2
  Apis = TRUE
  Evictions = TRUE
  Hangs = TRUE
  Deaths = TRUE
  Denials = TRUE
SYMMETRY Alike
INVARIANTS
  KeyLockInv
  Exclusion
  NoSelfDenial
PROPERTIES
  OutwaitsHolder
  ImplementsMutex
