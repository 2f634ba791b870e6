SPECIFICATION FairSpec
CONSTANTS
  t1 = t1
  t2 = t2
  Threads = {t1, t2}
  Setups <- Platforms
  Retries = 3
  MaxLost = 2
INVARIANTS StatusHanded DownHoldsNothing InitServes
PROPERTIES EveryInitReturns
