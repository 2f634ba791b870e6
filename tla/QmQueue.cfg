SPECIFICATION FairSpec
CONSTANTS
  s1 = s1
  s2 = s2
  r1 = r1
  r2 = r2
  NoOne = NoOne
  Senders = {s1, s2}
  Receivers = {r1, r2}
  SqDepth = 3
  CqDepth = 2
  UsedMod = 8
  Batches = {1, 2}
  MaxSend = 4
INVARIANTS InFlightIntact PhaseIffUnread UsedNumExact
PROPERTIES BusyOnlyWhenFull ImplementsFifo EveryRequestAnswered
