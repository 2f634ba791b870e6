SPECIFICATION FairSpec
CONSTANTS
  s1 = s1
  s2 = s2
  p1 = p1
  p2 = p2
  Senders = {s1, s2}
  Pollers = {p1, p2}
  MsgNum = 2
  Cap = 2
  Expects = {2}
  Faults = {"tag"}
  MaxReq = 3
INVARIANTS NoMsgLeak TagNamesRequest CallbackAtMostOnce
PROPERTIES EveryRequestCalledBack
