SPECIFICATION MCSafe
CONSTANTS
  Worlds = {"poll"}
  a = a
  s = s
  u = u
  Callers = {a}
  Calls <- SetupCalls
  Openers = {s, u}
  Ctxs <- Four
  Props <- TwoProps
  DefProp <- PairProp
  Policies = {"rr", "loop"}
  Compat <- PairCompat
  s1 = s1
  s2 = s2
  s3 = s3
  c1 = c1
  c2 = c2
  p1 = p1
  p2 = p2
  Sessions = {s1, s2, s3}
  Contexts = {c1, c2}
  Senders = {t1}
  Pollers = {p1, p2}
  Setups <- Freeing
  SkeyMax = 2
  Expect = 1
  Cap = 2
  MaxReq = 3
INVARIANTS PolledIsAlive
