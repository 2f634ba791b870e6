\* No symmetry, because liveness is checked.
SPECIFICATION MCSpec
CONSTANTS
  Worlds = {"sync", "soft", "hash"}
  NoOne = NoOne
  Threads = {t1, t2}
  Cap = 3
  Timeout = 2
  IdNum = 3
  MaxCalls = 6
  Posters = {q1, q2, q3}
  Receivers = {r1, r2}
  Depth = 2
  Width = 8
  MaxSend = 3
  Unheld = Unheld
  Jobs <- ThreeJobs
  Kind <- Mixed
  Readers = {d1, d2}
  Lanes = 2
  Tries = 2
  Nil = Nil
INVARIANTS  OwnAnswerUntilTimeout BacklogIsAbandoned SoftExact JobsExact
PROPERTIES EveryCallReturns QueuesDrain
