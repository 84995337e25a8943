SPECIFICATION FairDSpec
CONSTANTS
  Coro = {r, c1, c2}
  RootCo = r
  Payload = {m1, m2}
  Sup0 = 0
  RegionBound = 4
  MaxBuf = 2
  MaxTraffic = 2
INVARIANTS
  AnswersRequest
  ParkedInTurn
PROPERTY
  ReadyRuns
CHECK_DEADLOCK FALSE
