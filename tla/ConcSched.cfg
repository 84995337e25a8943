SPECIFICATION SSpec
CONSTANTS
  Coro = {r, c1, c2, c3}
  RootCo = r
  Payload = {m}
  Sup0 = 1
  RegionBound = 6
  MaxBuf = 1
  NestBound = 3
  Word = 9
  MaxCafs = 3
  MaxDrives = 3
SYMMETRY ChildSymmetry
INVARIANTS
  TypeOK
  OnePlace
  ChanExclusive
  NoInternalError
  HandlesOwn
  DeadlockIsReal
  NoCarrierCrosses
  MintedOnce
  ServedByMinter
PROPERTIES
  CacheStable
CHECK_DEADLOCK FALSE
