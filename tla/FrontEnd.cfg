SPECIFICATION FSpec
CONSTANTS
  Columns = {1, 2, 3, 4, 5}
  Kinds = {"item", "lead", "open", "close"}
  MaxDepth = 3
  MaxBracket = 2
  Ops = {p, q, r}
  MaxDecls = 3
  MaxRels = 2
  MaxChain = 4
  Names = {a, b}
  MaxScopes = 4
  MaxBinders = 3
  MaxHandlers = 2
  Sources <- Saved
  Parses = {"loose", "ragged", "tidy"}
  Canonical <- Tidy
  Inodes = {1, 2, 3}
  MaxSaves = 3
  MaxRuns = 3
SYMMETRY Symmetric
CONSTRAINT Window
INVARIANTS
  Nested
  BracketsOpaque
  Tiled
  PositionsExact
  BlocksHold
  DeclsSurvive
  CommentsKept
  FixedUnlessBroken
  TableRight
  ShieldIsSplit
  PartialIsHonest
  WritesAreLocal
  
PROPERTY EditsKept
CHECK_DEADLOCK FALSE
