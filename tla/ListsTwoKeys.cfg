SPECIFICATION ListsSpec
CONSTANTS
  k1 = k1
  k2 = k2
  a = a
  b = b
  nul = nul
  inf = inf
  nan = nan
  absent = absent
  never = never
  Keys = {k1, k2}
  Absent = absent
  Never = never
  Inf = inf
  NaN = nan
  Nul = nul
  Texts <- MCTexts
  IntMin <- MinusTwo
  IntMax = 1
  Sec = 2
  InstantMax = 60
  WrapU64 = 50
  ReserveMax = 9
  ScoreInf = 3
  MaxLevel = 2
  DbCount = 1
  SelectMax = 1
  MaxLen = 3
  MaxTime = 1
  Issued <- IssuedOps
  Values <- Singles
  Deltas = {}
  SetOptions <- Plain
  Seconds = {}
  Millis = {1}
  Stamps = {}
  Elements = {a, b}
  Indices <- Around
VIEW Seen
SYMMETRY SymKeys
INVARIANTS
  RangeIsExact
PROPERTIES
  EmptiedOnlyByLRem
  ListsKeepDeadlines
  MoveConserves
