SPECIFICATION ZSetsSpec
CONSTANTS
  k1 = k1
  a = a
  b = b
  c = c
  inf = inf
  nan = nan
  absent = absent
  never = never
  Keys = {k1}
  Absent = absent
  Never = never
  Inf = inf
  NaN = nan
  Nul = a
  Texts <- MCTexts
  IntMin <- MinusOne
  IntMax = 1
  Sec = 2
  InstantMax = 60
  WrapU64 = 50
  ReserveMax = 9
  ScoreInf = 2
  MaxLevel = 2
  DbCount = 1
  SelectMax = 1
  MaxLen = 2
  MaxTime = 0
  Issued <- ZOps
  Values <- OneWord
  Deltas = {}
  SetOptions <- Plain
  Seconds = {}
  Millis = {0, 1}
  Stamps = {}
  Before <- ByName
  Names = {a, b, c}
  Amounts <- Steps
  Pairs <- SomePairs
  Flags <- SomeFlags
  Limits <- SomeLimits
  Places <- Around
  MaxCount = 2
VIEW Seen
INVARIANTS
  IndicesAgree
  RanksAreExact
PROPERTIES
  KeepsRanking
  EmptyOnlyFromRefusal
  ZSetsKeepDeadlines
