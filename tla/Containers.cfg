SPECIFICATION ContainersSpec
CONSTANTS
  k1 = k1
  k2 = k2
  a = a
  b = b
  inf = inf
  nan = nan
  absent = absent
  never = never
  Keys = {k1, k2}
  Absent = absent
  Never = never
  Inf = inf
  NaN = nan
  Nul = a
  Texts <- MCTexts
  IntMin <- MinusOne
  IntMax = 1
  Sec = 2
  InstantMax = 60
  WrapU64 = 50
  ReserveMax = 9
  ScoreInf = 3
  MaxLevel = 2
  DbCount = 1
  SelectMax = 1
  MaxLen = 1
  MaxTime = 2
  Issued <- ContainerOps
  Values <- OneWord
  Deltas = {}
  SetOptions <- Plain
  Seconds = {}
  Millis = {1}
  Stamps = {}
  Fields = {a, b}
  FieldPairs <- SomePairs
  Amounts <- UpOrDown
  Names = {a, b}
VIEW Seen
SYMMETRY SymKeys
INVARIANTS
  NoOrphanDeadline
  HashReadersAgree
  SetReadersAgree
PROPERTIES
  ErrorsLeaveNoTrace
  HollowOnlyByStore
  ContainersKeepDeadlines
  SMoveConserves
  NoMemberFromTheDead
