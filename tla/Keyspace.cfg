SPECIFICATION Spec
CONSTANTS
  k1 = k1
  k2 = k2
  a = a
  nul = nul
  inf = inf
  nan = nan
  absent = absent
  never = never
  Keys = {k1, k2}
  Absent = absent
  Never = never
  Inf = inf
  NaN = nan
  Nul = nul
  Texts <- MCTexts
  IntMin <- MinusTwo
  IntMax = 1
  Sec = 2
  InstantMax = 60
  WrapU64 = 50
  ReserveMax = 9
  ScoreInf = 3
  MaxLevel = 2
  DbCount = 1
  SelectMax = 2
  MaxLen = 2
  MaxTime = 2
  Issued <- AllOps
  Values <- WordOrOne
  Deltas <- UpOrDown
  SetOptions <- AllSets
  Seconds <- SecondsArgs
  Millis <- AgoOrLater
  Stamps <- StampArgs
VIEW Seen
SYMMETRY SymKeys
INVARIANTS
  TypeOK
  NoOrphanDeadline
  ReadersAgree
PROPERTIES
  StepsKeepPromise
  RevivedOnlyBy
  WritesReadBack
