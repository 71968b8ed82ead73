SPECIFICATION Spec
CONSTANTS
  k1 = k1
  k2 = k2
  a = a
  nul = nul
  inf = inf
  nan = nan
  absent = absent
  never = never
  Keys = {k1}
  Absent = absent
  Never = never
  Inf = inf
  NaN = nan
  Nul = nul
  Texts <- MCTexts
  IntMin <- MinusTwo
  IntMax = 1
  Sec = 2
  InstantMax = 60
  WrapU64 = 50
  ReserveMax = 9
  ScoreInf = 3
  MaxLevel = 2
  DbCount = 1
  SelectMax = 1
  MaxLen = 2
  MaxTime = 2
  Issued <- DecrOps
  Values <- OneNumber
  Deltas <- UpOrDown
  SetOptions <- FewSets
  Seconds = {}
  Millis = {}
  Stamps = {}
VIEW Seen
PROPERTIES
  DecrementIsExact
