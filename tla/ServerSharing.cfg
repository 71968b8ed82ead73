SPECIFICATION ServerSpec
CONSTANTS
  c1 = c1
  c2 = c2
  k1 = k1
  a = a
  b = b
  nul = nul
  inf = inf
  nan = nan
  absent = absent
  never = never
  Keys = {k1}
  Absent = absent
  Never = never
  Inf = inf
  NaN = nan
  Nul = nul
  Texts <- MCTexts
  IntMin <- MinusTwo
  IntMax = 1
  Sec = 2
  InstantMax = 60
  WrapU64 = 50
  ReserveMax = 9
  ScoreInf = 3
  MaxLevel = 2
  DbCount = 2
  SelectMax = 2
  MaxLen = 2
  MaxTime = 1
  Issued = {}
  Values = {}
  Deltas = {}
  SetOptions = {}
  Seconds = {}
  Millis = {}
  Stamps = {}
  ArrayMax = 9
  Body <- Programs
  Decimal <- Numeral
  Parses <- MCParses
  Performs <- MCPerforms
  Clients = {c1, c2}
  Streams <- Sharing
VIEW Seen
INVARIANTS
  ServerTypeOK
  SelectionIsOwn
  ScriptsStayLoaded
PROPERTIES
  ScriptIsPipeline
