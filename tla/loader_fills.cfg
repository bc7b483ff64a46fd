CONSTANTS
  Uris = {log, copy, replay}
  Texts <- MCTexts
  KindOf <- MCKindOf
  DayOf <- MCDayOf
  TextsOf <- MCTextsOf
  Trades <- MCTrades
  Symbol <- MCSymbol
  Quality <- MCQuality
  Bad = {odd}
  Runs = {daily}
  JobOf <- MCBackfill
  MaxUploads = 3
  MaxFailures = 0
  None = None
  log = log
  copy = copy
  replay = replay
  stub = stub
  early = early
  late = late
  odd = odd
  full = full
  empty = empty
  k1 = k1
  k2 = k2
  mnq = mnq
  hourly = hourly
  daily = daily
SPECIFICATION Spec
INVARIANT FillsKept
