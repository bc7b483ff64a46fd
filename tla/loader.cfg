CONSTANTS
  Uris = {log, copy, replay, stub}
  Texts <- MCTexts
  KindOf <- MCKindOf
  DayOf <- MCDayOf
  TextsOf <- MCTextsOf
  Trades <- MCTrades
  Symbol <- MCSymbol
  Quality <- MCQuality
  Bad = {odd}
  Runs = {hourly, daily}
  JobOf <- MCJobOf
  MaxUploads = 3
  MaxFailures = 1
  None = None
  log = log
  copy = copy
  replay = replay
  stub = stub
  early = early
  late = late
  odd = odd
  full = full
  empty = empty
  k1 = k1
  k2 = k2
  mnq = mnq
  hourly = hourly
  daily = daily
SPECIFICATION FairSpec
INVARIANTS TypeOK RawWhole RowsOfCurrent NothingLost FreshUnlessFailed BestReplay
PROPERTY Converges
