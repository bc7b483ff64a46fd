CONSTANTS
  w1 = w1
  w2 = w2
  p1 = p1
  p2 = p2
  Codes = {"nq", "es"}
  Workers = {w1, w2}
  Procs = {p1, p2}
  Ids = {0, 1, 3}
  DefaultId <- MCDefaultId
  ReservedId = 42
  Strategies = {"nq", "es"}
  Starters = {w1, w2}
  Parents = {p1, p2}
  Pids = {1, 2}
  Init1 = init
  Callers = {w1, w2}
  Instructions = {1, 2}
  Executable = {1, 2}
  Hands = {w1, w2}
  SandboxIds = {1, 2, 3}
  Recorders = {w1, w2}
  IndexCap = 2
  MemoryCap = 1
  LastDay = 2
  FillDay <- MCFillDay
  Exporters = {w1, w2}
  Objects <- MCObjects
  MaxExports = 2
  Symbols = {"a", "b"}
  AllowShort = FALSE
  MaxOrderQty = 2
  MaxPositionQty = 1
  MaxOpenPositions = 1
  MaxNotional = 4
  MaxPlayers = 2
  Entrants = {1}
  CycleCalls = {w1, w2}
  Notionals = {2}
  BarPrices = {2}
  MaxCycles = 2
  Nobody = Nobody
  SentimentRuns = {w1, w2}
  Today = 2
  Futures = {"es", "nq"}
  WireTier = {}
  LowTier = {"p", "q"}
  Events = {2}
  Histories <- MCHistories
  OverridesMade <- MCOverrides
  LastTime = 1
  MaxHits = 2
  Calendar <- MCCalendar
  DayBooks <- MCDayBooks
  Nav = 10
  EnoughTrades = 3
  FewTrades = 2
  Trials = 0
  BootstrapP5 <- MCBootstrapP5
  MonthlySkew <- MCMonthlySkew
  ReplayDays = 2
  Clocks = {600, 700, 900, 1030}
  Tape <- MCTape
  Readings <- MCReadings
  SavedStates <- MCSavedStates
  HoldOvernight = FALSE
  LossLimit = 8
  MaxDayTrades = 2
  StopPct = 1
  Lots = 1
  Commission = 1
  Kinds = {"sleeve", "regime_filter", "overlay"}
  DataSets = {1, 2}
  Grids <- MCGrids
  Backtests <- MCBacktests
  DsrStep = 1
  MaxTunes = 2
SPECIFICATION HqSpec
SYMMETRY Interchangeable
INVARIANTS HqTypeOK DaemonsSound NakedOnlyIfRaised InstructionsObeyed SandboxSound StoresKeep EntrantsSound GatesRestrain ReportsAgree PassIsEarned
CHECK_DEADLOCK FALSE
