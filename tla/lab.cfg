CONSTANTS
  Sleeves = {"nq", "stocks"}
  Config <- MCConfig
  BookConfig <- MCBookConfig
  Hysteresis = 20
  Market <- MCMarket
  Moves <- MCMoves
  DrawdownDays = 4
  NoEquity = NoEquity
  MaxCommands = 1
  Tickers <- MCTickers
  Dumps <- MCDumps
  Listed <- MCListed
  LastSession = 6
  MinSpan = 1
  MaxSpan = 4
  Warmup = 0
  Overlap = 2
  Starts = {1, 3}
  MaxSplits = 1
  Articles <- MCArticles
  NewsStarts = {1, 2}
  LastNewsDay = 3
  Stocks = {"a", "b"}
  Bars <- MCBars
  NoBar = NoBar
  CalendarDays = 4
  Specs <- MCSpecs
  NoLevel = 0
  MaxTrades = 2
  Slip = 1
  Fee = 1
  Targets <- MCTargets
  WeightSets <- MCWeightSets
  SleeveCodes <- MCSleeveCodes
  BigSleeve = "nq"
  MicroSleeve = "r2"
  DefaultContracts <- MCDefaultContracts
  MostTrades <- MCMostTrades
  Worlds <- MCWorlds
  GateSets <- MCGateSets
  Sizes = {4}
  Replies <- MCReplies
  MaxMoves = 1
  Prices = {10, 13}
  SignalBars = {1}
  MaxPaperTrades = 3
  MaxTriggers = 2
  MaxDeaths = 1
  Gaps = {4, 12}
  LastHour = 37
  DayMinutes = 1000
  RollMinute = 900
  DueMinute = 800
  MatchWindow = 10
  OffDays = {5}
  PaperStart = 0
  LogsOf <- MCLogsOf
  ReplaysOf <- MCReplaysOf
  Moments <- MCMoments
  CapLimit = 20
  PctFlag = 15
  FloorFlag = 2
  RoundTrip = 1
  StartCapital = 100
  Tradables = {"a", "b"}
  HistorySets <- MCHistorySets
  InitialCash = 100
  Notional = 20
  Shorts = FALSE
  OrderCap = 2
  PositionCap = 2
  OpenCap = 2
  NotionalCap = 30
SPECIFICATION LabSpec
INVARIANTS LabTypeOK AllocatorObeys SimulatorHonest  PaperLogReads DaySyncTells BacktestExplained
PROPERTIES ReleaseIsEarned FilesKept
CHECK_DEADLOCK FALSE
