CONSTANTS
  Futures = {"nq"}
  WireTier = {}
  LowTier = {"p", "q"}
  Events = {}
  Histories <- MCQuiet
  OverridesMade = {}
  LastTime = 7
  MaxHits = 2
SPECIFICATION GatesSpec
INVARIANT HaltHolds
CHECK_DEADLOCK FALSE
