SPECIFICATION FairSpec
CONSTANTS
  a = a
  b = b
  trader = trader
  ops1 = ops1
  ops2 = ops2
  eng = eng
  mom = mom
  Symbols = {a}
  Recipients = {trader, ops1, ops2, eng}
  Profile <- Team
  Raising = {trader, ops1, eng}
  NoRecipient = NoRecipient
  Presets = {mom}
  Default = Default
  Policies = {"auto", "manual", "deny"}
  Cycles = 3
  MaxBlocks = 2
INVARIANTS
  TypeOK
  AuditTells
  SupervisorHalts
  AgentsActBetweenPasses
  AtMostOneSend
  AttemptsRecorded
PROPERTY
  ServeEnds
CHECK_DEADLOCK FALSE
