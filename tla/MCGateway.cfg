SPECIFICATION MCSpec
CONSTANTS
  Parts = {"units", "wardryx", "firewall", "broker", "keys", "cache", "identity"}
  Units = {eng}
  Uncapped = Uncapped
  BaseCap <- FileCaps
  NumCalls = 3
  LastMonth = 2
  Amounts = {1, 2}
  OverrideCaps = {1}
  DelayedLocks = FALSE
  Callers = {t1, t2}
  Requests <- ShellCalls
  Policies <- HookPolicies
  Closed = TRUE
  Ttl = 1
  Timeout = 1
  MaxNow = 3
  MaxCalls = 3
  MaxChanges = 1
  Posts = {1, 2, 3}
  RunOf <- RunOfPost
  Headers <- WebOrNone
  Histories <- PostHistories
  Answers <- PostAnswers
  Modes = {"off", "shadow", "enforce"}
  Streamed = {2}
  WasmLoaded = TRUE
  Clients = {t1, t2}
  Rpcs <- RpcRequests
  Default = "url1"
  Named <- Servers
  Vault <- Secrets
  Own <- OwnAnswers
  Configs <- BrokerConfigs
  ToolLists <- Lists
  Poisoned = {"bad"}
  ToolPolicies <- Vetoes
  MaxRpcs = 2
  MaxToolChanges = 1
  Keys = {"k1", "k2"}
  Configured = {"k1"}
  Bound = {"k2"}
  Readers = {t1, t2}
  Strict = {"enforce"}
  HasDir = TRUE
  HistoryTtl = 1
  MaxScan = 1
  MaxClock = 4
  MaxKeyCalls = 2
  Questions <- Asked
  Entities = {"5", "50"}
  Sim <- WordSim
  Threshold = 90
  CoreWords = 4
  MaxRatio = 150
  CacheTtl = 1
  Capacity = 2
  Serving = TRUE
  MaxLookUps = 4
  MaxHour = 3
  Documents <- SomeDocuments
  Presented <- KeyedCalls
  MaxPresented = 3
  MaxStarts = 2
INVARIANTS
  TypeOK UnitBooks UnitCapCeiling VerdictsCurrent TaintGates BrokeredCallsAccounted KeyReportsCurrent CacheHonest CallsAttributed
SYMMETRY TaskPerms
CHECK_DEADLOCK FALSE
