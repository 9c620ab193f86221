SPECIFICATION PluginsSpec
CONSTANTS
  a1 = a1
  a2 = a2
  a3 = a3
  a4 = a4
  jvm = jvm
  db = db
  odmbc = odmbc
  resman = resman
  Name <- MCName
  Addr <- MCAddr
  Result <- MCResult
  ReuseHandles = FALSE
  MaxHookId = 4
  MaxSubscribers = 2
  MaxTicket = 4
  MaxDepth = 1
  Plugin <- MCPlugin
  PluginsLoaded = 1
  OnCreateCalls <- MCOnCreateCalls
  LoadedCalls <- MCLoadedCalls
  FailsLate = {jvm}
  Engines = {"SQLITE", "PGSQL", "MYSQL"}
  ObjectSqlEngines = {"PGSQL", "MYSQL"}
  MysqlMaxParams = 1
  MaxTexts = 3
  MaxRuns = 2
  MaxSets = 2
  MaxRows = 2
  MaxParams = 2
  Target = {"t1", "t2"}
  MaxScripts = 2
  Handlers = {{"attack"}}
  Connection = {"c1"}
  MaxSockets = 2
  MaxSent = 3
  MaxWaiting = 1
  Resource = {"r1", "r2"}
  Total = 3
  Word = 8
  MaxSize = 2
  MaxTime = 2
  MaxVersion = 2
  SetName = {"s1"}
  MaxKey = 4
  Address = {"a1", "a2"}
  CdKey = {"k1", "k2"}
  Every = {"e1", "e2"}
  Counted = {"e1"}
  Late = {"e2"}
  Stoppable = {"e2"}
  Interval = 1
  MaxClock = 2
  MaxEvents = 2
  MaxSet = 1
INVARIANT PluginsTypeOK
INVARIANT EveryoneFindsTheirEvents
INVARIANT ClosedCodeRunsAtTheStartOnly
INVARIANT PreparedCountAgrees
INVARIANT EventDataIsOwn
INVARIANT BlockedIffAsked
INVARIANT AnswersOfThisOpening
INVARIANT CachedFileIsHeld
INVARIANT MemoryAddsUp
INVARIANT WalkIsComplete
INVARIANT BindingsAreAdmissions
INVARIANT NoneDueIsPassedOver
INVARIANT RunsNoMoreThanSet
PROPERTY ImplementsResultRows
CHECK_DEADLOCK FALSE
