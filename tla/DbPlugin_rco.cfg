\* SQLite used with SCO/RCO.
CONSTANTS
  Engines = {"SQLITE"}
  ObjectSqlEngines = {"SQLITE"}
  MysqlMaxParams = 1
  MaxTexts = 2
  MaxRuns = 2
  MaxSets = 1
  MaxRows = 2
  MaxParams = 1
SPECIFICATION DbSpec
PROPERTY MainLoopUnbroken
