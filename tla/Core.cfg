SPECIFICATION CoreSpec
CONSTANTS
  Name <- MCName
  NameHash <- MCNameHash
  ReuseHandles = FALSE
  MaxTicket = 4
  MaxLength = 6
  MaxKey = 8
  l1 = l1
  l2 = l2
  o1 = o1
  o2 = o2
  NULL = NULL
  Library <- MCLibrary
  Object <- MCObject
  nwnxinitdisabled = FALSE
  MaxDepth = 3
INVARIANT HashesAreRotated
INVARIANT ServiceStaysUntilDestroyed
PROPERTY ImplementsServiceTable
INVARIANT SearchAnswers
PROPERTY EverySearchEnds
INVARIANT TellsScriptsFromServer
INVARIANT GetObjectAnswers
CHECK_DEADLOCK FALSE
