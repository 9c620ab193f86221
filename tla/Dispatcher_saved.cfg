SPECIFICATION DispatcherSpec
CONSTANTS
  l1 = l1
  l2 = l2
  o1 = o1
  o2 = o2
  NULL = NULL
  Library <- MCLibrary
  Object <- MCObject
  nwnxinitdisabled = FALSE
  MaxDepth = 3
INVARIANT ScriptsOnly
