SPECIFICATION Spec
CONSTANTS
  a1 = a1
  a2 = a2
  Name <- MCName
  Addr <- MCAddr
  Result <- MCResult
  ReuseHandles = FALSE
  MaxHookId = 2
  MaxSubscribers = 3
  MaxTicket = 3
  MaxDepth = 2
SYMMETRY Interchangeable
INVARIANT HooksSorted
INVARIANT CountIsZeroIffNobodyHooked
INVARIANT HandlesDesignateTheirHook
INVARIANT CallsInHookOrder
PROPERTY EveryDueHookIsCalled
PROPERTY ImplementsEventBus
