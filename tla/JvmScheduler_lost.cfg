SPECIFICATION Spec
CONSTANTS
  w1 = w1
  o1 = o1
  o2 = o2
  Game = Game
  Stale = Stale
  NoThread = NoThread
  Worker <- MCWorker
  Obj <- MCObj
  Habits <- MCNesting
  MaxBlock = 3
  MaxToken = 3
  MaxFrames = 7
INVARIANT EveryBlockStaysQueued
CHECK_DEADLOCK FALSE
