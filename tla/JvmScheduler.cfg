SPECIFICATION Spec
CONSTANTS
  w1 = w1
  o1 = o1
  o2 = o2
  Game = Game
  Stale = Stale
  NoThread = NoThread
  Worker <- MCWorker
  Obj <- MCObj
  Habits <- MCAll
  MaxBlock = 3
  MaxToken = 3
  MaxFrames = 7
INVARIANT TypeOK
INVARIANT RunsOnce
INVARIANT BlockStaysQueued
INVARIANT WorkerOrderKept
INVARIANT NoTokenIsMissed
PROPERTY ReturnsAfterItsBlock
CHECK_DEADLOCK FALSE
