SPECIFICATION Spec
CONSTANTS
  w1 = w1
  o1 = o1
  o2 = o2
  Game = Game
  Stale = Stale
  NoThread = NoThread
  Worker <- MCWorker
  Obj <- MCObj
  Habits <- MCCareful
  MaxBlock = 2
  MaxToken = 2
  MaxFrames = 7
INVARIANT NoWaiterForgotten
CHECK_DEADLOCK FALSE
