CONSTANTS
  a1 = a1
  a2 = a2
  a3 = a3
  x1 = x1
  x2 = x2
  g1 = g1
  g2 = g2
  wrong = wrong
  z = z
  Ips <- MCIps
  Repl <- MCRepl
  Garbage <- MCGarbage
  WrongType = wrong
  Rec <- MCRecShortComm
  MaxCycles = 3

SPECIFICATION Spec

INVARIANT IdempotentRestart

\* Replay stops after the cycles explored.
CHECK_DEADLOCK FALSE
