\* Window of 2, so that 5 calls overflow it twice; 2 failed writes and 2
\* restarts, so that a gap survives a restart and a second gap can follow.
CONSTANTS
  MaxMessages = 2
  MaxCalls = 6
  MaxFails = 2
  MaxRestarts = 2
SPECIFICATION Spec
INVARIANTS
  TypeOK
  LogFaithful
  LossBound
  WindowTail
  WindowRecentUntilFull
PROPERTY RefinesLog
