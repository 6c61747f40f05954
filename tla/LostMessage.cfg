\* One failed write, one restart.
CONSTANTS
  MaxMessages = 2
  MaxCalls = 4
  MaxFails = 1
  MaxRestarts = 1
SPECIFICATION Spec
INVARIANT NothingLost
