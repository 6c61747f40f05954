\* No write fails: one restart is enough.
CONSTANTS
  MaxMessages = 2
  MaxCalls = 4
  MaxFails = 0
  MaxRestarts = 1
SPECIFICATION Spec
INVARIANT WindowIsRecent
