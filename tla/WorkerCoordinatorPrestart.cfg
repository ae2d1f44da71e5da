CONSTANTS
  NumChunks = 3
  Empty <- MCEmpty
  Budget = 2
  MaxFaults = 1
INVARIANT PrestartRolledBack
SPECIFICATION Spec
