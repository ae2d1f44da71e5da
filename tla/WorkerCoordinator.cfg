CONSTANTS
  NumChunks = 4
  Empty <- MCEmpty
  Budget = 2
  MaxFaults = 3
INVARIANTS ChildUndisturbed HandoffKept SuccessIsExact RoundProgress
PROPERTIES KeepsLedger RoundEnds
SPECIFICATION FairSpec
