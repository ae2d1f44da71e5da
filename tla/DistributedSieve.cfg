CONSTANTS
  Workers = 3
  Total = 2
  Yield <- MCYield
  Timeout = 1
  Grace = 1
  MaxAge = 0
INVARIANTS LeaseNotPulled SuccessHasEvidence WaveAccountedFor LeasesConverge ResultExact
PROPERTIES RetryIsSafe CallEnds
SPECIFICATION FairSpec
