SPECIFICATION NvueFairSpec
CONSTANTS
  Servers = {s1, s2}
  Trees <- OneKey
  InitConfigs <- NoConfig
  Merge <- MCMerge
  MaxRevs = 2
  MaxPolls = 3
  Faults <- AllFaults
  MayExpire = TRUE
  Crashes = TRUE
  set1 = set1
  unset1 = unset1
  set2 = set2
CHECK_DEADLOCK FALSE
INVARIANTS NvueTypeOK OkMeansApplied TimeoutNeverAfterApplied NoRevisionLeft
PROPERTIES EveryCallReturns
