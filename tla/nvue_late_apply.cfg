SPECIFICATION NvueSpec
CONSTANTS
  Servers = {s1}
  Trees <- OneKey
  InitConfigs <- NoConfig
  Merge <- MCMerge
  MaxRevs = 1
  MaxPolls = 2
  Faults <- NoFaults
  MayExpire = TRUE
  Crashes = FALSE
  set1 = set1
  unset1 = unset1
  set2 = set2
CHECK_DEADLOCK FALSE
INVARIANTS ErrorMeansUnchanged
