SPECIFICATION NxosSpec
CONSTANTS
  Servers = {s1, s2}
  MaxVlan = 5
  ServiceVlans = {2, 3, 4}
  Vnis <- MCVnis
  Names <- MCNames
  Ports = {e1, e2, e3}
  HalfWord = 3
  Provisions <- MCProvisions
  Deletes <- MCDeletes
  InitConfigs <- MCConfigs
  None = None
  MaxCalls = 3
  svc = svc
  e1 = e1
  e2 = e2
  e3 = e3
CHECK_DEADLOCK FALSE
INVARIANTS NxosTypeOK ProvisionedWorks DeletedLeavesNothing
PROPERTIES OthersUntouched TrunkNeverEmptied WholeOrNothing ImplementsAtomicWrite
SYMMETRY ServerSymmetry
