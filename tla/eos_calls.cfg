SPECIFICATION EosSpec
CONSTANTS
  Servers = {s1, s2}
  Vlans <- ThreeVlans
  Names <- MCNames
  Vnis = {100, 200}
  Ports = {e1, e2, e3, po1}
  Ethernets = {e1, e2, e3}
  Trunks = {e1, e2, po1}
  Ranges = {r}
  RangeVlans <- MCRangeVlans
  Provisions <- SerialProvisions
  Deletes <- SerialDeletes
  Existing <- SerialConfigs
  None = None
  MaxCalls = 3
  Unreachable = TRUE
  Crashes = TRUE
  red = red
  bundle = bundle
  e1 = e1
  e2 = e2
  e3 = e3
  po1 = po1
  r = r
CHECK_DEADLOCK FALSE
CONSTRAINT CallsBound
INVARIANTS EosTypeOK ProvisionedWorks DeletedLeavesNothing InstanceBacked
PROPERTIES OthersUntouched TrunkNeverOpened ImplementsAtomicWrite
SYMMETRY ServerSymmetry
