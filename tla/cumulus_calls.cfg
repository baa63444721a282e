SPECIFICATION CumulusSpec
CONSTANTS
  Servers = {s1, s2}
  Vlans <- MCVlans
  Vnis <- MCVnis
  Ports <- MCPorts
  SwitchPorts <- MCSwitchPorts
  Provisions <- MCProvisions
  Deletes <- MCDeletes
  InitConfigs <- MCConfigs
  None = None
  MaxRevs = 2
  MaxPolls = 2
  Faults <- AllFaults
  MayExpire = TRUE
  Crashes = TRUE
  p1 = p1
  p2 = p2
  up = up
CHECK_DEADLOCK FALSE
INVARIANTS CumulusTypeOK ProvisionedWorks DeletedLeavesNothing
PROPERTIES OthersUntouched ImplementsLateWrite
SYMMETRY ServerSymmetry
VIEW CallsView
