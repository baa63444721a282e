SPECIFICATION CumulusSpec
CONSTANTS
  Servers = {s1, s2}
  Vlans <- MCVlans
  Vnis <- MCVnis
  Ports <- MCPorts
  SwitchPorts <- MCSwitchPorts
  Provisions <- NoProvisions
  Deletes <- TwoDeletes
  InitConfigs <- BothVlans
  None = None
  MaxRevs = 2
  MaxPolls = 1
  Faults <- NoFaults
  MayExpire = FALSE
  Crashes = FALSE
  p1 = p1
  p2 = p2
  up = up
CHECK_DEADLOCK FALSE
PROPERTIES PortNeverEmptied
