SPECIFICATION JunosSpec
CONSTANTS
  Servers = {s1, s2}
  Names <- MCNames
  Vlans <- MCVlans
  VlanName <- MCVlanName
  Vnis = {100, 200}
  Ports <- MCPorts
  AccessPorts = {e1, e2, e3, e4}
  Configured = {e1, e2, e3}
  Bridged = {e1, e2}
  Units = {10, 20}
  Provisions <- MCProvisions
  Deletes <- MCDeletes
  Existing <- MCExisting
  None = None
  MaxCalls = 3
  red = red
  blue = blue
  v10 = v10
  v20 = v20
  e1 = e1
  e2 = e2
  e3 = e3
  e4 = e4
  lo = lo
CHECK_DEADLOCK FALSE
INVARIANTS JunosTypeOK ProvisionedWorks DeletedLeavesNothing InstanceBacked
PROPERTIES ImplementsAtomicWrite
SYMMETRY ServerSymmetry
