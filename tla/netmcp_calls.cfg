SPECIFICATION NetmcpSpec
CONSTANTS
  Servers = {s1, s2}
  Tokens <- MCTokens
  Texts <- MCTexts
  Topologies <- MCTopologies
  Depth = 2
  TopologyFile <- MCTopologyFile
  Environments <- MCEnvironments
  ExistingLabs <- MCExistingLabs
  ExistingYml <- MCExistingYml
  MaxChanges = 3
  Targets <- MCTargets
  NodeNames <- MCNodeNames
  Services = {svc}
  Interfaces = {ifc}
  Bodies = {good, bad}
  ValidBodies = {good}
  Requests <- MCRequests
  ExistingConf <- MCExistingConf
  None = None
  Empty = Empty
  Malformed = Malformed
  Missing = Missing
  MaxCalls = 2
  svc = svc
  ifc = ifc
  good = good
  bad = bad
CHECK_DEADLOCK FALSE
INVARIANTS NetmcpTypeOK InventoryMatchesLab AnswersHold
PROPERTIES CallsReachTheirNode ImplementsAtomicWrite
SYMMETRY ServerSymmetry
