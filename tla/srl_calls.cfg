SPECIFICATION Spec
CONSTANTS
  Servers = {s1, s2}
  Services <- MCServices
  Vnis <- MCVnis
  Subifs <- MCSubifs
  AccessSubifs <- MCAccess
  Provisions <- MCProvisions
  Deletes <- MCDeletes
  Existing <- MCExisting
  None = None
  MaxCalls = 2
  red = red
  blue = blue
  green = green
  f1 = f1
  f2 = f2
  up = up
CHECK_DEADLOCK FALSE
INVARIANTS TypeOK ProvisionedMeansApplied ProvisionedIsComplete RemovalsLeaveOnlyRefused DeletedInstanceGone
PROPERTIES OthersUntouched
SYMMETRY ServerSymmetry
