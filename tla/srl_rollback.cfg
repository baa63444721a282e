SPECIFICATION Spec
CONSTANTS
  Servers = {s1}
  Services <- MCServices
  Vnis <- MCVnis
  Subifs <- MCSubifs
  AccessSubifs <- MCAccess
  Provisions <- OwnProvisions
  Deletes <- OwnDeletes
  Existing <- MCExisting
  None = None
  MaxCalls = 1
  red = red
  blue = blue
  green = green
  f1 = f1
  f2 = f2
  up = up
CHECK_DEADLOCK FALSE
INVARIANTS RollbackKeepsExisting
