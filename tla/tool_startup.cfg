SPECIFICATION FairSpec
CONSTANTS
  old = old
  new = new
  side = side
  Servers = {old, new, side}
  Files = {1, 2, 3}
  NoFile = NoFile
  Shipped <- MCShipped
  VersionOf <- MCVersionOf
INVARIANTS
  TypeOK
  AppliedExactly
  ServingIsMigrated
PROPERTIES
  LandsInOrder
  StartsEnd
  CollisionsCease
CHECK_DEADLOCK TRUE
