SPECIFICATION FairSpec
CONSTANTS
  PVs = {1, 2}
  Names = {11, 12}
  ShortName <- TwoNames
  NoPV = NoPV
  Flapping = {2}
  MaxEvents = 4
  MaxFaults = 1
INVARIANTS TypeOK SetHasPVC
PROPERTIES OnlyLostDisksAreSwept OrphansAreTornDown ClaimsAreReleased DisksAreServed
CHECK_DEADLOCK FALSE
