SPECIFICATION ServicesSpec
CONSTANTS
  Units = {"u1"}
  MaxUnitChanges = 2
CHECK_DEADLOCK FALSE
INVARIANT
  TableOnlyUnits
