CONSTANTS
  n1 = n1
  n2 = n2
  Nas = {n1}
  Routes <- OneRoute
  Available = {n1}
  MaxSpeed = 1
  MaxUses = 3
  MaxUpdates = 1
SPECIFICATION FairSpec
INVARIANTS TypeOK LeftoverAccounted RowsSettle
PROPERTIES TestEnds ServiceEnds
CHECK_DEADLOCK FALSE
