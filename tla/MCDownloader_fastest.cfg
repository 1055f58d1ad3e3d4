CONSTANTS
  n1 = n1
  n2 = n2
  Nas = {n1, n2}
  Routes <- TwoRoutes
  Available = {n1, n2}
  MaxSpeed = 2
  MaxUses = 3
  MaxUpdates = 1
SPECIFICATION FairSpec
CONSTRAINT Undisturbed
PROPERTIES SelectsFastest
CHECK_DEADLOCK FALSE
