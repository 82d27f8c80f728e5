CONSTANTS
  MaxPoints = 2
  MaxTrips = 2
  Columns <- MCColumns
SPECIFICATION Spec
INVARIANT GeometryIsKept
INVARIANT TripsAreStable
INVARIANT CutIsNoticed
