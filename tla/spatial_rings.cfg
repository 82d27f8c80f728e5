CONSTANTS
  MaxPoints = 2
  MaxTrips = 1
  Columns <- MCColumns
SPECIFICATION Spec
INVARIANT ClockwiseRingsAreExteriors
