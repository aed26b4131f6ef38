SPECIFICATION Spec
CONSTANTS
  Parameters <- SmallTimings
  MAX_CYCLES = 9
INVARIANTS
  Staggered
PROPERTIES
  ActsOnSchedule
