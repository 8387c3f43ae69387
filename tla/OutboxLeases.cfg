\* A publisher dies with a claimed event.
SPECIFICATION Spec
CONSTANTS
  Aggregates = {o1, o2}
  Workers = {w1, w2}
  Batch = 2
  MaxEvents = 2
  MaxCrashes = 1
PROPERTIES
  LeasesAreRecovered
CHECK_DEADLOCK FALSE
