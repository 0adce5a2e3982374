SPECIFICATION Spec
CONSTANTS
  HourLength = 2
  SampleAge = 1
  RollupAge = 4
  IncidentAge = 1
  Alerted = {1}
  MaxTime = 6
  MaxSamples = 2
  MaxIncidents = 2
  MaxRestarts = 1
INVARIANT SamplesAreDeleted
CHECK_DEADLOCK FALSE
