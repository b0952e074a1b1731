\* Ten frame times; three keyframes over two ticks start an estimation.
CONSTANTS
  MinKeyframes = 3
  MinPeriod = 2
  MaxPeriod = 4
  MaxIntegration = 2
  UpdatePeriod = 2
  Capacity = 3
  MaxTime = 10
SPECIFICATION Spec
INVARIANTS GravityKnownWhenOk HealthyWhileInitialising TimelineInMap
PROPERTIES IntegrationIsBrief EstimatorFindsKeyframes
CHECK_DEADLOCK FALSE
