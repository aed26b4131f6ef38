SPECIFICATION Spec
CONSTANTS
  Parameters <- SomeCalibrations
  Readings <- SomeReadings
  Positions <- SomePositions
  Demands <- SomeDemands
  NaN = NaN
INVARIANTS
  TargetsWithinActuator
PROPERTIES
  HoldsPosition
  TargetTracksSensor
  ReadingFollowsVoltage
