SPECIFICATION TeardownSpec
CONSTANTS
  NMT_TIMEOUT = 2
  NODEGUARD_PERIOD = 1
  DS402_MIN_INTERVAL = 1
  ACTIVATE_DT = 1
  READ_MULTIPLICITY = 1
  WRITE_MULTIPLICITY = 1
  READ_OFFSET = 1
  WRITE_OFFSET = 1
  STEERING_ANGLE_RANGE = 1
  NaN = NaN
  RAD_PER_UNIT <- MCRadPerUnit
  Angles <- TwoAngles
  Biases <- NoBias
  Commands <- FarRight
  ACTUATOR_ZERO = 1
  COUNTS_PER_RAD = 1
  FEEDBACK_ZERO = 0
  Mishaps = {"drive restart"}
INVARIANTS
  DeadLinkNoticed
PROPERTIES
  AimsAtCommand
