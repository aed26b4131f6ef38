SPECIFICATION FairSpec
CONSTANTS
  NMT_TIMEOUT = 3
  NODEGUARD_PERIOD = 1
  DS402_MIN_INTERVAL = 1
  ACTIVATE_DT = 1
  READ_MULTIPLICITY = 2
  WRITE_MULTIPLICITY = 2
  READ_OFFSET = 0
  WRITE_OFFSET = 1
  STEERING_ANGLE_RANGE = 1
  NaN = NaN
  RAD_PER_UNIT = 1
  Angles = {0}
  Biases = {0}
  Commands = {0}
  ACTUATOR_ZERO = 0
  COUNTS_PER_RAD = 1
  FEEDBACK_ZERO = 0
  Mishaps = {"drive fault", "drive restart", "configure error"}
INVARIANTS
  TypeOK
  ControllerPresent
PROPERTIES
  StaysStopped
  ImplementsLifecycle
  ClosedLinkTornDown
  DeadDriveTornDown
  FaultEndsActive
