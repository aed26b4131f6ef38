SPECIFICATION Spec
CONSTANTS
  NMT_TIMEOUT = 4
  NODEGUARD_PERIOD = 2
  DS402_MIN_INTERVAL = 2
  ACTIVATE_DT = 1
  Angles = {0}
  Biases = {0}
  ACTUATOR_ZERO = 0
  COUNTS_PER_RAD = 1
  FEEDBACK_ZERO = 0
  RAD_PER_UNIT = 1
  Mishaps = {"drive fault"}
PROPERTIES
  DriveIsEnabled
  FaultIsSeen
