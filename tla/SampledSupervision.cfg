SPECIFICATION Spec
CONSTANTS
  NMT_TIMEOUT = 1000
  NODEGUARD_PERIOD = 100
  MULTIPLICITY = 10
INVARIANTS
  SilenceDetected
  GuardsOnTime
