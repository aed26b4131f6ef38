SPECIFICATION Spec
CONSTANTS
  NMT_TIMEOUT = 4
  NODEGUARD_PERIOD = 2
  MaxRx = 2
INVARIANTS
  TypeOK
  OutageDetected
PROPERTY ImplementsMonitor
