SPECIFICATION Spec
CONSTANTS
  NODEGUARD_PERIOD = 100
  NMT_TIMEOUT = 1000
  LOSSES = 8
  LATENCY = 99
INVARIANTS
  TypeOK
  NoFalseFault
