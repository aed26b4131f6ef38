SPECIFICATION EncoderSpec
CONSTANTS
  NMT_TIMEOUT = 4
  NODEGUARD_PERIOD = 2
  MaxRx = 2
  Positions = {880, 4520}
  LOSSES = 1
INVARIANT StalePositionIsKnown
