SPECIFICATION Spec
CONSTANTS
  Networks <- SomeNetworks
  Positions <- FarLeft
  Readings <- Volts
  StatusFlags = {656}
  StateBytes = {127, 133}
  OrderedWords = {15}
  MaxFrames = 1
  MaxLost = 1
INVARIANTS
  DriveTakesWhatIsSent
PROPERTIES
  HeardAsSent
  EachFrameItsOwner
