SPECIFICATION Spec
CONSTANTS
  Fd <- ThreeDescriptors
  MaxQueue = 2
  MaxFrames = 4
INVARIANTS
  DescriptorsAccounted
  ReadyToRead
PROPERTIES
  ImplementsChannel
