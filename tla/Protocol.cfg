CONSTANTS
  MsgIds = {m1, m2}
  StreamIds = {s1}
  Lengths = {2, 4}
  HeaderSize = 2
  MsgHeaderSize = 1
  CrcSize = 1
  MaxFramePayload = 3
  SliceLimit = 4
  WireSpace = 1
  MaxFaults = 1
SPECIFICATION Spec
INVARIANTS CheckedMessagesIntact NothingLost
PROPERTY FailureIsFinal
CHECK_DEADLOCK FALSE
SYMMETRY Symmetric
