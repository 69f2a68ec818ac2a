CONSTANTS
  Size = 8
  Align = 4
  Header = 2
  Mod = 16
  MaxMessageSize = 4
  Ids = {a, b}
  Lens = {2, 3, 5}
  NoMessage = NoMessage
SPECIFICATION FairSpec
INVARIANTS CountersInOrder NoOverwrite HeaderContiguous MessageComplete RestoreAccepted
PROPERTIES InOrder EventuallyHandled SpaceReturns
CHECK_DEADLOCK FALSE
