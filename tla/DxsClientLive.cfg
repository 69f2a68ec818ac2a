SPECIFICATION FairSpec
CONSTANTS
  Threads = {t, u}
  MaxListens = 0
  MaxSocks = 1
  MaxOps = 2
  MaxPings = 1
  MaxConnections = 0
  ServerVersions = {0, 7}
  kMinimumWireVersion = 1
  kAcceptAckVersion = 4
  SendCloseOnTeardown = TRUE
PROPERTIES OpsAnswered CallsReturn InitCompletes
CHECK_DEADLOCK FALSE
