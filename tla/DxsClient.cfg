\* Two threads, so that two acceptors meet at one listening socket; two
\* connections and sockets for them, or two operations on one socket.
SPECIFICATION Spec
CONSTANTS
  Threads = {t, u}
  MaxListens = 1
  MaxSocks = 2
  MaxOps = 2
  MaxPings = 0
  MaxConnections = 2
  ServerVersions = {0, 3, 7}
  kMinimumWireVersion = 1
  kAcceptAckVersion = 4
  SendCloseOnTeardown = TRUE
SYMMETRY Symmetry
ACTION_CONSTRAINT Apart
INVARIANTS TypeOK RequestsAfterOpen ResultsAreReal ConnectionsConserved NothingPendingAfterFailure
CHECK_DEADLOCK FALSE
