SPECIFICATION FairSpec
CONSTANTS
  Threads = {t, u}
  Capacity = 2
  kBatchSize = 2
  MaxSends = 4
  MaxPings = 3
  MaxAcks = 1
  NoThread = NoThread
  NoMessage = NoMessage
INVARIANTS EachPingAnsweredOnce
PROPERTIES InOrder SendsArrive
