\* Two flows and three messages: the turn comes round to the first flow again
\* while its first message may be in flight.
SPECIFICATION Spec
CONSTANTS
  NumFlows = 2
  MaxMessages = 3
  MaxRefusals = 2
INVARIANTS TypeOK TransferInOrder
CHECK_DEADLOCK FALSE
