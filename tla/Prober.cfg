SPECIFICATION FairSpec
CONSTANTS
  Agents = {a, b}
  Pingers = {a}
  max_connections_per_nic = 1
  MaxConns = 2
  MaxProbes <- MCMaxProbes
INVARIANTS TypeOK RttIsOwn
PROPERTIES CallsEnd
CHECK_DEADLOCK FALSE
