\* Two processes, two registrations of up to two messages: enough for the late
\* acks of one registration to meet the next, of another client.
SPECIFICATION Spec
CONSTANTS
  server = server
  Callers = {server}
  Clients = {p, q}
  MaxRequests = 2
  MaxChunks = 2
  shutdown_when_all_clients_exited = TRUE
INVARIANTS TypeOK TrackedIsUsable MappedWhileRegistered
CHECK_DEADLOCK FALSE
