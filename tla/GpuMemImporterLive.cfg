\* Two buffers of one message: a request waits behind the request of the other
\* client, and behind the clean-up of what that client has registered.
SPECIFICATION EarlySpec
CONSTANTS
  server = server
  Callers = {server}
  Clients = {p, q}
  MaxRequests = 2
  MaxChunks = 1
  shutdown_when_all_clients_exited = TRUE
PROPERTIES BuffersReleased RequestAnswered
CHECK_DEADLOCK FALSE
