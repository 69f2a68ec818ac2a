\* Two threads share the manager, which dxs-client-interface.h calls
\* "Thread safe.": one of them is handed the other's registration.
SPECIFICATION BMSpec
CONSTANTS
  Callers = {s, t}
  MaxRequests = 2
  MaxChunks = 1
INVARIANT HandleIsOwn
CHECK_DEADLOCK FALSE
