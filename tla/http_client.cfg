\* Two callers, a redirect, a stop; more socket numbers than are ever open.
CONSTANTS
  Threads = {a, b}
  Sockets = {1, 2}
  None = None
  MaxRedirects = 1
  MaxCalls = 2
  MaxStops = 1
  MaxWire = 2
SPECIFICATION Spec
INVARIANT SocketsOwned
INVARIANT FreshExchange
PROPERTY ShutIsClosed
PROPERTY CallsEnd
CHECK_DEADLOCK FALSE
