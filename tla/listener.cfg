SPECIFICATION FairSpec
CONSTANTS
  Threads = {t1, t2}
  Clients = {a, b}
  None = None
  MaxQueued = 1
  MaxSockets = 2
\* The server ends when it is told to.
CHECK_DEADLOCK FALSE
INVARIANTS
  ListenerTypeOK
  OwnRequest
  SocketsAccounted
PROPERTIES
  KeepsServicePromise
  SessionsDoNotStopServer
  StopsWhenQuiet
