SPECIFICATION Spec
CONSTANTS
  Client = Client
  Listener = Listener
  None = None
  Old = Old
  Tids = {t1}
  Strangers = {}
  FileLen = 4
  Source <- MCSource
  BlockSize = 2
  InitialTimeout = 1
  MaxRetries = 1
  BlockMod = 8
  Types = {"READ"}
  ClientOptions <- Shipped
  Faults = {}
  MaxLost = 0
\* The programs end: the client when its transfer is over, the server when it
\* is told to.
CHECK_DEADLOCK FALSE
INVARIANT EndOfFileIsNoError
