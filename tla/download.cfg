SPECIFICATION Spec
CONSTANTS
  Client = Client
  Listener = Listener
  None = None
  Old = Old
  Tids = {t1, t2}
  Strangers = {x}
  FileLen = 5
  Source <- MCSource
  BlockSize = 2
  InitialTimeout = 1
  MaxRetries = 2
  BlockMod = 4
  Types = {"READ"}
  ClientOptions <- Shipped
  Faults = {"delay", "duplicate", "send", "disk"}
  MaxLost = 0
\* The programs end: the client when its transfer is over, the server when it
\* is told to.
CHECK_DEADLOCK FALSE
SYMMETRY Symmetry
INVARIANTS
  TypeOK
  DownloadInv
  DownloadIntact
  NoFalseSuccess
PROPERTY KeepsPromise
