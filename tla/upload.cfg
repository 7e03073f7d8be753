SPECIFICATION Spec
CONSTANTS
  Client = Client
  Listener = Listener
  None = None
  Old = Old
  Tids = {t1, t2}
  Strangers = {x}
  FileLen = 3
  Source <- MCSource
  BlockSize = 2
  InitialTimeout = 1
  MaxRetries = 1
  BlockMod = 3
  Types = {"WRITE"}
  ClientOptions <- Shipped
  Faults = {"delay", "duplicate", "disk", "sigint"}
  MaxLost = 0
\* The programs end: the client when its transfer is over, the server when it
\* is told to.
CHECK_DEADLOCK FALSE
SYMMETRY Symmetry
INVARIANTS
  UploadIntact
  UploadInv
  NoFalseSuccess
