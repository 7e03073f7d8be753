SPECIFICATION FairSpec
CONSTANTS
  Client = Client
  Listener = Listener
  None = None
  Old = Old
  Tids = {t1, t2}
  Strangers = {}
  FileLen = 7
  Source <- MCSource
  BlockSize = 2
  InitialTimeout = 1
  MaxRetries = 1
  BlockMod = 3
  Types = {"READ", "WRITE"}
  ClientOptions <- Both
  Faults = {}
  MaxLost = 0
\* The programs end: the client when its transfer is over, the server when it
\* is told to.
CHECK_DEADLOCK FALSE
INVARIANTS
  DownloadIntact
  UploadIntact
PROPERTY Success
