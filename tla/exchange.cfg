SPECIFICATION FairSpec
CONSTANTS
  None = None
  NaN = NaN
  MinBlockSize = 2
  MaxBlockSize = 4
  MinTimeout = 1
  MaxTimeout = 2
  MaxTsize = 5
  Char = {"a", "cr", "lf", "nul"}
  Word = 16
  Byte = 3
  InitialBlockSize = 3
  InitialTimeout = 1
  BufferSize = 8
  FileSize = 2
  MaxText = 5
  ClientOptions <- MCClientOptions
  ForeignRequests <- MCForeignRequests
  ForeignOacks <- MCForeignOacks
  Texts <- MCTexts
\* An exchange ends.
CHECK_DEADLOCK FALSE
INVARIANTS
  ExchangeInv
  AnswersOnlyWhatWasAsked
  WellFormedUnderstood
  Agreed
  FitsBuffer
  StoredText
PROPERTY UploadCompletes
