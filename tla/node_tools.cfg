SPECIFICATION MCSpec
CONSTANTS
  Calls <- SomeCalls
  MayFail = TRUE
  Depth = 1
  Programs <- AllPrograms
  Channels = 2
  NodeIds <- SomeNodeIds
  Registers <- SomeRegisters
  Written <- SomeWritten
  Infos <- SomeInfos
  MaxMishaps = 1
  Server = 1
  Target = 127
  Stranger = 5
  MaxStrange = 1
  OtherServer = 9
  MaxEarly = 1
  FileSizes = {0, 2, 3, 4}
  MaxFile = 3
  Block = 2
  TidMod = 3
INVARIANTS
  OwnResult
  NothingLeftBehind
  StoredIsCalibration
  AnswerIsFaithful
  DumpIsComplete
  ImageIsFile
PROPERTIES
  ToolEnds
  UpdateCompletes
CHECK_DEADLOCK FALSE
