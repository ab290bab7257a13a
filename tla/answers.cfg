SPECIFICATION AnswersSpec
CONSTANTS
  MaxRuns = 2
  MaxSymbols = 2
  MaxNodes = 4
  PyForms <- MCPyForms
  EsForms <- MCEsForms
  Private = {"_Base"}
  Capitalised = {"C"}
  Files <- MCFiles
  Outlines <- MCOutlines
  Configs <- MCConfigs
  ChunkIds = {1, 2, 3}
  Requests <- MCRequests
  MaxScore = 2
  Scale = 12
  Digit = 3
  Environments <- MCEnvironments
  Checkouts <- MCCheckouts
  Identifiers = {"a", "b", "m", "os", "x", "__init__"}
  PythonImports <- MCPythonImports
  JsImports <- MCJsImports
  MaxExtendsDepth = 1
  NotLoaded = NotLoaded
  NotSet = NotSet
  Projects <- MCProjects
  Names <- MCNames
  MaxReexportDepth = 2
  Trees <- MCTrees
  MaxFiles = 2
  MaxIndexedSize = 2
  MaxParsedSize = 1
INVARIANTS
  ContentsAddUp
  ScopesAreRight
  ExportsAgree
  RelativeAgreesWithAbsolute
  LoadedAsWritten
  ProvidedByExport
  EdgesAreReal
  EveryCodeLineIsChunked
  ChunksFit
  ResponseIsARanking
  RefusalsAreTrue
  AgreementIsKept
  AnswerOfOneRun
  UndisturbedAnswerIsTrue
  ContentIsNeverOlderThanItsRow
PROPERTIES
  WindowsAdvance
CHECK_DEADLOCK FALSE
