CONSTANTS
  Zero = Zero
  v1 = v1
  NoVal = NoVal
  Vals = {Zero, v1}
  MaxItems = 2
  MaxLength = 2
  MaxAccesses = 2
  Amounts <- MCAmounts
  MaxWrites = 2
  WrittenPairs <- MCWritten
  MaxStyleOps = 2
  MaxBraces = 4
  MaxCascadeOps = 3
  MaxMatrixOps = 2
  TheRoot = 2
  TheShadowRoot = 1
  Callbacks = {"f"}
  Handlers = {"h"}
  ListenerOptions <- MCListenerOptions
  Dispatched = {"e1", "e2"}
  Composed = {"e1"}
  MaxEventOps = 3
  MaxDepth = 2
  MaxToggles = 3
  MaxMinted = 7
  MaxKids = 3
  LabelOrder <- MCLabelOrder
  ControlOrder <- MCControlOrder
  MaxLabelWrites = 3
  RadioOrder <- MCRadioOrder
  OptionOrder <- MCOptionOrder
  MaxFormOps = 3
  MaxGeometryOps = 3
  MaxMessages = 2
  MaxReads = 2
  MaxHeaderOps = 3
  MaxSignals = 3
  MaxSources = 3
  MaxSignalOps = 5
  SharedCountKeys = 1
  LastEpoch = 9
  MaxCacheOps = 3
  MaxCacheWrites = 2
  MaxTokenOps = 3
  MaxRowOps = 4
  Starts <- MCStarts
  TextNodes = {3}
  SnapshotLimit = 3
  ChunkSize = 1
  MaxEpoch = 1
  MaxNavOps = 4
  MaxTreeWrites = 1
  TokenBatchSize = 16
  MaxCreated = 12
SPECIFICATION Spec
INVARIANTS CancelledClickRestores
CHECK_DEADLOCK FALSE
