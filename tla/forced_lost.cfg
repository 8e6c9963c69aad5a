\* Delayed transactions time out while the chunks of a blueprint arrive.
SPECIFICATION Spec
CONSTANTS
  None = None  Plain = Plain  Garbage = Garbage
  d1 = d1  d2 = d2  s1 = s1  s2 = s2
  Delayed = {d1}
  Keys = {s1, s2}
  MaxChunks = 2
  MaxSize = 3
  Contents <- NoTransaction
  TooLarge = {}
  Sequencers <- OneSequencer
  Time <- RegularTime
  Offsets = {0}
  Delays = {0}
  Chunking <- TwoChunks
  Inputs = {"delayed", "blueprint"}
  Known <- OneKernel
  Failing = {}
  MaxForced = 1
  Timeout = 1
  MinLevels = 1
  Lookahead = 1
  Grace = 1
  MaxLevel = 2
  MaxBlocks = 2
  MaxInputs = 2
  RebootsMayRunOut = FALSE
  InboxMayReboot = FALSE
  BlockMayFail = FALSE
INVARIANTS
  NoDelayedTransactionLost
CHECK_DEADLOCK FALSE
