\* A block in progress is left to a level that forces blueprints.
SPECIFICATION Spec
CONSTANTS
  None = None  Plain = Plain  Garbage = Garbage
  d1 = d1  d2 = d2  s1 = s1  s2 = s2
  Delayed = {d1, d2}
  Keys = {s1, s2}
  MaxChunks = 1
  MaxSize = 3
  Contents <- PlainPair
  TooLarge = {}
  Sequencers <- OneSequencer
  Time <- RegularTime
  Offsets = {0, 2}
  Delays = {0}
  Chunking <- WholeBlueprints
  Inputs = {"delayed", "blueprint"}
  Known <- OneKernel
  Failing = {}
  MaxForced = 1
  Timeout = 1
  MinLevels = 1
  Lookahead = 2
  Grace = 1
  MaxLevel = 2
  MaxBlocks = 2
  MaxInputs = 3
  RebootsMayRunOut = TRUE
  InboxMayReboot = FALSE
  BlockMayFail = FALSE
INVARIANTS
  TimestampsIncrease
CHECK_DEADLOCK FALSE
