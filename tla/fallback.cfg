\* An upgrade whose second migration fails.
SPECIFICATION FairSpec
CONSTANTS
  None = None  Plain = Plain  Garbage = Garbage
  d1 = d1  d2 = d2  s1 = s1  s2 = s2
  Delayed = {}
  Keys = {s1, s2}
  MaxChunks = 1
  MaxSize = 3
  Contents <- NoTransaction
  TooLarge = {}
  Sequencers <- OneSequencer
  Time <- RegularTime
  Offsets = {0}
  Delays = {0}
  Chunking <- WholeBlueprints
  Inputs = {"blueprint", "upgrade"}
  Known <- TwoMigrations
  Failing = {2}
  MaxForced = 1
  Timeout = 1
  MinLevels = 1
  Lookahead = 1
  Grace = 1
  MaxLevel = 2
  MaxBlocks = 2
  MaxInputs = 2
  RebootsMayRunOut = FALSE
  InboxMayReboot = FALSE
  BlockMayFail = FALSE
PROPERTIES
  StageOneIsReached
CHECK_DEADLOCK FALSE
