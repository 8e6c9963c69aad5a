\* A blueprint that names a delayed transaction twice.
SPECIFICATION Spec
CONSTANTS
  None = None  Plain = Plain  Garbage = Garbage
  d1 = d1  d2 = d2  s1 = s1  s2 = s2
  Delayed = {d1, d2}
  Keys = {s1, s2}
  MaxChunks = 1
  MaxSize = 3
  Contents <- DelayedAndPlain
  TooLarge = {}
  Sequencers <- OneSequencer
  Time <- RegularTime
  Offsets = {0}
  Delays = {0}
  Chunking <- WholeBlueprints
  Inputs = {"delayed", "blueprint"}
  Known <- OneKernel
  Failing = {}
  MaxForced = 1
  Timeout = 1
  MinLevels = 1
  Lookahead = 2
  Grace = 1
  MaxLevel = 1
  MaxBlocks = 2
  MaxInputs = 2
  RebootsMayRunOut = FALSE
  InboxMayReboot = FALSE
  BlockMayFail = FALSE
INVARIANTS
  AtMostOnce
CHECK_DEADLOCK FALSE
