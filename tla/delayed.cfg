\* Delayed transactions and upgrades of the kernel, one of which fails; every level has the reboots it needs.
SPECIFICATION FairSpec
CONSTANTS
  None = None  Plain = Plain  Garbage = Garbage
  d1 = d1  d2 = d2  s1 = s1  s2 = s2
  Delayed = {d1, d2}
  Keys = {s1, s2}
  MaxChunks = 1
  MaxSize = 3
  Contents <- DelayedAndPlain
  TooLarge = {}
  Sequencers <- OneSequencer
  Time <- RegularTime
  Offsets = {0, 2, 3}
  Delays = {0}
  Chunking <- WholeBlueprints
  Inputs = {"delayed", "chunked", "blueprint", "dal", "upgrade", "force"}
  Known <- OneMigrationEach
  Failing = {2}
  MaxForced = 1
  Timeout = 1
  MinLevels = 1
  Lookahead = 2
  Grace = 1
  MaxLevel = 3
  MaxBlocks = 2
  MaxInputs = 2
  RebootsMayRunOut = FALSE
  InboxMayReboot = FALSE
  BlockMayFail = FALSE
INVARIANTS
  NoDelayedTransactionLost
  ExecutedInOneBlock
  TimestampsIncrease
  Deadline
PROPERTIES
  LevelEnds
CHECK_DEADLOCK FALSE
