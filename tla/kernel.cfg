\* Two sequencers, faulty blueprints, and levels that end before the kernel is done.
SPECIFICATION Spec
CONSTANTS
  None = None  Plain = Plain  Garbage = Garbage
  d1 = d1  d2 = d2  s1 = s1  s2 = s2
  Delayed = {d1}
  Keys = {s1, s2}
  MaxChunks = 2
  MaxSize = 2
  Contents <- AllContents
  TooLarge = {Plain}
  Sequencers <- TwoSequencers
  Time <- RegularTime
  Offsets = {0}
  Delays = {0, 1}
  Chunking <- AnyChunks
  Inputs = {"delayed", "blueprint", "upgrade", "sequencer"}
  Known <- TwoMigrations
  Failing = {2}
  MaxForced = 1
  Timeout = 1
  MinLevels = 1
  Lookahead = 1
  Grace = 1
  MaxLevel = 2
  MaxBlocks = 2
  MaxInputs = 2
  RebootsMayRunOut = TRUE
  InboxMayReboot = TRUE
  BlockMayFail = TRUE
INVARIANTS
  TypeOK
  BipHasBlueprint
  WorldIsAtomic
PROPERTIES
  ExtendsItsParent
  SequencerExtends
CHECK_DEADLOCK FALSE
