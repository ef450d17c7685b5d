SPECIFICATION SuiteSpec
CONSTANTS
  LastYear = 2
  Chunk = 2
  MaxCorrections = 1
  People <- TwoPeople
  Communes <- HomeAndAway
  Allowed <- Home
  Batches <- TwoBatches
  File <- Register
  Checksum <- Own
  Admins <- TwoAdmins
  Pooled <- TheKnown
  Registry <- Databases
  MaxLines = 2
  MaxSlips = 1
  CommuneDraw = "arzew-2027"
  PoolEntries <- SmallEntries
  MaxEntries = 2
  MaxRows = 3
  MaxColumns = 2
  MaxCell = 1
  Letters <- X
  Typed = 7
INVARIANTS
  TamperingIsNoticed
  OneStory
  ReadBack
  WholeRegister
PROPERTIES
  SpendsAndKeeps
CHECK_DEADLOCK FALSE
