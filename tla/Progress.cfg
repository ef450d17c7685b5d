SPECIFICATION SuiteSpec
CONSTANTS
  None = None
  amina = amina
  brahim = brahim
  chafik = chafik
  r1 = r1
  r2 = r2
  f1 = f1
  f2 = f2
  q1 = q1
  q2 = q2
  Year = 2003
  MaxCrashes = 1
  MaxReopenings = 1
  Candidates <- TwoApplications
  People <- ThreePeople
  Occupants <- OfThem
  Recorded0 <- Waited
  Amendments <- VerifiedLate
  Freezers <- TwoFreezers
  MayWin <- TheMan
  Officials <- OneOfficial
  Settings <- AnySetting
INVARIANTS
  StreakIsUnbroken
PROPERTIES
  FrozenForGood
  FrozenInTheEnd
  EveryoneAnswered
  AnnouncementArrives
CHECK_DEADLOCK FALSE
