SPECIFICATION SuiteSpec
CONSTANTS
  Nothing = Nothing
  Awaited = Awaited
  p1 = p1
  p2 = p2
  amina = amina
  brahim = brahim
  visitor1 = visitor1
  visitor2 = visitor2
  q1 = q1
  q2 = q2
  Births <- TwoBirths
  Ids = {amina, brahim}
  Places <- OneTownEach
  Days <- EveAndBirthday
  FormYear = 2027
  Consoles <- BeforeAndAfter
  Batches <- InSeveralWays
  Calendars = {2026}
  Towns = {"arzew", "bab"}
  Territory = {"arzew"}
  StatusFilters = {Nothing, "pending", "eligible"}
  Texts = {Nothing, "receipt"}
  ListRows <- TwoRows
  RowsPerPage = 1
  Watched = {"arzew", "bab"}
  Polls = {q1, q2}
  MaxFailures = 1
  Announcing = {"arzew", "bab"}
  YearHeld <- TwoYears
  Followers = {visitor1}
  Visitors = {visitor1, visitor2}
  Amended = {"arzew", "bab"}
  ResultsPerPage = 1
  DrawnYears = {2026, 2027}
  TownDraws = {"arzew 2026", "arzew 2027"}
  Entries = {"single", "other", "pair"}
  People = {"amina", "chafik", "dalila"}
  YearDrawn <- YearOfEach
  DrawFor <- DrawOfEach
  OccupantsOf <- ThreePeople
  OldRecords <- Imported
  MayCorrect = {"dalila"}
  MaxFreezes = 3
INVARIANTS
  SentIsAccepted
  ExecutesAsShown
  DoneOnce
  ShownIsAsked
  NeverForgotten
PROPERTIES
  DrawableAgain
  NotFoundIsTrue
CHECK_DEADLOCK FALSE
