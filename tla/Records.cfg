SPECIFICATION SuiteSpec
CONSTANTS
  None = None
  scoped = scoped
  nadia = nadia
  omar = omar
  r1 = r1
  r2 = r2
  c1 = c1
  c2 = c2
  c3 = c3
  Admins = {scoped, nadia, omar}
  Nationals = {nadia, omar}
  Requests = {r1, r2}
  Calls = {c1, c2, c3}
  Asked <- OneFieldEach
  Travellers <- APairAndTwo
  Allocated = 2
  Publishers = {"p"}
INVARIANTS
  ApprovedByTwo
  LedgerIsLastAudited
  OneStory
SYMMETRY Symmetry
CHECK_DEADLOCK FALSE
