SPECIFICATION SuiteSpec
CONSTANTS
  Null = Null
  ann = ann
  bob = bob
  north = north
  south = south
  t1 = t1
  t2 = t2
  call1 = call1
  call2 = call2
  tab1 = tab1
  tab2 = tab2
  app1 = app1
  app2 = app2
  visitor1 = visitor1
  visitor2 = visitor2
  Tabs = {tab1, tab2}
  Accounts = {"ann"}
  Cookies = {"token"}
  MaxAttempts = 1
  Guesses = 2
  MayFail = FALSE
  Users = {ann, bob}
  Regions = {north, south}
  RegionOf <- OneTown
  Tokens = {t1, t2}
  Served = {call1, call2}
  Production = TRUE
  Localities = {"arzew", "bab"}
  Wilayas = {"oran", "alger"}
  WilayaOf <- EachInOne
  Staff = {"chief", "clerk"}
  AppointedTo <- ChiefAndClerk
  Movable = {"clerk"}
  Readers = {"clerk"}
  Batches = {"upload"}
  Country = "national"
  Applications = {app1, app2}
  Unknown = "unknown"
  Visitors = {visitor1, visitor2}
  Addresses = {"nat64"}
  AddressOf <- OneAddress
  AddressLimit = 1
  ReferenceLimit = 1
  MaxCounted = 3
INVARIANTS
  WayIn
SYMMETRY Symmetry
CHECK_DEADLOCK FALSE
