SPECIFICATION Spec
CONSTANTS
  WinnerCount = 2
  ReserveCount = 3
  Clients = {c1, c2}
  PairedWinners = {1, 2}
  PairedReserves = {2}
CHECK_DEADLOCK FALSE
INVARIANTS TypeOK PromotionIsWhole PromotedOnceInLife RoomForEveryCall
PROPERTIES KeepsPlaceBook
