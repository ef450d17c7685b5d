SPECIFICATION Spec
CONSTANTS
  EntryCount = 4
  MaxWeight = 2
  MaxSpots = 3
CHECK_DEADLOCK FALSE
INVARIANTS ExactlyFilled RefusedOnLastPlaceOnly FairShares Replayable
PROPERTIES Terminates
