SPECIFICATION FairSpec
CONSTANTS
  Subsystem = {discrete}
  Address = {lease1, lease2}
  Sessions = 2
  MaxRequests = 2
  RxPieces = 4
INVARIANTS TypeOK StreamIntact OwnedByLatest
PROPERTIES HostGetsIn RequestsAreAnswered
