SPECIFICATION Spec
CONSTANTS
  Subsystem = {discrete}
  Address = {lease1}
  Sessions = 2
  MaxRequests = 2
  RxPieces = 4
INVARIANT DropDisablesAll
