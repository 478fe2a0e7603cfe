SPECIFICATION FairSpec
CONSTANTS
  Tasks = {comm, worker}
  Comm = comm
  Sizes = {1, 2, 3}
  RingSize = 5
  PacketSize = 3
  Wrap = 4
  MaxLines = 5
INVARIANTS TypeOK InOrderOrDropped GapsAnnounced
PROPERTY LinesLeave
