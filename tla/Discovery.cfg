SPECIFICATION FairSpec
CONSTANTS
  Limit <- MCLimit
  Plants <- MCPlants
  Probes = 2
  BlobMax = 44
  ChunkMax = 24
  Address = {a1, a2}
  NoAddr = none
  BurstSize = 1
  MaxEvents = 2
INVARIANTS TypeOK CountsAreSound
PROPERTIES HostFindsCard
