SPECIFICATION FairSpec
CONSTANTS
  Images = {a, b}
  ImageLen = 2
  OtaLen = 3
  MinSize = 2
  ChunkLen = 2
INVARIANTS TypeOK UploadIsInFlash
PROPERTIES AcceptedIsAnnounced AbandonedUploadEnds RepairIsPossible
