SPECIFICATION GlueFairSpec
CONSTANTS
  WaveshareOutputs = 1
  M31Outputs = 0
  M31Inputs = 0
  LinkFailures = 1
INVARIANTS NoStaleReplay LayersAgree HostIsUpToDate
PROPERTIES DisableEnds HostLearns
