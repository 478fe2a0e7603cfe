SPECIFICATION FairSpec
CONSTANTS
  WaveshareOutputs = 1
  M31Outputs = 1
  M31Inputs = 1
  LinkFailures = 1
INVARIANTS TypeOK NoStaleReplay ReadbackPublished
PROPERTIES ImplementsRelayBank FailSafeOff CommandIsDriven
