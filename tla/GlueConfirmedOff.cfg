SPECIFICATION GlueSpec
CONSTANTS
  WaveshareOutputs = 1
  M31Outputs = 0
  M31Inputs = 0
  LinkFailures = 1
PROPERTY ConfirmedOffIsOff
