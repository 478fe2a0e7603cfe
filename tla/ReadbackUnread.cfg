SPECIFICATION HistorySpec
CONSTANTS
  WaveshareOutputs = 1
  M31Outputs = 1
  M31Inputs = 0
  LinkFailures = 2
INVARIANT LinkedImageWasRead
