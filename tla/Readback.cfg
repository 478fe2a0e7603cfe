SPECIFICATION HistorySpec
CONSTANTS
  WaveshareOutputs = 0
  M31Outputs = 2
  M31Inputs = 1
  LinkFailures = 2
INVARIANT AtMostOneUnreportedRelay
PROPERTY ReportsOnlyReadback
