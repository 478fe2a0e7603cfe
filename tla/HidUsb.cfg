SPECIFICATION FairSpec
CONSTANTS
  Report = {centre, left}
  Centre = centre
  None = none
INVARIANTS TypeOK CleanIsShown NothingDueIsTold
PROPERTIES PcConverges HostLearns
