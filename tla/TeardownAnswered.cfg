CONSTANTS
  t1 = t1
  t2 = t2
  Threads = {t1}
  Asks <- WithClusters
  Env = "vmc"
  NamedSes = TRUE
  Flaky <- Commands
  CanCrash = FALSE
  MaxPolls = 2
SPECIFICATION FairSpec
INVARIANTS TypeOK
PROPERTIES Answered
CHECK_DEADLOCK FALSE
