CONSTANTS
  t1 = t1
  t2 = t2
  Threads = {t1}
  Asks <- AllOnly
  Env = "vsphere"
  NamedSes = FALSE
  Flaky <- None
  CanCrash = TRUE
  MaxPolls = 1
SPECIFICATION Spec
INVARIANTS SuccessIsClean
CHECK_DEADLOCK FALSE
