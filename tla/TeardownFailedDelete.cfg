CONSTANTS
  t1 = t1
  t2 = t2
  Threads = {t1}
  Asks <- AllOnly
  Env = "vsphere"
  NamedSes = FALSE
  Flaky <- OneDelete
  CanCrash = FALSE
  MaxPolls = 1
SPECIFICATION Spec
INVARIANTS MgmtLast
CHECK_DEADLOCK FALSE
