CONSTANTS
  t1 = t1
  t2 = t2
  Threads = {t1, t2}
  Asks <- Everything
  Env = "vcf"
  NamedSes = FALSE
  Flaky <- Vmware
  CanCrash = TRUE
  MaxPolls = 1
SPECIFICATION Spec
INVARIANTS MgmtLast AlbServes NsxLast
SYMMETRY ThreadSymmetry
CHECK_DEADLOCK FALSE
