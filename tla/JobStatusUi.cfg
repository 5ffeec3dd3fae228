CONSTANTS
  c1 = c1
  c2 = c2
  t1 = t1
  t2 = t2
  Clis = {}
  Threads = {t1, t2}
  Prober = Prober
  NoClient = NoClient
  Invocations <- OneOperator
  UiRequests <- UiOne
  Interruptible = {}
  MaxTables = 2
SPECIFICATION Spec
PROPERTY RestartSettles
SYMMETRY ThreadSymmetry
CHECK_DEADLOCK FALSE
