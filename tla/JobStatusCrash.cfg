CONSTANTS
  c1 = c1
  c2 = c2
  t1 = t1
  t2 = t2
  Clis = {c1}
  Threads = {t1}
  Prober = Prober
  NoClient = NoClient
  Invocations <- Beside
  UiRequests <- UiVmc
  Interruptible = {c1}
  MaxTables = 2
SPECIFICATION Spec
INVARIANTS TypeOK PassedIsEarned
CHECK_DEADLOCK FALSE
