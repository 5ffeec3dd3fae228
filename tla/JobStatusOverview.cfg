CONSTANTS
  c1 = c1
  c2 = c2
  t1 = t1
  t2 = t2
  Clis = {c1}
  Threads = {t1, t2}
  Prober = Prober
  NoClient = NoClient
  Invocations <- OneOperator
  UiRequests <- UiNone
  Interruptible = {}
  MaxTables = 2
SPECIFICATION SteadySpec
INVARIANT OverviewTruthful
CHECK_DEADLOCK FALSE
