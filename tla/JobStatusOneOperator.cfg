CONSTANTS
  c1 = c1
  t1 = t1
  t2 = t2
  c2 = c2
  Clis = {c1}
  Threads = {t1}
  Prober = Prober
  NoClient = NoClient
  Invocations <- OneOperator
  UiRequests <- UiNone
  Interruptible = {}
  MaxTables = 3
SPECIFICATION SteadySpec
INVARIANTS TurnsTaken InProgressIsOwned
PROPERTIES LedgerSpec CleanupResets Settles
CHECK_DEADLOCK FALSE
