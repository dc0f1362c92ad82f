CONSTANTS
  t1 = t1
  t2 = t2
  c = c
  Ticks = {t1, t2}
  Collect = {c}
  Refresh = {}
  Import = {}
  Asked = {{c}}
  None = None
  Runs = {"registering", "blocked", "published"}
  LongCalls = FALSE
SPECIFICATION Spec
INVARIANTS PublishedKeepsRunning
