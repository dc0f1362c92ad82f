CONSTANTS
  t1 = t1
  t2 = t2
  c = c
  r = r
  i = i
  Ticks = {t1, t2}
  Collect = {c}
  Refresh = {r}
  Import = {i}
  Asked = {{c}, {r}, {i}}
  None = None
  Runs = {"registering", "published"}
  LongCalls = TRUE
SPECIFICATION FairSpec
INVARIANTS TypeOK RowsInStep PublishedHasEvidence
PROPERTIES CallsOnce OutcomeIsFinal EveryOperationEnds DeclinesArrive
