CONSTANTS
  x = x
  r = r
  o1 = o1
  o2 = o2
  a1 = a1
  a2 = a2
  c1 = c1
  c2 = c2
  u = u
  Accounts = {x}
  Instruments = {}
  Relations = {r}
  Changes <- MCChanges
  Approvals = {a1, a2}
  Principals = {u}
  Ops = {o1, o2}
  Keys <- MCKeys
  DirectKeys <- MCDirectKeys
  Calls = {c1, c2}
  Legacy = {x}
  Targets <- MCTargets
  Uses <- MCUses
  MaxRev = 2
  None = None
SPECIFICATION Spec
INVARIANTS TypeOK NoLostUpdate SpentOnce 
PROPERTIES AnswersAreReceipts
SYMMETRY CommitSymmetry
