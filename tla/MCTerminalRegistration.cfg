CONSTANTS
  a = a
  b = b
  w1 = w1
  w2 = w2
  w3 = w3
  d = d
  Scan = Scan
  None = None
  Objects = {a, b}
  Runs = {1, 2}
  Writers = {w1, w2, w3}
  RunOf <- MCRunOf
  Manifest <- MCManifest
  Attempted = {{w1, w2}, {w2, w3}}
  DirectSeal = 1
  Refused = {2}
  Deliveries = {d}
  Budget = 2
  Chunk = 1
  PageLimit = 1
  MaxRegistrations = 1
  MaxFaults = 1
SPECIFICATION FairSpec
INVARIANTS TypeOK TerminalHasObjects RegisteredIsWhole
PROPERTIES EveryTerminalIsJudged
