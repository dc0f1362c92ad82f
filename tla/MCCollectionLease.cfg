CONSTANTS
  Execs = {e1, e2}
  Stubborn = {e2}
  OldRef = OldRef
  Free = Free
  None = None
  Beat = 1
  Loss = 2
  Deadline = 4
  Grace = 0
  ClaimWait = 0
  StaleAfter = 3
  LegacyAfter = 3
  ReleaseAttempts = 2
  StartAges = {1}
  MaxBeats = 1
  AgeCap = 4
SPECIFICATION FairSpec
INVARIANTS TypeOK MutualExclusion LeaseCoversAction ReleasedCallStops
PROPERTIES OnlyKnownReleases ImplementsLock OldClaimKeepsItsHour NoCallKeepsTheLease
