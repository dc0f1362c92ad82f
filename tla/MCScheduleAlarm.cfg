CONSTANTS
  Patterns <- MCPatterns
  Windows <- MCWindows
  Horizon = 4
  Last = 6
  MaxRevision = 1
  Skews <- MCSkews
  Lead = 1
  RunLimit = 1
  AbandonAfter = 1
  None = None
SPECIFICATION FairSpec
INVARIANTS TypeOK RunFollowsNominal
PROPERTIES SubmitsOnce OutcomeIsFinal ClaimsCurrentConfig Waits AbandonedIsOver ReachedIsClaimed StartedSettles
