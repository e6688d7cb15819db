SPECIFICATION FairSpec
CONSTANTS
  r1 = r1
  r2 = r2
  Runs = {r1, r2}
  None = None
  Profiles = {"dflash2", "baseline"}
  MayAbandon = TRUE
  MaxRuns = 2
  MaxFaults = 1
INVARIANTS TypeOK FailedStartUndone KeepsItsWord AnswerWasTrue MuseStopIsTrue
PROPERTIES RollsBackOwn IngressFirst RunsEnd
CHECK_DEADLOCK FALSE
