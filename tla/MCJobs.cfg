CONSTANTS
  Users = {u1}
  Kinds = {"ccr_run", "risk_backfill", "ipv_run"}
  SiteKinds = {"risk_backfill"}
  Workers = {w1, w2}
  Handles <- TakeTwo
  Requests = {r1}
  MaxAttempts = 2
  Overruns = {"risk_backfill"}
  NoOne = NoOne
  MaxJobs = 2
  MaxFaults = 3
SPECIFICATION FairSpec
CHECK_DEADLOCK FALSE
INVARIANTS TypeOK AttemptsBounded ExclusiveRun
PROPERTIES OutcomeIsFinal QueuedIsTaken
