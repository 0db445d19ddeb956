SPECIFICATION ServicesSpec
CONSTANTS
  ApiStatuses = {"CANCELLED"}
  Steps = {p}
  NumArtifacts = 3
  MaxAttempts = 3
  MaxChain = 2
  MaxCalls = 4
  MaxFaults = 1
  Agents = {a1, a2}
  Tasks = {t1}
  NoTask = NoTask
  MaxSpans = 3
  MaxGen = 1
  Callers = {c1, c2}
  Envelopes = {e1, e2}
  Keys = {k1, k2}
  MaxPublish = 4
  MaxLogFaults = 1
  MaxSessions = 2
  QueueSize = 1
  MaxAsked = 2
  MaxTraffic = 1
  Replies <- MCReplies
  HitlChoices <- MCHitlChoices
  Fallback = TRUE
  MaxPlan = 8
  MaxRuns = 6
  MaxMishaps = 1
INVARIANTS
  ServicesTypeOK
  PayloadIsSomewhere StoredIsPrefix SameQuestion WaitingHasPending StatusIsExplained RolledBackOrExplained
  TokensAddUp AttributionIsRight
  KeySentOnce SkippedIsElsewhere
  ApprovesWhatIsShown PanelFollowsServer
  PassIsBacked WorkArrives PatcherHearsReviewer PlanIsCarriedOut
CHECK_DEADLOCK FALSE
