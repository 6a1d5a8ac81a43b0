SPECIFICATION FairSpec
CONSTANTS
  d1 = d1  p = p  q = q  k = k  j = j
  Device = {d1}
  Plugin = {p, q}
  Cohort = {k, j}
  PluginOf <- MCPluginOf
  Host <- MCHost
  Rank <- MCRank
  Percentile <- MCPercentile
  FirstVersion <- MCFirstVersion
  FirstPublished = 1
  Plans <- MCPlans
  NoPlugin = NoPlugin
  NoCohort = NoCohort
  Idle = Idle
  None = None
  MaxCampaigns = 2
  MaxHours = 1
  MaxUpsets = 1
  FirstCohorts <- MCFirstCohorts
INVARIANTS StagedRollout OnlyOverlapsCoexist CompletedForANewerOne DashboardIsRight
PROPERTY Converges
CHECK_DEADLOCK FALSE
